------------------------- MODULE SyncCoverageProofs -------------------------
(***************************************************************************)
(* What reaches the viewers: no change of the screen is forgotten          *)
(* (Coverage, LossOnlyWhenFull), a quiet system is in step with the screen *)
(* (QuiescentMeansSynced), and every step of ScreenSync is a step of       *)
(* PictureFeed or none that it sees (ImplementsPictureFeed).               *)
(***************************************************************************)
EXTENDS ScreenSyncFeed, ScreenSyncProofs

\* A posted message tells of b.
Noticed(b) == \E i \in 1..Len(notices) : b \in notices[i]

\* Whose contents differ from the screen is known to someone.  The picture that is
\* being compressed differs only where a message has been posted since it was begun.
\* So do the blocks already clipped into an image, and a block that was torn; the
\* blocks of the message in hand are in the list of this connection by then.
PictureCovered(c, b) ==
    Compresses(c) => (ui.img[b] # m_pBuffer[b] => Noticed(b))
ClippedCovered(c, b) ==
    Clips(c) => (b \in DOMAIN ui.img /\ ui.img[b] # m_pBuffer[b] => Noticed(b))
UnlistedCovered(c, b) ==
    Clips(c) /\ ~garbled[c] =>
        (b \notin ToSet(m_pnModifiedBlocks[c]) /\ sent[c][b] # m_pBuffer[b]
         => Noticed(b) \/ b \in lost[c])
TornCovered(c) ==
    Clips(c) =>
        (ui.torn /\ ui.next <= Len(m_pnModifiedBlocks[c]) => Noticed(m_pnModifiedBlocks[c][ui.next]))
SentCovered(c, b) ==
    ~Compresses(c) /\ ~Clips(c) /\ sent[c] # Null /\ ~garbled[c] =>
        (sent[c][b] # m_pBuffer[b] => Pending(c, b) \/ b \in lost[c])

Covered(c) ==
    /\ TornCovered(c)
    /\ \A b \in Block : /\ PictureCovered(c, b) /\ ClippedCovered(c, b)
                        /\ UnlistedCovered(c, b) /\ SentCovered(c, b)

CoverInv == ~crashed => \A c \in m_mapClient : Covered(c)

\* The invariant says what Coverage says, and more.
LEMMA CoverIsCoverage == SyncInv /\ CoverInv => Coverage
<1> SUFFICES ASSUME SyncInv, CoverInv, NEW c \in m_mapClient, NEW b \in Block,
                    ~crashed, Pictured(c) # Null, ~garbled[c], Pictured(c)[b] # m_pBuffer[b]
             PROVE  Pending(c, b) \/ b \in lost[c]
  BY DEF Coverage
<1>1. Covered(c)
  BY DEF CoverInv
<1>2. Noticed(b) => Pending(c, b)
  BY DEF Noticed, Pending
<1>3. CASE Compresses(c)
  BY <1>1, <1>2, <1>3 DEF Covered, PictureCovered, Compresses, Pictured
<1>4. CASE Clips(c)
  <2>1. Pictured(c) = sent[c] /\ m_pnModifiedBlocks[c] # Null
    BY <1>4 DEF Clips, Compresses, Pictured, SyncInv, HandlerInv
  <2> QED
    BY <1>1, <1>2, <1>4, <2>1 DEF Covered, UnlistedCovered, Pending
<1>5. CASE ~Compresses(c) /\ ~Clips(c)
  <2>1. Pictured(c) = sent[c]
    BY <1>5 DEF Compresses, Pictured
  <2> QED
    BY <1>1, <1>5, <2>1 DEF Covered, SentCovered
<1> QED
  BY <1>3, <1>4, <1>5

LEMMA CoverInit == Init => CoverInv
BY DEF Init, CoverInv

\* A connection about which nothing changes stays covered.
LEMMA CoverFrame ==
    ASSUME NEW c, Covered(c),
           UNCHANGED <<notices, ui, m_pBuffer>>,
           m_pnModifiedBlocks'[c] = m_pnModifiedBlocks[c], sent'[c] = sent[c],
           lost'[c] = lost[c], garbled'[c] = garbled[c]
    PROVE  Covered(c)'
BY DEF Covered, TornCovered, PictureCovered, ClippedCovered, UnlistedCovered, SentCovered,
       Compresses, Clips, Noticed, Pending

\* A connection with no picture, outside of a handler, has nothing to be covered.
LEMMA NothingToCover ==
    ASSUME NEW c, sent[c] = Null, ui = UiFree
    PROVE  Covered(c)
<1>1. ~Compresses(c) /\ ~Clips(c)
  BY UiFreeFields DEF Compresses, Clips
<1> QED
  BY <1>1 DEF Covered, TornCovered, PictureCovered, ClippedCovered, UnlistedCovered, SentCovered

\* The capture thread tells what it changed.
LEMMA CoverCapture ==
    ASSUME SyncInv, CoverInv, CaptureThread
    PROVE  CoverInv'
<1>1. ~crashed /\ UNCHANGED <<m_mapClient, m_pnModifiedBlocks, sent, lost, garbled>>
  BY DEF CaptureThread, CaptureFirst, CaptureSwap, connVars
<1> SUFFICES ASSUME NEW c \in m_mapClient PROVE Covered(c)'
  BY <1>1 DEF CoverInv
<1>2. Covered(c) /\ c \in Client
  BY <1>1 DEF CoverInv, SyncInv, TypeOK
<1>3. CASE CaptureFirst
  <2>1. m_pBuffer = Null /\ UNCHANGED ui
    BY <1>3 DEF CaptureFirst
  <2>2. sent[c] = Null /\ ui.pc # "compress" /\ ~Clips(c)
    BY <2>1 DEF SyncInv, BufferInv, HandlerInv, Clips
  <2> QED
    BY <1>1, <2>1, <2>2 DEF Covered, TornCovered, PictureCovered, ClippedCovered, UnlistedCovered,
                            SentCovered, Compresses, Clips
<1>4. CASE CaptureSwap
  <2>1. PICK new \in Bitmap :
          /\ m_pBuffer' = new /\ ui' \in Overtake(new)
          /\ notices' = IF ModifiedBlocks(new, m_pBuffer) = {} THEN notices
                        ELSE Append(notices, ModifiedBlocks(new, m_pBuffer))
    BY <1>4 DEF CaptureSwap
  <2>2. \A b \in Block : b \in ModifiedBlocks(new, m_pBuffer) <=> new[b] # m_pBuffer[b]
    BY DEF ModifiedBlocks, Bitmap
  <2>3. notices \in Seq((SUBSET Block) \ {{}}) /\ Len(notices) \in Nat
    BY DEF SyncInv, TypeOK
  <2>4. \A b \in Block : Noticed(b)' <=> Noticed(b) \/ new[b] # m_pBuffer[b]
    <3>1. CASE ModifiedBlocks(new, m_pBuffer) = {}
      BY <2>1, <2>2, <3>1 DEF Noticed
    <3>2. CASE ModifiedBlocks(new, m_pBuffer) # {}
      <4> DEFINE e == ModifiedBlocks(new, m_pBuffer)
      <4>1. notices' = Append(notices, e)
        BY <2>1, <3>2
      <4> HIDE DEF e
      <4>2. /\ Len(notices') = Len(notices) + 1 /\ notices'[Len(notices) + 1] = e
            /\ \A i \in 1..Len(notices) : notices'[i] = notices[i]
        BY <2>3, <4>1
      <4>3. 1..Len(notices') = 1..Len(notices) \cup {Len(notices) + 1}
        BY <2>3, <4>2
      <4>4. \A b : Noticed(b)' <=> Noticed(b) \/ b \in e
        BY <4>2, <4>3, Zenon DEF Noticed
      <4> QED
        BY <2>2, <4>4 DEF e
    <3> QED
      BY <3>1, <3>2
  <2>5. /\ ui'.pc = ui.pc /\ ui'.conn = ui.conn /\ ui'.img = ui.img /\ ui'.next = ui.next
        /\ ui'.todo = ui.todo /\ ui'.blocks = ui.blocks
    BY <2>1 DEF Overtake, SyncInv, TypeOK
  <2>6. /\ Compresses(c)' <=> Compresses(c)
        /\ Clips(c)' <=> Clips(c)
        /\ \A b \in Block : Pending(c, b) => Pending(c, b)'
    <3>1. \A b \in Block : (\E i \in 1..Len(notices) : b \in notices[i])
                           => (\E i \in 1..Len(notices') : b \in notices'[i])
      BY <2>4 DEF Noticed
    <3> QED
      BY <1>1, <2>5, <3>1 DEF Compresses, Clips, Pending
  <2>7. TornCovered(c)'
    <3> SUFFICES ASSUME Clips(c), ui'.torn, ui.next <= Len(m_pnModifiedBlocks[c])
                 PROVE  Noticed(m_pnModifiedBlocks[c][ui.next])'
      BY <1>1, <2>5, <2>6 DEF TornCovered
    <3> DEFINE block == m_pnModifiedBlocks[c][ui.next]
    <3>1. block \in Block
      <4>1. m_pnModifiedBlocks[c] # Null /\ ui.next \in 1..Len(m_pnModifiedBlocks[c]) + 1
        BY DEF Clips, SyncInv, HandlerInv
      <4>2. m_pnModifiedBlocks[c] \in Seq(Block)
        BY <1>2, <4>1 DEF SyncInv, TypeOK
      <4>3. Len(m_pnModifiedBlocks[c]) \in Nat
        BY <4>2
      <4>4. ui.next \in 1..Len(m_pnModifiedBlocks[c])
        BY <4>1, <4>3
      <4> QED
        BY <4>2, <4>4
    <3>2. CASE ui.torn
      <4>1. Noticed(block)
        BY <1>2, <3>2 DEF Covered, TornCovered
      <4> QED
        BY <1>1, <2>4, <2>5, <3>1, <4>1 DEF Noticed
    <3>3. CASE ~ui.torn
      <4>1. ui' # ui
        BY <3>3
      <4>2. Overtaken(new)
        BY <2>1, <4>1 DEF Overtake
      <4>3. new[block] # m_pBuffer[block]
        BY <4>2 DEF Overtaken, Clips
      <4>4. \E i \in 1..Len(notices') : block \in notices'[i]
        BY <2>4, <3>1, <4>3 DEF Noticed
      <4> QED
        BY <1>1, <2>5, <4>4 DEF Noticed
    <3> QED
      BY <3>2, <3>3
  <2>8. ASSUME NEW b \in Block
        PROVE  /\ PictureCovered(c, b)' /\ ClippedCovered(c, b)'
               /\ UnlistedCovered(c, b)' /\ SentCovered(c, b)'
    <3>1. /\ PictureCovered(c, b) /\ ClippedCovered(c, b)
          /\ UnlistedCovered(c, b) /\ SentCovered(c, b)
      BY <1>2 DEF Covered
    <3>2. Noticed(b)' => Pending(c, b)'
      BY DEF Noticed, Pending
    <3>3. PictureCovered(c, b)' /\ ClippedCovered(c, b)'
      BY <1>1, <2>1, <2>4, <2>5, <2>6, <3>1 DEF PictureCovered, ClippedCovered
    <3>4. UnlistedCovered(c, b)'
      BY <1>1, <2>1, <2>4, <2>6, <3>1 DEF UnlistedCovered
    <3>5. SentCovered(c, b)'
      BY <1>1, <2>1, <2>4, <2>6, <3>1, <3>2 DEF SentCovered
    <3> QED
      BY <3>3, <3>4, <3>5
  <2> QED
    BY <2>7, <2>8 DEF Covered
<1> QED
  BY <1>3, <1>4 DEF CaptureThread

\* Connections come, go and are served: the pictures they have stay as they are.
LEMMA CoverConnections ==
    ASSUME SyncInv, CoverInv, NEW c \in Client,
           \/ LibeventThread(c) \/ conn_eventcb(c) \/ OnClientConnected(c) \/ OnClientDisconnected(c)
           \/ ClientOnConnected(c) \/ ClientOnReciveCommand(c)
    PROVE  CoverInv'
<1>0. ~crashed /\ m_mapClient \subseteq Client
  BY DEF LibeventThread, listener_cb, conn_readcb, OnAsynSendCommand, conn_eventcb,
         OnClientConnected, OnClientDisconnected, ClientOnConnected, ClientOnReciveCommand,
         SyncInv, TypeOK
<1>1. ASSUME UNCHANGED <<notices, ui, m_pBuffer, m_pnModifiedBlocks, sent, lost, garbled>>,
             m_mapClient' \subseteq m_mapClient
      PROVE  CoverInv'
  BY <1>0, <1>1, CoverFrame DEF CoverInv
<1>2. CASE conn_readcb(c) \/ OnAsynSendCommand(c) \/ conn_eventcb(c) \/ OnClientConnected(c)
           \/ ClientOnConnected(c) \/ ClientOnReciveCommand(c)
  BY <1>1, <1>2, Zenon DEF conn_readcb, OnAsynSendCommand, conn_eventcb, OnClientConnected,
        ClientOnConnected, ClientOnReciveCommand, capVars, connVars
<1>3. CASE listener_cb(c)
  <2>1. UNCHANGED <<notices, ui, m_pBuffer, m_pnModifiedBlocks, sent, lost, garbled>>
        /\ ui = UiFree /\ m_mapClient' = m_mapClient \cup {c} /\ m_state[c] = RDCS_INVALID
    BY <1>3 DEF listener_cb, capVars
  <2>2. Covered(c)
    BY <2>1, NothingToCover DEF SyncInv, BufferInv
  <2> QED
    BY <1>0, <2>1, <2>2, CoverFrame DEF CoverInv
<1>4. CASE OnClientDisconnected(c)
  <2>1. /\ sent' = [sent EXCEPT ![c] = Null] /\ lost' = [lost EXCEPT ![c] = {}]
        /\ m_pnModifiedBlocks' = [m_pnModifiedBlocks EXCEPT ![c] = Null]
        /\ ui = UiFree /\ UNCHANGED <<m_mapClient, ui, garbled>>
    BY <1>4 DEF OnClientDisconnected
  <2>2. m_mapClient = {} \/ UNCHANGED <<notices, m_pBuffer>>
    BY <1>4, Zenon DEF OnClientDisconnected, capVars
  <2>3. CASE m_mapClient = {}
    BY <2>1, <2>3 DEF CoverInv
  <2>4. ASSUME UNCHANGED <<notices, m_pBuffer>>, NEW d \in m_mapClient PROVE Covered(d)'
    <3>1. CASE d = c
      <4>1. sent'[d] = Null /\ ui' = UiFree
        BY <2>1, <3>1 DEF SyncInv, TypeOK
      <4>2. ~Compresses(d)' /\ ~Clips(d)'
        BY <4>1, UiFreeFields DEF Compresses, Clips
      <4> QED
        BY <4>1, <4>2 DEF Covered, TornCovered, PictureCovered, ClippedCovered, UnlistedCovered, SentCovered
    <3>2. CASE d # c
      <4>1. m_pnModifiedBlocks'[d] = m_pnModifiedBlocks[d] /\ sent'[d] = sent[d]
            /\ lost'[d] = lost[d] /\ garbled'[d] = garbled[d]
        BY <1>0, <2>1, <3>2 DEF SyncInv, TypeOK
      <4>2. Covered(d)
        BY <1>0 DEF CoverInv
      <4> QED
        BY <2>1, <2>4, <4>1, <4>2, CoverFrame
    <3> QED
      BY <3>1, <3>2
  <2> QED
    BY <2>1, <2>2, <2>3, <2>4 DEF CoverInv
<1> QED
  BY <1>2, <1>3, <1>4 DEF LibeventThread

LEMMA CoverCommand ==
    ASSUME SyncInv, CoverInv, NEW c \in Client, OnReciveCommand(c)
    PROVE  CoverInv'
<1>0. ~crashed /\ m_mapClient \subseteq Client /\ ui = UiFree
  BY DEF OnReciveCommand, IgnoreCommand, OnGetProtocalVersion, OnGetLogon, OnGetCompressMode,
         OnGetTransferBitmap, OnGetTransferBitmapResult, Receives, Waiting, SyncInv, TypeOK
<1>1. UNCHANGED <<notices, m_pBuffer, sent, lost, garbled>> /\ m_mapClient' \subseteq m_mapClient
  BY Zenon DEF OnReciveCommand, IgnoreCommand, OnGetProtocalVersion, OnGetLogon, OnGetCompressMode,
         OnGetTransferBitmap, OnGetTransferBitmapResult, Receives, StopClient, capVars, connVars
<1>2. CASE UNCHANGED <<ui, m_pnModifiedBlocks>>
  BY <1>0, <1>1, <1>2, CoverFrame DEF CoverInv
<1>3. CASE ~UNCHANGED <<ui, m_pnModifiedBlocks>>
  <2>1. OnGetTransferBitmap(c)
    BY <1>3 DEF OnReciveCommand, IgnoreCommand, OnGetProtocalVersion, OnGetLogon, OnGetCompressMode,
         OnGetTransferBitmapResult, Receives, connVars
  <2>2. /\ ui' = [UiFree EXCEPT !.pc = "compress", !.conn = c, !.img = m_pBuffer]
        /\ m_pnModifiedBlocks' = [d \in Client |-> IF d \in {c} THEN <<>> ELSE m_pnModifiedBlocks[d]]
    BY <1>3, <2>1 DEF OnGetTransferBitmap, ForgetModifiedBlocks
  <2>3. ui'.pc = "compress" /\ ui'.conn = c /\ ui'.img = m_pBuffer /\ ui'.todo = {}
    BY <2>2 DEF UiFree
  <2>4. ASSUME NEW d \in m_mapClient PROVE Covered(d)'
    <3>1. ~Clips(d)' /\ TornCovered(d)' /\ (Compresses(d)' <=> d = c)
      BY <2>3 DEF Clips, Compresses, TornCovered
    <3> SUFFICES ASSUME NEW b \in Block
                 PROVE  /\ PictureCovered(d, b)' /\ ClippedCovered(d, b)'
                        /\ UnlistedCovered(d, b)' /\ SentCovered(d, b)'
      BY <3>1 DEF Covered
    <3>2. ClippedCovered(d, b)' /\ UnlistedCovered(d, b)' /\ PictureCovered(d, b)'
      BY <1>1, <2>3, <3>1 DEF ClippedCovered, UnlistedCovered, PictureCovered
    <3>3. SentCovered(d, b)'
      <4>1. CASE d = c
        BY <3>1, <4>1 DEF SentCovered
      <4>2. CASE d # c
        <5>1. SentCovered(d, b) /\ ~Compresses(d) /\ ~Clips(d)
          BY <1>0, UiFreeFields DEF CoverInv, Covered, Compresses, Clips
        <5>2. m_pnModifiedBlocks'[d] = m_pnModifiedBlocks[d]
          BY <1>0, <2>2, <4>2
        <5>3. Pending(d, b) => Pending(d, b)'
          BY <1>0, <1>1, <5>2, UiFreeFields DEF Pending
        <5> QED
          BY <1>1, <5>1, <5>3 DEF SentCovered
      <4> QED
        BY <4>1, <4>2
    <3> QED
      BY <3>2, <3>3
  <2> QED
    BY <1>1, <2>4 DEF CoverInv
<1> QED
  BY <1>2, <1>3

\* A picture that is queued is that of the screen, or differs where a message says so.
LEMMA CoverPictures ==
    ASSUME SyncInv, CoverInv, OnFirstBitmap \/ \E c \in Client : JPEG_Compress(c)
    PROVE  CoverInv'
<1>0. ~crashed /\ m_mapClient \subseteq Client /\ UNCHANGED <<notices, m_pBuffer, m_mapClient>>
      /\ ui' = UiFree
  BY DEF OnFirstBitmap, JPEG_Compress, SyncInv, TypeOK, capVars
<1>1. \A d : ~Compresses(d)' /\ ~Clips(d)'
  BY <1>0, UiFreeFields DEF Compresses, Clips
\* A connection of which nothing changes, and that no image is made for.
<1>2. ASSUME NEW d \in m_mapClient, ~Compresses(d), ~Clips(d), ui.todo = {},
             m_pnModifiedBlocks'[d] = m_pnModifiedBlocks[d], sent'[d] = sent[d],
             lost'[d] = lost[d], garbled'[d] = garbled[d]
      PROVE  Covered(d)'
  <2>1. \A b \in Block : SentCovered(d, b)
    BY <1>0 DEF CoverInv, Covered
  <2>2. \A b \in Block : Pending(d, b) => Pending(d, b)'
    BY <1>0, <1>2, UiFreeFields DEF Pending
  <2> QED
    BY <1>0, <1>1, <1>2, <2>1, <2>2
       DEF Covered, TornCovered, PictureCovered, ClippedCovered, UnlistedCovered, SentCovered
\* One that is sent a picture.
<1>3. ASSUME NEW d \in m_mapClient,
             ~garbled'[d] => \A b \in Block : sent'[d][b] # m_pBuffer[b] => Noticed(b)
      PROVE  Covered(d)'
  <2>1. \A b \in Block : Noticed(b) => Pending(d, b)'
    BY <1>0 DEF Pending, Noticed
  <2> QED
    BY <1>0, <1>1, <1>3, <2>1
       DEF Covered, TornCovered, PictureCovered, ClippedCovered, UnlistedCovered, SentCovered
<1>4. CASE OnFirstBitmap
  <2> DEFINE S == FirstBitmapReceivers
  <2>1. /\ ForgetModifiedBlocks(S) /\ QueuePicture(S, m_pBuffer) /\ ui = UiFree
        /\ garbled' = [c \in Client |-> c \notin S /\ garbled[c]]
    BY <1>4 DEF OnFirstBitmap
  <2> HIDE DEF S
  <2>2. ASSUME NEW d \in m_mapClient PROVE Covered(d)'
    <3>1. CASE d \in S
      <4>1. sent'[d] = m_pBuffer
        BY <1>0, <2>1, <3>1 DEF QueuePicture
      <4> QED
        BY <1>3, <4>1
    <3>2. CASE d \notin S
      <4>1. /\ m_pnModifiedBlocks'[d] = m_pnModifiedBlocks[d] /\ sent'[d] = sent[d]
            /\ lost'[d] = lost[d]
        BY <1>0, <2>1, <3>2 DEF QueuePicture, ForgetModifiedBlocks
      <4>2. garbled'[d] = garbled[d]
        <5>1. garbled[d] \in BOOLEAN
          BY <1>0 DEF SyncInv, TypeOK
        <5> QED
          BY <1>0, <2>1, <3>2, <5>1
      <4>3. ~Compresses(d) /\ ~Clips(d) /\ ui.todo = {}
        BY <2>1, UiFreeFields DEF Compresses, Clips
      <4> QED
        BY <1>2, <4>1, <4>2, <4>3
    <3> QED
      BY <3>1, <3>2
  <2> QED
    BY <1>0, <2>2 DEF CoverInv
<1>5. ASSUME NEW c \in Client, JPEG_Compress(c) PROVE CoverInv'
  <2>1. PICK img \in {ui.img} \cup (IF ui.torn THEN {[b \in Block |-> Torn]} ELSE {}) :
          QueuePicture({c}, img) /\ garbled' = [garbled EXCEPT ![c] = img # ui.img]
    BY <1>5 DEF JPEG_Compress
  <2>2. ui.pc = "compress" /\ ui.conn = c /\ UNCHANGED m_pnModifiedBlocks
    BY <1>5 DEF JPEG_Compress
  <2>3. ASSUME NEW d \in m_mapClient PROVE Covered(d)'
    <3>1. CASE d = c
      <4>1. sent'[d] = img /\ (garbled'[d] <=> img # ui.img)
        BY <1>0, <2>1, <3>1 DEF QueuePicture, SyncInv, TypeOK
      <4>2. \A b \in Block : ui.img[b] # m_pBuffer[b] => Noticed(b)
        BY <1>0, <2>2, <3>1 DEF CoverInv, Covered, PictureCovered, Compresses
      <4> QED
        BY <1>3, <4>1, <4>2
    <3>2. CASE d # c
      <4>1. sent'[d] = sent[d] /\ lost'[d] = lost[d] /\ garbled'[d] = garbled[d]
        BY <1>0, <2>1, <3>2 DEF QueuePicture, SyncInv, TypeOK
      <4>2. ~Compresses(d) /\ ~Clips(d) /\ ui.todo = {}
        BY <2>2, <3>2 DEF Compresses, Clips, SyncInv, HandlerInv
      <4> QED
        BY <1>2, <2>2, <4>1, <4>2
    <3> QED
      BY <3>1, <3>2
  <2> QED
    BY <1>0, <2>3 DEF CoverInv
<1> QED
  BY <1>4, <1>5

\* A message handled is in the hands of OnScreenModified.
LEMMA CoverModified ==
    ASSUME SyncInv, CoverInv, OnModified
    PROVE  CoverInv'
<1>0. /\ ~crashed /\ m_mapClient \subseteq Client /\ ui = UiFree /\ notices # <<>>
      /\ UNCHANGED <<m_pBuffer, m_mapClient, m_pnModifiedBlocks, sent, lost, garbled>>
      /\ notices' = Tail(notices)
      /\ ui' = IF m_mapClient = {} THEN UiFree
               ELSE [UiFree EXCEPT !.pc = "notify", !.todo = m_mapClient, !.blocks = Head(notices)]
  BY DEF OnModified, SyncInv, TypeOK, connVars
<1>1. ASSUME NEW d \in m_mapClient PROVE Covered(d)'
  <2>1. ui' = [UiFree EXCEPT !.pc = "notify", !.todo = m_mapClient, !.blocks = Head(notices)]
    BY <1>0
  <2>2. ui'.pc = "notify" /\ ui'.todo = m_mapClient /\ ui'.blocks = Head(notices)
    BY <2>1 DEF UiFree
  <2>3. ~Compresses(d) /\ ~Clips(d) /\ ~Compresses(d)' /\ ~Clips(d)'
    BY <1>0, <2>2, UiFreeFields DEF Compresses, Clips
  <2>4. notices \in Seq((SUBSET Block) \ {{}})
    BY DEF SyncInv, TypeOK
  <2>5. ASSUME NEW b, NEW i \in 1..Len(notices), b \in notices[i]
        PROVE  b \in Head(notices) \/ \E j \in 1..Len(notices') : b \in notices'[j]
    <3>1. Len(notices) \in Nat /\ Len(notices') = Len(notices) - 1 /\ Head(notices) = notices[1]
      BY <1>0, <2>4
    <3>2. CASE i # 1
      <4>1. i - 1 \in 1..Len(notices') /\ notices'[i - 1] = notices[i]
        BY <1>0, <2>4, <3>1, <3>2
      <4> QED
        BY <2>5, <4>1
    <3> QED
      BY <2>5, <3>1, <3>2
  <2>6. \A b \in Block : Pending(d, b) => Pending(d, b)'
    BY <1>0, <2>2, <2>5, UiFreeFields DEF Pending
  <2>7. \A b \in Block : SentCovered(d, b)
    BY <1>0 DEF CoverInv, Covered
  <2> QED
    BY <1>0, <2>3, <2>6, <2>7
       DEF Covered, TornCovered, PictureCovered, ClippedCovered, UnlistedCovered, SentCovered
<1> QED
  BY <1>0, <1>1 DEF CoverInv

\* Another connection than the one the loop is at.
LEMMA CoverOthers ==
    ASSUME SyncInv, NEW c \in Client, NEW d \in Client \ {c}, Covered(d),
           ui.pc \in {"notify", "clip"}, ui.pc = "clip" => ui.conn = c,
           \/ ui' = LoopAfter(c)
           \/ /\ ui'.pc = "clip" /\ ui'.conn = c
              /\ ui'.todo = ui.todo /\ ui'.blocks = ui.blocks,
           UNCHANGED <<notices, m_pBuffer>>,
           m_pnModifiedBlocks'[d] = m_pnModifiedBlocks[d], sent'[d] = sent[d],
           lost'[d] = lost[d], garbled'[d] = garbled[d]
    PROVE  Covered(d)'
<1>1. ~Compresses(d) /\ ~Clips(d)
  BY DEF Compresses, Clips
<1>2. ~Compresses(d)' /\ ~Clips(d)'
  BY LoopAfterUi DEF Compresses, Clips, SyncInv
<1>3. d \in ui.todo => d \in ui'.todo /\ ui'.blocks = ui.blocks
  BY LoopAfterUi DEF SyncInv
<1>4. \A b \in Block : Pending(d, b) => Pending(d, b)'
  BY <1>3 DEF Pending
<1> QED
  BY <1>1, <1>2, <1>4
     DEF Covered, TornCovered, PictureCovered, ClippedCovered, UnlistedCovered, SentCovered

\* The blocks in hand join the list of the connection, or are lost.
LEMMA CoverScreenModified ==
    ASSUME SyncInv, CoverInv, NEW c \in Client, OnScreenModified(c)
    PROVE  CoverInv'
<1> DEFINE old == m_pnModifiedBlocks[c]
           new == AddModifiedBlocks(old, Ascending(ui.blocks), BlockCount)
<1>0. /\ ~crashed /\ m_mapClient \subseteq Client
      /\ UNCHANGED <<notices, m_pBuffer, m_mapClient, sent, garbled>>
  BY DEF OnScreenModified, SyncInv, TypeOK, capVars
<1>1. /\ ui.pc = "notify" /\ c \in ui.todo /\ old # Null
      /\ m_pnModifiedBlocks' = [m_pnModifiedBlocks EXCEPT ![c] = new]
      /\ lost' = [lost EXCEPT ![c] = (@ \cup ToSet(old) \cup ui.blocks) \ ToSet(new)]
  BY DEF OnScreenModified
<1>2. ui' = [ui EXCEPT !.pc = "clip", !.conn = c] \/ ui' = LoopAfter(c)
  BY DEF OnScreenModified
<1>3. m_pnModifiedBlocks'[c] = new /\ lost'[c] = (lost[c] \cup ToSet(old) \cup ui.blocks) \ ToSet(new)
      /\ \A d \in Client \ {c} : m_pnModifiedBlocks'[d] = m_pnModifiedBlocks[d] /\ lost'[d] = lost[d]
  BY <1>1 DEF SyncInv, TypeOK
<1>n. new # Null
  <2>1. old \in Seq(Block) /\ Len(old) <= BlockCount /\ ui.blocks \in SUBSET Block
    BY <1>1 DEF SyncInv, TypeOK
  <2>2. new \in Seq(Block)
    BY <2>1, AddedBlocks, ScreenSyncAssumption DEF Block
  <2> HIDE DEF new
  <2> QED
    BY <2>2, PictureIsImage
<1> HIDE DEF old, new
<1>4. ui = [UiFree EXCEPT !.pc = "notify", !.todo = ui.todo, !.blocks = ui.blocks]
  BY <1>1 DEF SyncInv, HandlerInv
<1>5. ASSUME NEW d \in m_mapClient, d # c PROVE Covered(d)'
  <2>1. Covered(d) /\ d \in Client
    BY <1>0 DEF CoverInv
  <2>2. \/ ui' = LoopAfter(c)
        \/ /\ ui'.pc = "clip" /\ ui'.conn = c
           /\ ui'.todo = ui.todo /\ ui'.blocks = ui.blocks
    BY <1>2, <1>4 DEF UiFree
  <2> QED
    BY <1>0, <1>1, <1>3, <1>5, <2>1, <2>2, CoverOthers
<1>6. ASSUME c \in m_mapClient PROVE Covered(c)'
  <2>1. ~Compresses(c) /\ ~Clips(c) /\ ~Compresses(c)'
    BY <1>1, <1>2, <1>4, LoopAfterUi DEF Compresses, Clips, UiFree, SyncInv
  <2>2. ASSUME NEW b \in Block, sent[c] # Null, ~garbled[c], sent[c][b] # m_pBuffer[b]
        PROVE  Noticed(b)' \/ b \in ToSet(new) \/ b \in lost'[c]
    <3>1. Pending(c, b) \/ b \in lost[c]
      BY <1>0, <1>6, <2>1, <2>2 DEF CoverInv, Covered, SentCovered
    <3>2. Noticed(b) \/ b \in ui.blocks \/ b \in ToSet(old) \/ b \in lost[c]
      BY <3>1 DEF Pending, Noticed, old
    <3> QED
      BY <1>0, <1>3, <3>2 DEF Noticed
  <2>3. \A b \in Block : Noticed(b)' \/ b \in ToSet(new) => Pending(c, b)'
    BY <1>3, <1>n DEF Pending, Noticed
  <2>4. Clips(c)' => ui'.img = <<>> /\ ui'.torn = FALSE /\ sent[c] # Null
    <3>1. CASE ui' = LoopAfter(c)
      BY <3>1, LoopAfterUi DEF Clips, SyncInv
    <3>2. CASE ui' = [ui EXCEPT !.pc = "clip", !.conn = c]
      <4>1. ui'.img = <<>> /\ ui'.torn = FALSE /\ ui'.pc = "clip" /\ ui'.conn = c
        BY <1>4, <3>2 DEF UiFree
      <4>2. sent'[ui'.conn] # Null
        <5>1. [Next]_vars
          BY DEF Next, Busy
        <5>2. HandlerInv'
          BY <5>1, SyncInvNext DEF SyncInv
        <5> QED
          BY <4>1, <5>2 DEF HandlerInv
      <4> QED
        BY <1>0, <4>1, <4>2
    <3> QED
      BY <1>2, <3>1, <3>2
  <2>5. TornCovered(c)'
    BY <2>4 DEF TornCovered
  <2>6. ASSUME NEW b \in Block
        PROVE  /\ PictureCovered(c, b)' /\ ClippedCovered(c, b)'
               /\ UnlistedCovered(c, b)' /\ SentCovered(c, b)'
    <3>1. PictureCovered(c, b)'
      BY <2>1 DEF PictureCovered
    <3>2. ClippedCovered(c, b)'
      <4>1. Clips(c)' => b \notin DOMAIN ui'.img
        BY <2>4
      <4> QED
        BY <4>1 DEF ClippedCovered
    <3>3. UnlistedCovered(c, b)' /\ SentCovered(c, b)'
      BY <1>0, <1>3, <2>2, <2>3, <2>4 DEF UnlistedCovered, SentCovered
    <3> QED
      BY <3>1, <3>2, <3>3
  <2> QED
    BY <2>5, <2>6 DEF Covered
<1> QED
  BY <1>0, <1>5, <1>6 DEF CoverInv

\* A block is clipped as it is on the screen, or is torn and known to be.
LEMMA CoverClip ==
    ASSUME SyncInv, CoverInv, ClipBitmapRect
    PROVE  CoverInv'
<1> DEFINE c == ui.conn
           list == m_pnModifiedBlocks[ui.conn]
           block == list[ui.next]
           pixels == IF ui.torn THEN Torn ELSE m_pBuffer[block]
           img == [b \in DOMAIN ui.img \cup {block} |-> IF b = block THEN pixels ELSE ui.img[b]]
<1>0. /\ ~crashed /\ m_mapClient \subseteq Client
      /\ UNCHANGED <<notices, m_pBuffer, m_mapClient, m_pnModifiedBlocks, sent, lost, garbled>>
  BY DEF ClipBitmapRect, SyncInv, TypeOK, capVars, connVars
<1>1. /\ ui.pc = "clip" /\ ui.next <= Len(list)
      /\ ui' = [ui EXCEPT !.next = @ + 1, !.torn = FALSE, !.img = img]
  BY DEF ClipBitmapRect
<1> HIDE DEF c, list, img
<1>2. /\ ui'.pc = "clip" /\ ui'.conn = ui.conn /\ ui'.todo = ui.todo /\ ui'.blocks = ui.blocks
      /\ ui'.img = img /\ ui'.torn = FALSE
  BY <1>1 DEF SyncInv, TypeOK
<1>3. ASSUME NEW d \in m_mapClient PROVE Covered(d)'
  <2>0. Covered(d) /\ d \in Client
    BY <1>0 DEF CoverInv
  <2>1. /\ ~Compresses(d)' /\ (Clips(d)' <=> Clips(d)) /\ ~Compresses(d)
        /\ TornCovered(d)'
    BY <1>1, <1>2 DEF Compresses, Clips, TornCovered
  <2>2. \A b \in Block : /\ Noticed(b)' <=> Noticed(b)
                         /\ Pending(d, b)' <=> Pending(d, b)
    BY <1>0, <1>2 DEF Noticed, Pending
  <2>3. ASSUME NEW b \in Block PROVE ClippedCovered(d, b)'
    <3> SUFFICES ASSUME Clips(d), b \in DOMAIN img, img[b] # m_pBuffer[b]
                 PROVE  Noticed(b)
      BY <1>0, <1>2, <2>1, <2>2 DEF ClippedCovered
    <3>0. d = ui.conn /\ list = m_pnModifiedBlocks[d]
      BY DEF Clips, list
    <3>1. CASE b = block
      <4>1. img[b] = pixels
        BY <3>1 DEF img
      <4>2. ui.torn
        BY <3>1, <4>1
      <4>3. Noticed(m_pnModifiedBlocks[d][ui.next])
        BY <1>1, <2>0, <3>0, <4>2 DEF Covered, TornCovered
      <4> QED
        BY <3>0, <3>1, <4>3
    <3>2. CASE b # block
      <4>1. b \in DOMAIN ui.img /\ img[b] = ui.img[b]
        BY <3>2 DEF img
      <4> QED
        BY <2>0, <4>1 DEF Covered, ClippedCovered
    <3> QED
      BY <3>1, <3>2
  <2>4. ASSUME NEW b \in Block
        PROVE  PictureCovered(d, b)' /\ UnlistedCovered(d, b)' /\ SentCovered(d, b)'
    <3>1. UnlistedCovered(d, b) /\ SentCovered(d, b)
      BY <2>0 DEF Covered
    <3> QED
      BY <1>0, <2>1, <2>2, <3>1 DEF PictureCovered, UnlistedCovered, SentCovered
  <2> QED
    BY <2>1, <2>3, <2>4 DEF Covered
<1> QED
  BY <1>0, <1>3 DEF CoverInv

\* The image queued has every block of the list.
LEMMA CoverModifyBitmap ==
    ASSUME SyncInv, CoverInv, NEW c \in Client, AsynSendTransterModifyBitmap(c)
    PROVE  CoverInv'
<1>0. /\ ~crashed /\ m_mapClient \subseteq Client
      /\ UNCHANGED <<notices, m_pBuffer, m_mapClient, lost, garbled>>
  BY DEF AsynSendTransterModifyBitmap, SyncInv, TypeOK, capVars
<1>1. /\ ui.pc = "clip" /\ ui.conn = c /\ ui.next > Len(m_pnModifiedBlocks[c])
      /\ m_pnModifiedBlocks' = [m_pnModifiedBlocks EXCEPT ![c] = <<>>]
      /\ sent' = [sent EXCEPT ![c] = Drawn(ui.img, @)]
      /\ ui' = LoopAfter(c)
  BY DEF AsynSendTransterModifyBitmap
<1>2. /\ m_pnModifiedBlocks'[c] = <<>> /\ sent'[c] = Drawn(ui.img, sent[c])
      /\ \A d \in Client \ {c} : m_pnModifiedBlocks'[d] = m_pnModifiedBlocks[d] /\ sent'[d] = sent[d]
  BY <1>1 DEF SyncInv, TypeOK
<1>3. ASSUME NEW d \in m_mapClient, d # c PROVE Covered(d)'
  <2>1. Covered(d) /\ d \in Client
    BY <1>0 DEF CoverInv
  <2> QED
    BY <1>0, <1>1, <1>2, <1>3, <2>1, CoverOthers
<1>4. ASSUME c \in m_mapClient PROVE Covered(c)'
  <2>1. Covered(c) /\ Clips(c)
    BY <1>0, <1>1, <1>4 DEF CoverInv, Clips
  <2>2. ~Compresses(c)' /\ ~Clips(c)'
    BY <1>1, LoopAfterUi DEF Compresses, Clips, SyncInv
  <2>3. DOMAIN ui.img = ToSet(m_pnModifiedBlocks[c])
    <3>1. /\ m_pnModifiedBlocks[c] # Null
          /\ ui.next \in 1..Len(m_pnModifiedBlocks[c]) + 1
          /\ DOMAIN ui.img = {m_pnModifiedBlocks[c][i] : i \in 1..ui.next - 1}
      BY <1>1 DEF SyncInv, HandlerInv
    <3>2. m_pnModifiedBlocks[c] \in Seq(Block)
      BY <3>1 DEF SyncInv, TypeOK
    <3>3. Len(m_pnModifiedBlocks[c]) \in Nat /\ DOMAIN m_pnModifiedBlocks[c] = 1..Len(m_pnModifiedBlocks[c])
      BY <3>2
    <3>4. ui.next - 1 = Len(m_pnModifiedBlocks[c])
      BY <1>1, <3>1, <3>3
    <3> QED
      BY <3>1, <3>3, <3>4 DEF ToSet
  <2>4. ASSUME NEW b \in Block, ~garbled[c], sent'[c][b] # m_pBuffer[b]
        PROVE  Noticed(b) \/ b \in lost[c]
    <3>1. sent'[c][b] = IF b \in DOMAIN ui.img THEN ui.img[b] ELSE sent[c][b]
      BY <1>2 DEF Drawn
    <3>2. CASE b \in DOMAIN ui.img
      BY <2>1, <2>4, <3>1, <3>2 DEF Covered, ClippedCovered
    <3>3. CASE b \notin DOMAIN ui.img
      BY <2>1, <2>3, <2>4, <3>1, <3>3 DEF Covered, UnlistedCovered
    <3> QED
      BY <3>2, <3>3
  <2>5. \A b \in Block : Noticed(b) => Pending(c, b)'
    BY <1>0 DEF Noticed, Pending
  <2> QED
    BY <1>0, <2>2, <2>4, <2>5
       DEF Covered, TornCovered, PictureCovered, ClippedCovered, UnlistedCovered, SentCovered
<1> QED
  BY <1>0, <1>3, <1>4 DEF CoverInv

LEMMA CoverNext == SyncInv /\ CoverInv /\ [Next]_vars => CoverInv'
<1> SUFFICES ASSUME SyncInv, CoverInv, [Next]_vars PROVE CoverInv'
  OBVIOUS
<1>1. CASE JPEG_CompressFaults \/ \E c \in Client : OnScreenModifiedNull(c)
  BY <1>1 DEF JPEG_CompressFaults, OnScreenModifiedNull, CoverInv
<1>2. CASE UNCHANGED vars
  <2>1. UNCHANGED <<notices, ui, m_pBuffer, m_pnModifiedBlocks, sent, lost, garbled, m_mapClient>>
    BY <1>2 DEF vars, capVars, connVars
  <2>2. crashed' <=> crashed
    BY <1>2, Zenon DEF vars
  <2> QED
    BY <2>1, <2>2, CoverFrame DEF CoverInv
<1> QED
  BY <1>1, <1>2, CoverCapture, CoverConnections, CoverCommand, CoverPictures, CoverModified,
     CoverScreenModified, CoverClip, CoverModifyBitmap DEF Next, Busy

\* CScreenBitmap, CRemoteServer and CClientConnection together forget no change of
\* the screen, whenever the capture thread replaces the buffer under the UI thread:
\* a block that the client was sent in another state is in a posted message, in
\* the hands of OnScreenModified or in the connection's list, unless the merge of
\* the list dropped it or the picture was read from memory already freed.
THEOREM NoChangeForgotten == Spec => []Coverage
<1>1. Init => SyncInv /\ CoverInv
  BY InitSync, CoverInit
<1>2. SyncInv /\ CoverInv /\ [Next]_vars => (SyncInv /\ CoverInv)'
  BY SyncInvNext, CoverNext
<1>3. SyncInv /\ CoverInv => Coverage
  BY CoverIsCoverage
<1> QED
  BY <1>1, <1>2, <1>3, PTL DEF Spec

-----------------------------------------------------------------------------
(* What the merge drops.                                                   *)

LossStep == \A c \in Client : ~(lost'[c] \subseteq lost[c]) => Len(m_pnModifiedBlocks'[c]) = BlockCount

LEMMA LossStepNext == SyncInv /\ [Next]_vars => LossStep \/ UNCHANGED vars
<1> SUFFICES ASSUME SyncInv, [Next]_vars, ~UNCHANGED vars, NEW c \in Client, ~(lost'[c] \subseteq lost[c])
             PROVE  Len(m_pnModifiedBlocks'[c]) = BlockCount
  BY DEF LossStep
<1>0. Next /\ lost \in [Client -> SUBSET Block]
  BY DEF SyncInv, TypeOK
<1>1. ASSUME NEW d \in Client, OnScreenModified(d) PROVE Len(m_pnModifiedBlocks'[c]) = BlockCount
  <2> DEFINE old == m_pnModifiedBlocks[d]
             new == AddModifiedBlocks(old, Ascending(ui.blocks), BlockCount)
  <2>1. /\ old # Null /\ m_pnModifiedBlocks' = [m_pnModifiedBlocks EXCEPT ![d] = new]
        /\ lost' = [lost EXCEPT ![d] = (@ \cup ToSet(old) \cup ui.blocks) \ ToSet(new)]
    BY <1>1 DEF OnScreenModified
  <2>2. old \in Seq(Block) /\ Len(old) <= BlockCount /\ ui.blocks \in SUBSET Block
    BY <2>1 DEF SyncInv, TypeOK
  <2>3. Len(new) = BlockCount \/ ToSet(old) \cup ui.blocks \subseteq ToSet(new)
    BY <2>2, AddedBlocks, ScreenSyncAssumption DEF Block
  <2> HIDE DEF old, new
  <2>4. d = c /\ m_pnModifiedBlocks'[c] = new /\ ~(ToSet(old) \cup ui.blocks \subseteq ToSet(new))
    <3>1. d = c
      BY <1>0, <2>1
    <3>2. lost'[c] = (lost[c] \cup ToSet(old) \cup ui.blocks) \ ToSet(new)
      BY <1>0, <2>1, <3>1
    <3>3. m_pnModifiedBlocks'[c] = new
      BY <2>1, <3>1 DEF SyncInv, TypeOK
    <3> QED
      BY <3>1, <3>2, <3>3
  <2> QED
    BY <2>3, <2>4
<1>2. ASSUME UNCHANGED lost PROVE FALSE
  BY <1>2
<1>3. CASE OnFirstBitmap \/ \E d \in Client : JPEG_Compress(d)
  BY <1>0, <1>3 DEF OnFirstBitmap, JPEG_Compress, QueuePicture
<1>4. ASSUME NEW d \in Client, OnClientDisconnected(d) PROVE FALSE
  BY <1>0, <1>4 DEF OnClientDisconnected
<1>5. CASE CaptureThread \/ JPEG_CompressFaults \/ OnModified \/ ClipBitmapRect
  BY <1>2, <1>5, Zenon DEF CaptureThread, CaptureFirst, CaptureSwap, JPEG_CompressFaults, OnModified,
                    ClipBitmapRect, connVars
<1>6. ASSUME NEW d \in Client,
             \/ LibeventThread(d) \/ conn_eventcb(d) \/ OnClientConnected(d) \/ OnReciveCommand(d)
             \/ ClientOnConnected(d) \/ ClientOnReciveCommand(d)
             \/ OnScreenModifiedNull(d) \/ AsynSendTransterModifyBitmap(d)
      PROVE  FALSE
  BY <1>2, <1>6, Zenon DEF LibeventThread, listener_cb, conn_readcb, OnAsynSendCommand, conn_eventcb,
         OnClientConnected, OnReciveCommand, IgnoreCommand, OnGetProtocalVersion, OnGetLogon,
         OnGetCompressMode, OnGetTransferBitmap, OnGetTransferBitmapResult, ClientOnConnected,
         ClientOnReciveCommand, OnScreenModifiedNull, AsynSendTransterModifyBitmap, connVars
<1> QED
  BY <1>0, <1>1, <1>3, <1>4, <1>5, <1>6 DEF Next, Busy

\* CClientConnection::OnScreenModified drops changed blocks from its list only when
\* the list is as long as the screen has blocks.
THEOREM MergeLosesOnlyWhenFull == Spec => LossOnlyWhenFull
<1>1. SyncInv /\ [Next]_vars => [LossStep]_vars
  BY LossStepNext
<1>2. [][LossStep]_vars => LossOnlyWhenFull
  BY PTL DEF LossOnlyWhenFull, LossStep
<1> QED
  BY <1>1, <1>2, InitSync, SyncInvNext, PTL DEF Spec

\* When nothing is on its way and nothing is pending, the window shows the last capture,
\* for any clients, screen and interleaving: what was sent is what is drawn, and what
\* was sent differs from the screen only where a change is pending or was dropped.
THEOREM SyncedWhenQuiet == Spec => []QuiescentMeansSynced
<1>1. DeliveryInv /\ Coverage => QuiescentMeansSynced
  <2> SUFFICES ASSUME DeliveryInv, Coverage, NEW c \in m_mapClient,
                      ~crashed, view[c] # Null, ~garbled[c], lost[c] = {}, ui = UiFree,
                      InFlight(c) = <<>>, \A b \in Block : ~Pending(c, b)
               PROVE  view[c] = m_pBuffer
    BY DEF QuiescentMeansSynced
  <2>1. /\ c \in Client /\ m_pBuffer \in Bitmap \cup {Null}
        /\ view[c] \in [Block -> Pixels] \cup {Null}
    BY DEF DeliveryInv, SyncInv, TypeOK
  <2>2. sent[c] = view[c]
    BY AfterNothing DEF DeliveryInv, DeliverInv, Delivers
  <2>3. m_pBuffer # Null
    BY <2>2 DEF DeliveryInv, SyncInv, BufferInv
  <2>4. view[c] \in [Block -> Pixels] /\ m_pBuffer \in [Block -> Pixels]
    BY <2>1, <2>3, PictureIsImage
  <2>5. Pictured(c) = view[c]
    BY <2>2, UiFreeFields DEF Pictured, Compresses
  <2>6. \A b \in Block : view[c][b] = m_pBuffer[b]
    BY <2>5 DEF Coverage
  <2> QED
    BY <2>4, <2>6
<1> QED
  BY <1>1, DeliveryInvariant, NoChangeForgotten, PTL

-----------------------------------------------------------------------------
(* The refinement of PictureFeed.  Only images are on their way to a viewer  *)
(* that has a picture: the one other command, the answer to its logon, was   *)
(* sent once and is received before the viewer asks for a picture.           *)

LogonCodes == {RDCC_LOGON_RESULT}

\* The server has yet to answer the logon; the answer is under way; it was received.
Unanswered(c) == m_state[c] \in {RDCS_INVALID, RDCS_CONNECTED, RDCS_PROTOCOL_VERSION}
Results(c)    == CountOf(InFlight(c), LogonCodes)
LoggedOn(c)   == cliState[c] \in {RDCS_COMPRESS_MODE, RDCS_TRANSFER}

AnsweredOnce(c) == One(Unanswered(c)) + Results(c) + One(LoggedOn(c)) <= 1

\* Nothing is on its way to a viewer whose connection is not in the map, and nothing
\* will be written there.
ShutInv ==
    \A c \in Client \ m_mapClient :
        /\ s2c[c] = <<>>
        /\ m_pAsynSendCommandEvent[c] => lev.pc = "disconnected" /\ lev.conn = c

FeedInv == ShutInv /\ \A c \in Client : AnsweredOnce(c)

LEMMA InFlightType ==
    /\ TypeOK => \A c \in Client : InFlight(c) \in Seq(ServerCommand)
    /\ TypeOK' => \A c \in Client : InFlight(c)' \in Seq(ServerCommand)
BY DEF TypeOK, InFlight

LEMMA ResultsAreNumbers ==
    /\ TypeOK => \A c \in Client : Results(c) \in Nat
    /\ TypeOK' => \A c \in Client : Results(c)' \in Nat
<1>1. ASSUME NEW s \in Seq(ServerCommand) PROVE CountOf(s, LogonCodes) \in Nat
  BY CountIsNat
<1>2. TypeOK => \A c \in Client : Results(c) \in Nat
  BY <1>1, InFlightType DEF Results
<1>3. TypeOK' => \A c \in Client : CountOf(InFlight(c)', LogonCodes) \in Nat
  BY <1>1, InFlightType
<1>4. \A c : Results(c)' = CountOf(InFlight(c)', LogonCodes)
  BY DEF Results, CountOf, LogonCodes, RDCC_LOGON_RESULT
<1> QED
  BY <1>2, <1>3, <1>4, Zenon

LEMMA FeedInit == Init => FeedInv
<1> SUFFICES ASSUME Init PROVE FeedInv
  OBVIOUS
<1>1. ShutInv
  BY DEF Init, ShutInv
<1>2. ASSUME NEW c \in Client PROVE AnsweredOnce(c)
  <2>1. InFlight(c) = <<>> /\ cliState[c] = RDCS_INVALID
    BY DEF Init, InFlight
  <2>2. Results(c) = 0
    BY <2>1, CountOfEmpty DEF Results
  <2>3. ~LoggedOn(c)
    BY <2>1 DEF LoggedOn, RDCS_INVALID, RDCS_COMPRESS_MODE, RDCS_TRANSFER
  <2> QED
    BY <2>2, <2>3 DEF AnsweredOnce, One
<1> QED
  BY <1>1, <1>2 DEF FeedInv

\* What leaves the answer to a logon where it is, or loses it.
LEMMA AnsweredFrame ==
    ASSUME TypeOK, TypeOK', NEW d \in Client, AnsweredOnce(d),
           Results(d)' <= Results(d), Unanswered(d)' => Unanswered(d), LoggedOn(d)' => LoggedOn(d)
    PROVE  AnsweredOnce(d)'
<1>1. Results(d) \in Nat /\ Results(d)' \in Nat
  BY ResultsAreNumbers
<1>2. One(Unanswered(d))' <= One(Unanswered(d)) /\ One(Unanswered(d))' \in {0, 1} /\ One(Unanswered(d)) \in {0, 1}
  BY DEF One
<1>3. One(LoggedOn(d))' <= One(LoggedOn(d)) /\ One(LoggedOn(d))' \in {0, 1} /\ One(LoggedOn(d)) \in {0, 1}
  BY DEF One
<1> QED
  BY <1>1, <1>2, <1>3 DEF AnsweredOnce

\* Steps that queue, write and close nothing.
LEMMA FeedFrame ==
    ASSUME TypeOK, TypeOK', FeedInv,
           UNCHANGED <<m_mapClient, m_pAsynSendCommandEvent, s2c, m_queueAsynCommand>>,
           lev.pc = "disconnected" => UNCHANGED lev,
           \A d \in Client : (Unanswered(d)' => Unanswered(d)) /\ (LoggedOn(d)' => LoggedOn(d))
    PROVE  FeedInv'
<1>1. ShutInv'
  BY DEF FeedInv, ShutInv
<1>2. ASSUME NEW d \in Client PROVE AnsweredOnce(d)'
  <2>1. Results(d)' = Results(d)
    BY DEF Results, InFlight
  <2>2. Results(d)' <= Results(d)
    BY <2>1, ResultsAreNumbers
  <2> QED
    BY <2>2, AnsweredFrame DEF FeedInv
<1> QED
  BY <1>1, <1>2 DEF FeedInv

LEMMA ClosedResults ==
    ASSUME TypeOK, TypeOK', NEW c \in Client, s2c' = [s2c EXCEPT ![c] = <<>>], UNCHANGED m_queueAsynCommand,
           NEW d \in Client
    PROVE  Results(d)' <= Results(d)
<1>1. CASE d # c
  <2>1. InFlight(d)' = InFlight(d)
    BY <1>1, ClosedInFlight
  <2> QED
    BY <2>1, ResultsAreNumbers DEF Results
<1>2. CASE d = c
  <2>1. s2c[c] \in Seq(ServerCommand) /\ m_queueAsynCommand[c] \in Seq(ServerCommand)
    BY DEF TypeOK
  <2>2. InFlight(c)' = m_queueAsynCommand[c] /\ InFlight(c) = s2c[c] \o m_queueAsynCommand[c]
    BY <2>1 DEF InFlight, TypeOK
  <2>3. Results(c) = CountOf(s2c[c], LogonCodes) + CountOf(m_queueAsynCommand[c], LogonCodes)
    BY <2>1, <2>2, CountOfConcat DEF Results
  <2>4. CountOf(s2c[c], LogonCodes) \in Nat /\ CountOf(m_queueAsynCommand[c], LogonCodes) \in Nat
    BY <2>1, CountIsNat
  <2>5. Results(c)' = CountOf(m_queueAsynCommand[c], LogonCodes)
    BY <2>2 DEF Results
  <2> QED
    BY <1>2, <2>3, <2>4, <2>5
<1> QED
  BY <1>1, <1>2

LEMMA FeedLibevent ==
    ASSUME SyncInv, SyncInv', HandshakeInv, FeedInv, NEW c \in Client,
           LibeventThread(c) \/ conn_eventcb(c)
    PROVE  FeedInv'
<1>0. TypeOK /\ TypeOK'
  BY DEF SyncInv
<1>1. UNCHANGED <<m_state, cliState>> /\ lev = Idle
  BY DEF LibeventThread, listener_cb, conn_readcb, OnAsynSendCommand, conn_eventcb, cliVars
<1>2. \A d \in Client : (Unanswered(d)' => Unanswered(d)) /\ (LoggedOn(d)' => LoggedOn(d))
  BY <1>1 DEF Unanswered, LoggedOn
<1>3. lev.pc # "disconnected"
  BY <1>1 DEF Idle
<1>4. CASE conn_readcb(c)
  BY <1>0, <1>2, <1>3, <1>4, FeedFrame DEF conn_readcb, connVars
<1>5. CASE listener_cb(c)
  <2>1. /\ m_mapClient' = m_mapClient \cup {c} /\ UNCHANGED <<s2c, m_queueAsynCommand>>
        /\ m_pAsynSendCommandEvent' = [m_pAsynSendCommandEvent EXCEPT ![c] = TRUE]
    BY <1>5 DEF listener_cb
  <2>2. ShutInv'
    BY <1>0, <1>3, <2>1 DEF FeedInv, ShutInv, TypeOK
  <2>3. ASSUME NEW d \in Client PROVE AnsweredOnce(d)'
    <3>1. Results(d)' = Results(d)
      BY <2>1 DEF Results, InFlight
    <3>2. Results(d)' <= Results(d)
      BY <1>0, <3>1, ResultsAreNumbers
    <3> QED
      BY <1>0, <1>2, <3>2, AnsweredFrame DEF FeedInv
  <2> QED
    BY <2>2, <2>3 DEF FeedInv
<1>6. CASE OnAsynSendCommand(c)
  <2>1. /\ s2c' = [s2c EXCEPT ![c] = @ \o m_queueAsynCommand[c]] /\ m_pAsynSendCommandEvent[c]
        /\ UNCHANGED <<m_mapClient, m_pAsynSendCommandEvent, lev>>
    BY <1>6 DEF OnAsynSendCommand
  <2>2. c \in m_mapClient
    BY <1>3, <2>1 DEF FeedInv, ShutInv
  <2>3. ShutInv'
    BY <1>0, <2>1, <2>2 DEF FeedInv, ShutInv, TypeOK
  <2>4. ASSUME NEW d \in Client PROVE AnsweredOnce(d)'
    <3>1. InFlight(d)' = InFlight(d)
      BY <1>0, <1>6, FlushKeepsInFlight
    <3>2. Results(d)' <= Results(d)
      BY <1>0, <3>1, ResultsAreNumbers DEF Results
    <3> QED
      BY <1>0, <1>2, <3>2, AnsweredFrame DEF FeedInv
  <2> QED
    BY <2>3, <2>4 DEF FeedInv
<1>7. CASE conn_eventcb(c)
  <2>1. /\ m_mapClient' = m_mapClient \ {c} /\ s2c' = [s2c EXCEPT ![c] = <<>>]
        /\ lev' = [pc |-> "disconnected", conn |-> c]
        /\ UNCHANGED <<m_pAsynSendCommandEvent, m_queueAsynCommand>>
    BY <1>7 DEF conn_eventcb, connVars
  <2>2. ShutInv'
    BY <1>0, <1>3, <2>1 DEF FeedInv, ShutInv, TypeOK
  <2>3. ASSUME NEW d \in Client PROVE AnsweredOnce(d)'
    BY <1>0, <1>2, <2>1, ClosedResults, AnsweredFrame DEF FeedInv
  <2> QED
    BY <2>2, <2>3 DEF FeedInv
<1> QED
  BY <1>4, <1>5, <1>6, <1>7 DEF LibeventThread

LEMMA FeedConnections ==
    ASSUME SyncInv, SyncInv', HandshakeInv, FeedInv, NEW c \in Client,
           OnClientConnected(c) \/ OnClientDisconnected(c)
    PROVE  FeedInv'
<1>0. TypeOK /\ TypeOK'
  BY DEF SyncInv
<1>1. CASE OnClientConnected(c)
  <2>1. /\ UNCHANGED <<m_mapClient, m_pAsynSendCommandEvent, s2c, m_queueAsynCommand, cliState>>
        /\ lev = [pc |-> "connected", conn |-> c]
        /\ m_state' = [m_state EXCEPT ![c] = RDCS_CONNECTED]
    BY <1>1 DEF OnClientConnected, connVars, cliVars
  <2>2. m_state[c] = RDCS_INVALID /\ lev.pc # "disconnected"
    BY <2>1 DEF SyncInv, BufferInv
  <2>3. \A d \in Client : (Unanswered(d)' => Unanswered(d)) /\ (LoggedOn(d)' => LoggedOn(d))
    BY <1>0, <2>1, <2>2 DEF Unanswered, LoggedOn, TypeOK
  <2> QED
    BY <1>0, <2>1, <2>2, <2>3, FeedFrame
<1>2. CASE OnClientDisconnected(c)
  <2>1. /\ m_pAsynSendCommandEvent' = [m_pAsynSendCommandEvent EXCEPT ![c] = FALSE]
        /\ m_queueAsynCommand' = [m_queueAsynCommand EXCEPT ![c] = <<>>]
        /\ m_state' = [m_state EXCEPT ![c] = RDCS_DISCONNECTED]
        /\ lev = [pc |-> "disconnected", conn |-> c]
        /\ UNCHANGED <<m_mapClient, s2c, cliState>>
    BY <1>2 DEF OnClientDisconnected, cliVars
  <2>2. c \notin m_mapClient
    BY <2>1 DEF HandshakeInv, MapInv
  <2>3. ShutInv'
    BY <1>0, <2>1 DEF FeedInv, ShutInv, TypeOK
  <2>4. \A d \in Client : (Unanswered(d)' => Unanswered(d)) /\ (LoggedOn(d)' => LoggedOn(d))
    BY <1>0, <2>1 DEF Unanswered, LoggedOn, TypeOK, RDCS_DISCONNECTED, RDCS_INVALID,
                      RDCS_CONNECTED, RDCS_PROTOCOL_VERSION
  <2>5. ASSUME NEW d \in Client PROVE Results(d)' <= Results(d)
    <3>1. CASE d = c
      <4>1. InFlight(d)' = <<>>
        BY <1>0, <2>1, <2>2, <3>1 DEF FeedInv, ShutInv, InFlight, TypeOK
      <4>2. Results(d)' = 0
        BY <4>1, CountOfEmpty DEF Results
      <4> QED
        BY <1>0, <4>2, ResultsAreNumbers
    <3>2. CASE d # c
      <4>1. InFlight(d)' = InFlight(d)
        BY <1>0, <2>1, <3>2 DEF InFlight, TypeOK
      <4> QED
        BY <1>0, <4>1, ResultsAreNumbers DEF Results
    <3> QED
      BY <3>1, <3>2
  <2> QED
    BY <1>0, <2>3, <2>4, <2>5, AnsweredFrame DEF FeedInv
<1> QED
  BY <1>1, <1>2

LEMMA FeedCommand ==
    ASSUME SyncInv, SyncInv', FeedInv, NEW c \in Client, OnReciveCommand(c)
    PROVE  FeedInv'
<1>0. TypeOK /\ TypeOK'
  BY DEF SyncInv
<1>1. lev.pc = "command" /\ UNCHANGED cliState
  BY Zenon DEF OnReciveCommand, IgnoreCommand, OnGetProtocalVersion, OnGetLogon, OnGetCompressMode,
         OnGetTransferBitmap, OnGetTransferBitmapResult, Receives, Waiting, cliVars
<1>2. \A d \in Client : LoggedOn(d)' => LoggedOn(d)
  BY <1>1 DEF LoggedOn
<1>3. m_state[c] \in ConnectionState
  BY <1>0 DEF TypeOK
<1>4. CASE IgnoreCommand(c) \/ OnGetTransferBitmapResult(c)
  <2>1. UNCHANGED <<m_mapClient, m_pAsynSendCommandEvent, s2c, m_queueAsynCommand, m_state>>
    BY <1>4 DEF IgnoreCommand, OnGetTransferBitmapResult, connVars
  <2> QED
    BY <1>0, <1>1, <1>2, <2>1, FeedFrame DEF Unanswered
<1>5. CASE OnGetCompressMode(c) \/ OnGetTransferBitmap(c)
  <2>1. /\ UNCHANGED <<m_mapClient, m_pAsynSendCommandEvent, s2c, m_queueAsynCommand>>
        /\ \E state \in {RDCS_COMPRESS_MODE, RDCS_TRANSFER} : m_state' = [m_state EXCEPT ![c] = state]
    BY <1>5 DEF OnGetCompressMode, OnGetTransferBitmap, connVars
  <2>2. \A d \in Client : Unanswered(d)' => Unanswered(d)
    BY <1>0, <2>1 DEF Unanswered, TypeOK, RDCS_COMPRESS_MODE, RDCS_TRANSFER, RDCS_INVALID,
                      RDCS_CONNECTED, RDCS_PROTOCOL_VERSION
  <2> QED
    BY <1>0, <1>1, <1>2, <2>1, <2>2, FeedFrame
<1>6. CASE OnGetProtocalVersion(c)
  <2>1. ServerAccepts(m_state[c], RDCC_PROTOCOL_VERSION) /\ UNCHANGED m_queueAsynCommand
    BY <1>6 DEF OnGetProtocalVersion, Receives
  <2>2. m_state[c] = RDCS_CONNECTED
    BY <1>3, <2>1, AcceptedIn
  <2>3. \/ /\ m_state' = [m_state EXCEPT ![c] = RDCS_PROTOCOL_VERSION]
           /\ UNCHANGED <<m_mapClient, m_pAsynSendCommandEvent, s2c>>
        \/ StopClient(c) /\ UNCHANGED m_state
    BY <1>6 DEF OnGetProtocalVersion
  <2>4. \A d \in Client : Unanswered(d)' => Unanswered(d)
    BY <1>0, <2>2, <2>3 DEF Unanswered, TypeOK
  <2>5. CASE UNCHANGED <<m_mapClient, m_pAsynSendCommandEvent, s2c>>
    BY <1>0, <1>1, <1>2, <2>1, <2>4, <2>5, FeedFrame
  <2>6. CASE StopClient(c)
    <3>1. /\ m_mapClient' = m_mapClient \ {c} /\ s2c' = [s2c EXCEPT ![c] = <<>>]
          /\ m_pAsynSendCommandEvent' = [m_pAsynSendCommandEvent EXCEPT ![c] = FALSE]
      BY <2>6 DEF StopClient
    <3>2. ShutInv'
      BY <1>0, <1>1, <3>1 DEF FeedInv, ShutInv, TypeOK
    <3>3. ASSUME NEW d \in Client PROVE AnsweredOnce(d)'
      BY <1>0, <1>2, <2>1, <2>4, <3>1, ClosedResults, AnsweredFrame DEF FeedInv
    <3> QED
      BY <3>2, <3>3 DEF FeedInv
  <2> QED
    BY <2>3, <2>5, <2>6
<1>7. CASE OnGetLogon(c)
  <2> DEFINE m == Command(RDCC_LOGON_RESULT)
  <2>1. /\ ServerAccepts(m_state[c], RDCC_LOGON) /\ m_state' = [m_state EXCEPT ![c] = RDCS_LOGON]
        /\ m_queueAsynCommand' = [m_queueAsynCommand EXCEPT ![c] = Append(@, m)]
        /\ UNCHANGED <<m_mapClient, m_pAsynSendCommandEvent, s2c>>
    BY <1>7 DEF OnGetLogon, Receives
  <2>2. m_state[c] = RDCS_PROTOCOL_VERSION
    BY <1>3, <2>1, AcceptedIn
  <2>3. ShutInv'
    BY <1>1, <2>1 DEF FeedInv, ShutInv
  <2>4. Unanswered(c) /\ ~Unanswered(c)'
    BY <1>0, <2>1, <2>2 DEF Unanswered, TypeOK, RDCS_LOGON, RDCS_INVALID, RDCS_CONNECTED,
                            RDCS_PROTOCOL_VERSION
  <2>5. m \in ServerCommand /\ m.code \in LogonCodes
    BY ServerCommands DEF Command, LogonCodes
  <2> HIDE DEF m
  <2>6. InFlight(c) \in Seq(ServerCommand) /\ InFlight(c)' = Append(InFlight(c), m)
    BY <1>0, <2>1, <2>5, QueuedInFlight DEF TypeOK
  <2>7. CountOf(Append(InFlight(c), m), LogonCodes) = CountOf(InFlight(c), LogonCodes) + One(m.code \in LogonCodes)
    BY <2>5, <2>6, CountOfAppend
  <2>8. Results(c)' = Results(c) + 1
    BY <2>5, <2>6, <2>7 DEF Results, One
  <2>9. AnsweredOnce(c)'
    <3>1. One(Unanswered(c)) = 1 /\ One(Unanswered(c))' = 0
      BY <2>4 DEF One
    <3>2. One(LoggedOn(c))' = One(LoggedOn(c)) /\ One(LoggedOn(c)) \in {0, 1} /\ Results(c) \in Nat
      BY <1>0, <1>1, ResultsAreNumbers DEF One, LoggedOn
    <3> QED
      BY <2>8, <3>1, <3>2 DEF FeedInv, AnsweredOnce
  <2>10. ASSUME NEW d \in Client \ {c} PROVE AnsweredOnce(d)'
    <3>1. InFlight(d)' = InFlight(d) /\ m_state'[d] = m_state[d]
      BY <1>0, <2>1 DEF InFlight, TypeOK
    <3>2. Results(d)' <= Results(d)
      BY <1>0, <3>1, ResultsAreNumbers DEF Results
    <3> QED
      BY <1>0, <1>2, <3>1, <3>2, AnsweredFrame DEF FeedInv, Unanswered
  <2> QED
    BY <2>3, <2>9, <2>10 DEF FeedInv
<1> QED
  BY <1>4, <1>5, <1>6, <1>7 DEF OnReciveCommand

\* An image that is queued is no answer to a logon.
LEMMA FeedImages ==
    ASSUME TypeOK, TypeOK', FeedInv,
           UNCHANGED <<m_mapClient, m_pAsynSendCommandEvent, s2c, m_state, cliState>>,
           lev.pc = "disconnected" => UNCHANGED lev,
           \A d \in Client : \/ InFlight(d)' = InFlight(d)
                             \/ \E m \in Images : InFlight(d)' = Append(InFlight(d), m)
    PROVE  FeedInv'
<1>1. ShutInv'
  BY DEF FeedInv, ShutInv
<1>2. ASSUME NEW d \in Client PROVE AnsweredOnce(d)'
  <2>1. Results(d)' = Results(d)
    <3>1. CASE InFlight(d)' = InFlight(d)
      BY <3>1 DEF Results
    <3>2. ASSUME NEW m \in Images, InFlight(d)' = Append(InFlight(d), m) PROVE Results(d)' = Results(d)
      <4>1. m \in ServerCommand /\ m.code \notin LogonCodes
        BY DEF ServerCommand, Images, LogonCodes, RDCC_LOGON_RESULT, RDCC_TRANSFER_BITMAP,
               RDCC_TRANSFER_MODIFY_BITMAP
      <4>2. InFlight(d) \in Seq(ServerCommand)
        BY InFlightType
      <4>3. CountOf(Append(InFlight(d), m), LogonCodes)
              = CountOf(InFlight(d), LogonCodes) + One(m.code \in LogonCodes)
        BY <4>1, <4>2, CountOfAppend
      <4>4. One(m.code \in LogonCodes) = 0
        BY <4>1 DEF One
      <4>5. Results(d) \in Nat
        BY ResultsAreNumbers
      <4> QED
        BY <3>2, <4>3, <4>4, <4>5 DEF Results
    <3> QED
      BY <3>1, <3>2
  <2>2. Results(d)' <= Results(d)
    BY <2>1, ResultsAreNumbers
  <2> QED
    BY <2>2, AnsweredFrame DEF FeedInv, Unanswered, LoggedOn
<1> QED
  BY <1>1, <1>2 DEF FeedInv

LEMMA FeedPictures ==
    ASSUME SyncInv, SyncInv', FeedInv, OnFirstBitmap \/ \E c \in Client : JPEG_Compress(c)
    PROVE  FeedInv'
<1>0. TypeOK /\ TypeOK'
  BY DEF SyncInv
<1>1. UNCHANGED <<m_mapClient, m_pAsynSendCommandEvent, s2c, m_state, cliState>>
  BY PictureQueued
<1>2. lev.pc = "disconnected" => UNCHANGED lev
  <2>1. CASE OnFirstBitmap
    BY <2>1 DEF OnFirstBitmap
  <2>2. CASE \E c \in Client : JPEG_Compress(c)
    BY <2>2 DEF JPEG_Compress, SyncInv, LoopInv, CompressInv
  <2> QED
    BY <2>1, <2>2
<1>3. PICK S \in SUBSET m_mapClient, img \in [Block -> Pixels] : QueuePicture(S, img)
  BY PictureQueued
<1>4. S \in SUBSET Client
  BY <1>0 DEF TypeOK
<1>5. Image(RDCC_TRANSFER_BITMAP, img) \in Images
  BY DEF Image, Images
<1>6. ASSUME NEW d \in Client
      PROVE  \/ InFlight(d)' = InFlight(d)
             \/ InFlight(d)' = Append(InFlight(d), Image(RDCC_TRANSFER_BITMAP, img))
  <2>1. CASE d \notin S \/ m_pAsynSendCommandEvent[d]
    BY <1>0, <1>1, <1>3, <1>4, <2>1, PictureInFlight
  <2>2. CASE d \in S /\ ~m_pAsynSendCommandEvent[d]
    BY <1>1, <1>3, <2>2 DEF QueuePicture, InFlight
  <2> QED
    BY <2>1, <2>2
<1> QED
  BY <1>0, <1>1, <1>2, <1>5, <1>6, FeedImages

LEMMA FeedLoop ==
    ASSUME SyncInv, SyncInv', FeedInv,
           \/ CaptureThread \/ JPEG_CompressFaults \/ OnModified \/ ClipBitmapRect
           \/ \E c \in Client : OnScreenModified(c) \/ OnScreenModifiedNull(c)
    PROVE  FeedInv'
<1>1. UNCHANGED <<m_mapClient, m_pAsynSendCommandEvent, s2c, m_queueAsynCommand, m_state, cliState, lev>>
  BY DEF CaptureThread, CaptureFirst, CaptureSwap, JPEG_CompressFaults, OnModified, ClipBitmapRect,
         OnScreenModified, OnScreenModifiedNull, connVars, cliVars
<1> QED
  BY <1>1, FeedFrame DEF SyncInv, Unanswered, LoggedOn

LEMMA FeedModifyBitmap ==
    ASSUME SyncInv, SyncInv', FeedInv, NEW c \in Client, AsynSendTransterModifyBitmap(c)
    PROVE  FeedInv'
<1>0. TypeOK /\ TypeOK'
  BY DEF SyncInv
<1> DEFINE m == Image(RDCC_TRANSFER_MODIFY_BITMAP, ui.img)
<1>1. /\ UNCHANGED <<m_mapClient, m_pAsynSendCommandEvent, s2c, m_state, cliState, lev>>
      /\ m_queueAsynCommand' = [m_queueAsynCommand EXCEPT ![c] = Append(@, m)]
  BY DEF AsynSendTransterModifyBitmap, cliVars
<1>2. m \in Images /\ m \in ServerCommand
  BY <1>0 DEF Image, Images, ServerCommand, TypeOK
<1> HIDE DEF m
<1>3. ASSUME NEW d \in Client
      PROVE  InFlight(d)' = InFlight(d) \/ InFlight(d)' = Append(InFlight(d), m)
  <2>1. CASE d = c
    BY <1>0, <1>1, <1>2, <2>1, QueuedInFlight DEF TypeOK
  <2>2. CASE d # c
    BY <1>0, <1>1, <2>2 DEF InFlight, TypeOK
  <2> QED
    BY <2>1, <2>2
<1> QED
  BY <1>0, <1>1, <1>2, <1>3, FeedImages

LEMMA FeedClients ==
    ASSUME SyncInv, SyncInv', FeedInv, NEW c \in Client, ClientOnConnected(c) \/ ClientOnReciveCommand(c)
    PROVE  FeedInv'
<1>0. TypeOK /\ TypeOK'
  BY DEF SyncInv
<1>1. UNCHANGED <<m_mapClient, m_pAsynSendCommandEvent, m_state, lev>>
  BY DEF ClientOnConnected, ClientOnReciveCommand, connVars
<1>2. CASE ClientOnConnected(c)
  <2>1. UNCHANGED <<s2c, m_queueAsynCommand>> /\ cliState' = [cliState EXCEPT ![c] = RDCS_LOGON]
    BY <1>2 DEF ClientOnConnected, connVars
  <2>2. \A d \in Client : LoggedOn(d)' => LoggedOn(d)
    BY <1>0, <2>1 DEF LoggedOn, TypeOK, RDCS_LOGON, RDCS_COMPRESS_MODE, RDCS_TRANSFER
  <2> QED
    BY <1>0, <1>1, <2>1, <2>2, FeedFrame DEF Unanswered
<1>3. CASE ClientOnReciveCommand(c)
  <2> DEFINE m == Head(s2c[c])
  <2>1. /\ s2c' = [s2c EXCEPT ![c] = Tail(@)] /\ UNCHANGED m_queueAsynCommand /\ s2c[c] # <<>>
        /\ \A d \in Client \ {c} : cliState'[d] = cliState[d]
    BY <1>0, <1>3 DEF ClientOnReciveCommand, connVars, cliVars, TypeOK
  <2>2. ShutInv'
    BY <1>0, <1>1, <2>1 DEF FeedInv, ShutInv, TypeOK
  <2>3. /\ InFlight(c) \in Seq(ServerCommand) /\ InFlight(c) # <<>>
        /\ Head(InFlight(c)) = m /\ InFlight(c)' = Tail(InFlight(c))
        /\ \A d \in Client \ {c} : InFlight(d)' = InFlight(d)
    BY <1>0, <1>3, ReceivedInFlight
  <2>4. Results(c) = One(m.code \in LogonCodes) + Results(c)'
    BY <2>3, CountOfTail DEF Results
  <2>5. Results(c) \in Nat /\ Results(c)' \in Nat
    BY <1>0, ResultsAreNumbers
  <2>6. One(m.code \in LogonCodes) \in {0, 1}
    BY DEF One
  <2>7. AnsweredOnce(c)'
    <3>1. CASE LoggedOn(c)' => LoggedOn(c)
      BY <1>0, <1>1, <2>4, <2>5, <2>6, <3>1, AnsweredFrame DEF FeedInv, Unanswered
    <3>2. CASE LoggedOn(c)' /\ ~LoggedOn(c)
      <4>1. m.code = RDCC_LOGON_RESULT
        BY <1>0, <1>3, <3>2, ClientReceives DEF LoggedOn
      <4>2. One(m.code \in LogonCodes) = 1
        BY <4>1 DEF LogonCodes, One
      <4>3. One(LoggedOn(c)) = 0 /\ One(LoggedOn(c))' = 1
        BY <3>2 DEF One
      <4>4. One(Unanswered(c))' = One(Unanswered(c)) /\ One(Unanswered(c)) \in {0, 1}
        BY <1>1 DEF One, Unanswered
      <4> QED
        BY <2>4, <2>5, <4>2, <4>3, <4>4 DEF FeedInv, AnsweredOnce
    <3> QED
      BY <3>1, <3>2
  <2>8. ASSUME NEW d \in Client \ {c} PROVE AnsweredOnce(d)'
    <3>1. Results(d)' = Results(d)
      BY <2>3 DEF Results
    <3>2. Results(d)' <= Results(d)
      BY <1>0, <3>1, ResultsAreNumbers
    <3> QED
      BY <1>0, <1>1, <2>1, <3>2, AnsweredFrame DEF FeedInv, Unanswered, LoggedOn
  <2> QED
    BY <2>2, <2>7, <2>8 DEF FeedInv
<1> QED
  BY <1>2, <1>3

LEMMA FeedNext == DeliveryInv /\ SyncInv' /\ FeedInv /\ [Next]_vars => FeedInv'
<1> SUFFICES ASSUME DeliveryInv, SyncInv', FeedInv, [Next]_vars PROVE FeedInv'
  OBVIOUS
<1>0. SyncInv /\ HandshakeInv
  BY DEF DeliveryInv
<1>1. CASE UNCHANGED vars
  <2>1. UNCHANGED <<m_mapClient, m_pAsynSendCommandEvent, s2c, m_queueAsynCommand, m_state, cliState, lev>>
    BY <1>1 DEF vars, connVars, cliVars
  <2> QED
    BY <1>0, <2>1, FeedFrame DEF SyncInv, Unanswered, LoggedOn
<1>2. CASE Next
  BY <1>0, <1>2, FeedLibevent, FeedConnections, FeedCommand, FeedPictures, FeedLoop, FeedModifyBitmap,
     FeedClients DEF Next, Busy
<1> QED
  BY <1>1, <1>2

-----------------------------------------------------------------------------
(* The step of PictureFeed that a step is.                                 *)

\* What a step does of what PictureFeed sees, if it is one of its actions.
Mapped == [Feed!Next]_(Feed!vars)

\* PictureFeed sees no change of the connection c.
SameEntry(c) ==
    /\ feedBar'[c] = feedBar[c] /\ contentBar'[c] = contentBar[c]
    /\ staleBar'[c] = staleBar[c] /\ lostBar'[c] = lostBar[c]

LEMMA Entries ==
    ASSUME NEW c \in Client
    PROVE  /\ feedBar[c] = IF c \in Fed THEN FeedOf(c) ELSE <<>>
           /\ contentBar[c] = IF c \in Fed THEN Pictured(c) ELSE Null
           /\ staleBar[c] = IF c \in Fed THEN StaleOf(c) ELSE {}
           /\ lostBar[c] = IF c \in Fed THEN LostOf(c) ELSE {}
           /\ feedBar'[c] = IF c \in Fed' THEN FeedOf(c)' ELSE <<>>
           /\ contentBar'[c] = IF c \in Fed' THEN Pictured(c)' ELSE Null
           /\ staleBar'[c] = IF c \in Fed' THEN StaleOf(c)' ELSE {}
           /\ lostBar'[c] = IF c \in Fed' THEN LostOf(c)' ELSE {}
BY DEF feedBar, contentBar, staleBar, lostBar

LEMMA BarShape ==
    /\ feedBar = [c \in Client |-> feedBar[c]] /\ contentBar = [c \in Client |-> contentBar[c]]
    /\ staleBar = [c \in Client |-> staleBar[c]] /\ lostBar = [c \in Client |-> lostBar[c]]
    /\ feedBar' = [c \in Client |-> feedBar'[c]] /\ contentBar' = [c \in Client |-> contentBar'[c]]
    /\ staleBar' = [c \in Client |-> staleBar'[c]] /\ lostBar' = [c \in Client |-> lostBar'[c]]
BY DEF feedBar, contentBar, staleBar, lostBar

\* Only the connection c changes.
LEMMA OneEntry ==
    ASSUME NEW c \in Client, \A d \in Client \ {c} : SameEntry(d)
    PROVE  /\ feedBar' = [feedBar EXCEPT ![c] = feedBar'[c]]
           /\ contentBar' = [contentBar EXCEPT ![c] = contentBar'[c]]
           /\ staleBar' = [staleBar EXCEPT ![c] = staleBar'[c]]
           /\ lostBar' = [lostBar EXCEPT ![c] = lostBar'[c]]
<1>1. feedBar' = [feedBar EXCEPT ![c] = feedBar'[c]]
  BY BarShape DEF SameEntry
<1>2. contentBar' = [contentBar EXCEPT ![c] = contentBar'[c]]
  BY BarShape DEF SameEntry
<1>3. staleBar' = [staleBar EXCEPT ![c] = staleBar'[c]]
  BY BarShape DEF SameEntry
<1>4. lostBar' = [lostBar EXCEPT ![c] = lostBar'[c]]
  BY BarShape DEF SameEntry
<1> QED
  BY <1>1, <1>2, <1>3, <1>4

LEMMA NoEntry ==
    ASSUME \A d \in Client : SameEntry(d)
    PROVE  UNCHANGED <<feedBar, contentBar, staleBar, lostBar>>
<1>1. UNCHANGED feedBar
  BY BarShape DEF SameEntry
<1>2. UNCHANGED contentBar
  BY BarShape DEF SameEntry
<1>3. UNCHANGED staleBar
  BY BarShape DEF SameEntry
<1>4. UNCHANGED lostBar
  BY BarShape DEF SameEntry
<1> QED
  BY <1>1, <1>2, <1>3, <1>4

LEMMA MappedStutter ==
    ASSUME UNCHANGED <<m_pBuffer, m_mapClient, view, crashed>>, \A d \in Client : SameEntry(d)
    PROVE  Mapped
<1>1. UNCHANGED <<feedBar, contentBar, staleBar, lostBar>>
  BY NoEntry
<1> QED
  BY <1>1 DEF Mapped, Feed!vars

LEMMA MappedStep ==
    ASSUME ~crashed,
           \/ Feed!Capture \/ Feed!Stop \/ Feed!Crash
           \/ \E S \in SUBSET Client : Feed!Picture(S)
           \/ \E c \in Client : \/ Feed!Open(c) \/ Feed!Close(c) \/ Feed!Spoil(c) \/ Feed!Update(c)
                                \/ Feed!Lose(c) \/ Feed!Draw(c)
    PROVE  Mapped
BY Zenon DEF Mapped, Feed!Next

\* A connection without a picture.
LEMMA UnfedEntry ==
    ASSUME NEW c \in Client, c \notin Fed, c \notin Fed'
    PROVE  SameEntry(c)
BY Entries DEF SameEntry

LEMMA FedFrame ==
    ASSUME NEW c \in Client, c \in m_mapClient' <=> c \in m_mapClient,
           sent'[c] = sent[c], Compresses(c)' <=> Compresses(c),
           Compresses(c) => ui'.img = ui.img
    PROVE  (c \in Fed' <=> c \in Fed) /\ Pictured(c)' = Pictured(c)
<1>1. Pictured(c)' = Pictured(c)
  BY DEF Pictured
<1> QED
  BY <1>1 DEF Fed

LEMMA EntryFrame ==
    ASSUME NEW c \in Client, c \in m_mapClient' <=> c \in m_mapClient,
           sent'[c] = sent[c], Compresses(c)' <=> Compresses(c),
           Compresses(c) => ui'.img = ui.img,
           c \in Fed =>
             /\ InFlight(c)' = InFlight(c) /\ garbled'[c] = garbled[c] /\ lost'[c] = lost[c]
             /\ StaleOf(c)' = StaleOf(c)
    PROVE  SameEntry(c)
<1>1. (c \in Fed' <=> c \in Fed) /\ Pictured(c)' = Pictured(c)
  BY FedFrame
<1>2. c \in Fed => FeedOf(c)' = FeedOf(c) /\ LostOf(c)' = LostOf(c)
  BY DEF FeedOf, LostOf
<1> QED
  BY <1>1, <1>2, Entries DEF SameEntry

LEMMA StaleFrame ==
    ASSUME NEW c \in Client, UNCHANGED <<notices, ui>>, m_pnModifiedBlocks'[c] = m_pnModifiedBlocks[c]
    PROVE  StaleOf(c)' = StaleOf(c)
BY DEF StaleOf, Clips

\* Stale blocks: told of in a posted message, in the hands of the loop, in the list.
LEMMA StaleIs ==
    ASSUME NEW c \in Client, NEW b
    PROVE  /\ b \in StaleOf(c) <=>
                b \in Block /\ (Noticed(b) \/ (c \in ui.todo /\ b \in ui.blocks /\ ~Clips(c))
                                \/ (m_pnModifiedBlocks[c] # Null /\ b \in ToSet(m_pnModifiedBlocks[c])))
           /\ b \in StaleOf(c)' <=>
                b \in Block /\ (Noticed(b)' \/ (c \in ui'.todo /\ b \in ui'.blocks /\ ~Clips(c)')
                                \/ (m_pnModifiedBlocks'[c] # Null /\ b \in ToSet(m_pnModifiedBlocks'[c])))
BY DEF StaleOf, Noticed

\* The images of a list of commands, and those on their way to c.
ImgsOf(cmds) == [i \in 1..Len(cmds) |-> cmds[i].img]
Imgs(c)      == ImgsOf(InFlight(c))

LEMMA FeedOfImgs ==
    ASSUME NEW c \in Client
    PROVE  /\ FeedOf(c) = Imgs(c) \o (IF Compresses(c) THEN <<ui.img>> ELSE <<>>)
           /\ FeedOf(c)' = ImgsOf(InFlight(c)') \o (IF Compresses(c)' THEN <<ui'.img>> ELSE <<>>)
BY DEF FeedOf, Imgs, ImgsOf

LEMMA ImgsAppend ==
    ASSUME NEW s \in Seq(ServerCommand), NEW m \in ServerCommand
    PROVE  ImgsOf(Append(s, m)) = Append(ImgsOf(s), m.img)
<1> DEFINE T == {s[i].img : i \in 1..Len(s)} \cup {m.img}
           a == Append(s, m)
           q == ImgsOf(s)
           r == Append(q, m.img)
<1>0. Len(s) \in Nat
  OBVIOUS
<1>1. q \in Seq(T) /\ Len(q) = Len(s) /\ m.img \in T /\ \A i \in 1..Len(s) : q[i] = s[i].img
  <2>1. q \in [1..Len(s) -> T] /\ \A i \in 1..Len(s) : q[i] = s[i].img
    BY DEF ImgsOf
  <2>2. q \in Seq(T) /\ Len(q) = Len(s)
    BY <1>0, <2>1
  <2> QED
    BY <2>1, <2>2
<1> HIDE DEF q, T
<1>2. Len(a) = Len(s) + 1 /\ a[Len(s) + 1] = m /\ \A i \in 1..Len(s) : a[i] = s[i]
  BY <1>0
<1>3. r \in Seq(T) /\ Len(r) = Len(s) + 1 /\ r[Len(s) + 1] = m.img /\ \A i \in 1..Len(s) : r[i] = s[i].img
  BY <1>0, <1>1
<1> HIDE DEF a, r
<1>4. r = [i \in 1..Len(s) + 1 |-> r[i]]
  BY <1>3
<1>5. \A i \in 1..Len(s) + 1 : r[i] = a[i].img
  BY <1>0, <1>2, <1>3
<1>6. ImgsOf(a) = r
  BY <1>2, <1>4, <1>5 DEF ImgsOf
<1> QED
  BY <1>6 DEF a, r, q

LEMMA ImgsTail ==
    ASSUME NEW s \in Seq(ServerCommand), s # <<>>
    PROVE  /\ ImgsOf(s) # <<>> /\ Head(ImgsOf(s)) = Head(s).img
           /\ ImgsOf(Tail(s)) = Tail(ImgsOf(s))
<1> DEFINE T == {s[i].img : i \in 1..Len(s)}
           a == Tail(s)
           q == ImgsOf(s)
           r == Tail(q)
<1>0. Len(s) \in Nat /\ Len(s) > 0
  <2>1. Len(s) \in Nat
    OBVIOUS
  <2> QED
    BY <2>1, EmptyList
<1>1. q \in Seq(T) /\ Len(q) = Len(s) /\ \A i \in 1..Len(s) : q[i] = s[i].img
  <2>1. q \in [1..Len(s) -> T] /\ \A i \in 1..Len(s) : q[i] = s[i].img
    BY DEF ImgsOf
  <2>2. q \in Seq(T) /\ Len(q) = Len(s)
    BY <1>0, <2>1
  <2> QED
    BY <2>1, <2>2
<1> HIDE DEF q, T
<1>2. q # <<>>
  BY <1>0, <1>1
<1>3. Len(a) = Len(s) - 1 /\ \A i \in 1..Len(s) - 1 : a[i] = s[i + 1]
  BY <1>0
<1>4. r \in Seq(T) /\ Len(r) = Len(s) - 1 /\ \A i \in 1..Len(s) - 1 : r[i] = q[i + 1]
  BY <1>0, <1>1, <1>2
<1>5. Head(q) = q[1] /\ Head(s) = s[1] /\ 1 \in 1..Len(s)
  BY <1>0, <1>1, <1>2
<1> HIDE DEF a, r
<1>6. r = [i \in 1..Len(s) - 1 |-> r[i]]
  BY <1>4
<1>7. \A i \in 1..Len(s) - 1 : r[i] = a[i].img
  BY <1>0, <1>1, <1>3, <1>4
<1>8. ImgsOf(a) = r
  BY <1>3, <1>6, <1>7 DEF ImgsOf
<1> QED
  BY <1>1, <1>2, <1>5, <1>8 DEF a, r, q

\* An image behind the others.
LEMMA ImgsLast ==
    ASSUME NEW s \in Seq(ServerCommand), NEW img
    PROVE  LET a == Append(ImgsOf(s), img)
           IN  /\ ImgsOf(s) \o <<>> = ImgsOf(s) /\ ImgsOf(s) \o <<img>> = a
               /\ a # <<>> /\ SubSeq(a, 1, Len(a) - 1) = ImgsOf(s)
               /\ s # <<>> => Head(a) = Head(s).img /\ Tail(a) = Append(Tail(ImgsOf(s)), img)
               /\ s = <<>> => ImgsOf(s) = <<>>
<1> DEFINE T == {s[i].img : i \in 1..Len(s)} \cup {img}
           q == ImgsOf(s)
<1>1. q \in Seq(T) /\ Len(q) = Len(s) /\ img \in T
  <2>1. q \in [1..Len(s) -> T] /\ Len(s) \in Nat
    BY DEF ImgsOf
  <2>2. q \in Seq(T) /\ Len(q) = Len(s)
    BY <2>1
  <2> QED
    BY <2>2
<1> HIDE DEF q, T
<1>2. s # <<>> => q # <<>> /\ Head(q) = Head(s).img
  BY ImgsTail DEF q
<1>3. s = <<>> => q = <<>>
  BY <1>1, EmptyList
<1>4. q \o <<>> = q
  BY <1>1
<1>5. q \o <<img>> = Append(q, img)
  BY <1>1
<1>6. SubSeq(Append(q, img), 1, Len(Append(q, img)) - 1) = q
  BY <1>1
<1>7. Append(q, img) # <<>>
  <2>1. Len(Append(q, img)) = Len(q) + 1 /\ Len(q) \in Nat
    BY <1>1
  <2> QED
    BY <2>1
<1>8. q # <<>> => Head(Append(q, img)) = Head(q) /\ Tail(Append(q, img)) = Append(Tail(q), img)
  BY <1>1
<1> QED
  BY <1>2, <1>3, <1>4, <1>5, <1>6, <1>7, <1>8 DEF q

-----------------------------------------------------------------------------
(* Who has a picture.                                                      *)

\* All that the proof that a step is one of PictureFeed rests on.
RefineInv == DeliveryInv /\ CoverInv /\ FeedInv

\* A connection that is being served images has negotiated: only images are on their
\* way to it, and none is before its first picture.
LEMMA OnlyImages ==
    ASSUME RefineInv, NEW c \in m_mapClient, m_state[c] \in {RDCS_COMPRESS_MODE, RDCS_TRANSFER}
    PROVE  /\ \A i \in 1..Len(InFlight(c)) : InFlight(c)[i].code \in ImageCodes
           /\ sent[c] = Null => InFlight(c) = <<>>
<1>0. TypeOK /\ c \in Client /\ Agreed(c) /\ AnsweredOnce(c) /\ AckInv /\ m_state[c] # RDCS_DISCONNECTED
  BY DEF RefineInv, DeliveryInv, SyncInv, HandshakeInv, MapInv, FeedInv, TypeOK
<1>1. LoggedOn(c)
  BY <1>0 DEF Agreed, LoggedOn
<1>2. Results(c) \in Nat /\ One(LoggedOn(c)) = 1 /\ One(Unanswered(c)) \in {0, 1}
  BY <1>0, <1>1, ResultsAreNumbers DEF One
<1>3. Results(c) = 0
  BY <1>0, <1>2 DEF AnsweredOnce
<1> DEFINE s == InFlight(c)
<1>4. s \in Seq(ServerCommand)
  BY <1>0, InFlightType
<1>5. IsFiniteSet(Places(s, LogonCodes)) /\ CountOf(s, LogonCodes) = Cardinality(Places(s, LogonCodes))
  BY <1>4, CountIsNat
<1>6. Places(s, LogonCodes) = {}
  BY <1>3, <1>5, FS_EmptySet DEF Results
<1> HIDE DEF s
<1>7. ASSUME NEW i \in 1..Len(s) PROVE s[i].code \in ImageCodes
  <2>1. s[i] \in ServerCommand /\ s[i].code # RDCC_LOGON_RESULT
    BY <1>4, <1>6 DEF Places, LogonCodes
  <2> QED
    BY <2>1, ServerCommands
<1>8. ASSUME sent[c] = Null PROVE s = <<>>
  <2>1. ~HasCode(s, ImageCodes)
    BY <1>0, <1>8 DEF AckInv, s
  <2>2. Len(s) = 0
    <3>1. Len(s) \in Nat
      BY <1>4
    <3>2. 1 \notin 1..Len(s)
      BY <1>7, <2>1 DEF HasCode
    <3> QED
      BY <3>1, <3>2
  <2> QED
    BY <1>4, <2>2, EmptyList
<1> QED
  BY <1>7, <1>8 DEF s

LEMMA FedHasPicture ==
    ASSUME RefineInv, NEW c \in Fed
    PROVE  /\ c \in Client /\ c \in m_mapClient /\ m_state[c] = RDCS_TRANSFER
           /\ m_pBuffer # Null
<1>1. c \in Client /\ c \in m_mapClient /\ Pictured(c) # Null
  BY DEF Fed, RefineInv, DeliveryInv, SyncInv, TypeOK
<1>2. CASE Compresses(c)
  BY <1>1, <1>2 DEF Compresses, RefineInv, DeliveryInv, SyncInv, HandlerInv
<1>3. CASE ~Compresses(c)
  <2>1. sent[c] # Null
    BY <1>1, <1>3 DEF Pictured
  <2> QED
    BY <1>1, <2>1 DEF RefineInv, DeliveryInv, SyncInv, BufferInv, HandshakeInv, Agreed
<1> QED
  BY <1>2, <1>3

\* Outside of the compression of a picture, the feed is what is on its way.
LEMMA FeedIsImgs ==
    ASSUME RefineInv, NEW c \in m_mapClient, m_state[c] \in {RDCS_COMPRESS_MODE, RDCS_TRANSFER},
           ~Compresses(c)
    PROVE  /\ c \in Client /\ InFlight(c) \in Seq(ServerCommand) /\ feedBar[c] = ImgsOf(InFlight(c))
           /\ c \in Fed <=> sent[c] # Null
<1>0. TypeOK /\ c \in Client
  BY DEF RefineInv, DeliveryInv, SyncInv, TypeOK
<1>1. InFlight(c) \in Seq(ServerCommand)
  BY <1>0, InFlightType
<1>2. c \in Fed <=> sent[c] # Null
  BY DEF Fed, Pictured
<1>3. ImgsOf(InFlight(c)) \o <<>> = ImgsOf(InFlight(c)) /\ (InFlight(c) = <<>> => ImgsOf(InFlight(c)) = <<>>)
  BY <1>1, ImgsLast
<1>4. FeedOf(c) = ImgsOf(InFlight(c))
  BY <1>0, <1>3, FeedOfImgs DEF Imgs
<1> QED
  BY <1>0, <1>1, <1>2, <1>3, <1>4, OnlyImages, Entries

-----------------------------------------------------------------------------
(* One lemma per kind of step.                                             *)

\* Steps that PictureFeed does not see.
LEMMA RefineFrame ==
    ASSUME RefineInv,
           UNCHANGED <<m_pBuffer, m_mapClient, view, crashed, notices, ui>>,
           \A d \in m_mapClient : /\ m_pnModifiedBlocks'[d] = m_pnModifiedBlocks[d] /\ sent'[d] = sent[d]
                                  /\ lost'[d] = lost[d] /\ garbled'[d] = garbled[d],
           \A d \in Fed : InFlight(d)' = InFlight(d)
    PROVE  (\A d \in Client : SameEntry(d)) /\ Mapped
<1>1. ASSUME NEW d \in Client PROVE SameEntry(d)
  <2>1. CASE d \in m_mapClient
    <3>1. (Compresses(d)' <=> Compresses(d)) /\ ui'.img = ui.img
      BY DEF Compresses
    <3>2. StaleOf(d)' = StaleOf(d)
      BY <2>1, StaleFrame
    <3> QED
      BY <2>1, <3>1, <3>2, EntryFrame
  <2>2. CASE d \notin m_mapClient
    <3>1. d \notin Fed /\ d \notin Fed'
      BY <2>2 DEF Fed
    <3> QED
      BY <3>1, UnfedEntry
  <2> QED
    BY <2>1, <2>2
<1> QED
  BY <1>1, MappedStutter

\* A connection enters or leaves the map.
LEMMA RefineLibevent ==
    ASSUME RefineInv, NEW c \in Client, LibeventThread(c) \/ conn_eventcb(c)
    PROVE  Mapped
<1>0. SyncInv /\ TypeOK /\ m_mapClient \subseteq Client
  BY DEF RefineInv, DeliveryInv, SyncInv, TypeOK
<1>1. UNCHANGED <<m_pBuffer, view, crashed, notices, ui, m_pnModifiedBlocks, sent, lost, garbled>> /\ ~crashed
  BY Zenon DEF LibeventThread, listener_cb, conn_readcb, OnAsynSendCommand, conn_eventcb, capVars, connVars, cliVars
<1>2. CASE conn_readcb(c)
  <2>1. UNCHANGED <<m_mapClient, s2c, m_queueAsynCommand>>
    BY <1>2 DEF conn_readcb, connVars
  <2>2. \A d \in Fed : InFlight(d)' = InFlight(d)
    BY <2>1 DEF InFlight
  <2> QED
    BY <1>1, <2>1, <2>2, RefineFrame
<1>3. CASE OnAsynSendCommand(c)
  <2>1. UNCHANGED m_mapClient
    BY <1>3 DEF OnAsynSendCommand
  <2>2. \A d \in Client : InFlight(d)' = InFlight(d)
    BY <1>0, <1>3, FlushKeepsInFlight
  <2> QED
    BY <1>0, <1>1, <2>1, <2>2, FedHasPicture, RefineFrame
\* The others keep their entries.
<1>4. ASSUME NEW d \in Client \ {c}, d \in m_mapClient' <=> d \in m_mapClient, InFlight(d)' = InFlight(d)
      PROVE  SameEntry(d)
  <2>1. (Compresses(d)' <=> Compresses(d)) /\ ui'.img = ui.img
    BY <1>1 DEF Compresses
  <2>2. StaleOf(d)' = StaleOf(d)
    BY <1>1, StaleFrame
  <2> QED
    BY <1>1, <1>4, <2>1, <2>2, EntryFrame
<1>5. CASE listener_cb(c)
  <2>1. /\ m_mapClient' = m_mapClient \cup {c} /\ c \notin m_mapClient /\ m_state[c] = RDCS_INVALID
        /\ ui = UiFree /\ UNCHANGED <<s2c, m_queueAsynCommand>>
    BY <1>5 DEF listener_cb
  <2>2. \A d \in Client \ {c} : SameEntry(d)
    BY <1>4, <2>1 DEF InFlight
  <2>3. c \notin Fed /\ c \notin Fed'
    <3>1. sent[c] = Null /\ ~Compresses(c)'
      BY <1>0, <1>1, <2>1, UiFreeFields DEF SyncInv, BufferInv, Compresses
    <3> QED
      BY <1>1, <2>1, <3>1 DEF Fed, Pictured
  <2>4. \A d \in Client : SameEntry(d)
    BY <2>2, <2>3, UnfedEntry
  <2>5. Feed!Open(c)
    BY <1>1, <2>1, <2>4, NoEntry DEF Feed!Open
  <2> QED
    BY <1>1, <2>5, MappedStep
<1>6. CASE conn_eventcb(c)
  <2>1. /\ m_mapClient' = m_mapClient \ {c} /\ c \in m_mapClient
        /\ s2c' = [s2c EXCEPT ![c] = <<>>] /\ UNCHANGED m_queueAsynCommand
    BY <1>6 DEF conn_eventcb, connVars
  <2>2. \A d \in Client \ {c} : SameEntry(d)
    BY <1>0, <1>4, <2>1, ClosedInFlight
  <2>3. feedBar'[c] = <<>> /\ contentBar'[c] = Null /\ staleBar'[c] = {} /\ lostBar'[c] = {}
    BY <2>1, Entries DEF Fed
  <2>4. Feed!Close(c)
    BY <1>1, <2>1, <2>2, <2>3, OneEntry DEF Feed!Close
  <2> QED
    BY <1>1, <2>4, MappedStep
<1> QED
  BY <1>2, <1>3, <1>5, <1>6 DEF LibeventThread

LEMMA RefineConnections ==
    ASSUME RefineInv, NEW c \in Client,
           OnClientConnected(c) \/ OnClientDisconnected(c) \/ ClientOnConnected(c)
    PROVE  Mapped
<1>0. SyncInv /\ TypeOK /\ m_mapClient \subseteq Client
  BY DEF RefineInv, DeliveryInv, SyncInv, TypeOK
<1>1. CASE OnClientConnected(c) \/ ClientOnConnected(c)
  <2>1. UNCHANGED <<m_pBuffer, m_mapClient, view, crashed, notices, ui, m_pnModifiedBlocks, sent, lost,
                    garbled, s2c, m_queueAsynCommand>>
    BY <1>1, Zenon DEF OnClientConnected, ClientOnConnected, capVars, connVars, cliVars
  <2>2. \A d \in Fed : InFlight(d)' = InFlight(d)
    BY <2>1 DEF InFlight
  <2> QED
    BY <2>1, <2>2, RefineFrame
<1>2. CASE OnClientDisconnected(c)
  <2>1. /\ lev = [pc |-> "disconnected", conn |-> c] /\ ~crashed
        /\ m_queueAsynCommand' = [m_queueAsynCommand EXCEPT ![c] = <<>>]
        /\ m_pnModifiedBlocks' = [m_pnModifiedBlocks EXCEPT ![c] = Null]
        /\ sent' = [sent EXCEPT ![c] = Null] /\ lost' = [lost EXCEPT ![c] = {}]
        /\ UNCHANGED <<m_mapClient, ui, garbled, s2c, view>>
    BY <1>2 DEF OnClientDisconnected, cliVars
  <2>2. c \notin m_mapClient
    BY <2>1 DEF RefineInv, DeliveryInv, HandshakeInv, MapInv
  <2>3. CASE UNCHANGED <<m_pBuffer, notices, crashed>>
    <3>1. \A d \in m_mapClient : /\ m_pnModifiedBlocks'[d] = m_pnModifiedBlocks[d] /\ sent'[d] = sent[d]
                                 /\ lost'[d] = lost[d] /\ garbled'[d] = garbled[d]
                                 /\ m_queueAsynCommand'[d] = m_queueAsynCommand[d]
      BY <1>0, <2>1, <2>2 DEF TypeOK
    <3>2. \A d \in Fed : InFlight(d)' = InFlight(d)
      BY <2>1, <3>1 DEF InFlight, Fed
    <3> QED
      BY <2>1, <2>3, <3>1, <3>2, RefineFrame
  <2>4. CASE m_mapClient = {} /\ StopCapture
    <3>1. m_pBuffer' = Null /\ crashed' \in BOOLEAN
      BY <2>4 DEF StopCapture
    <3>2. Fed = {} /\ Fed' = {}
      BY <2>1, <2>4 DEF Fed
    <3>3. \A d \in Client : SameEntry(d)
      BY <3>2, UnfedEntry
    <3>4. Feed!Stop
      BY <2>1, <2>4, <3>1, <3>3, NoEntry DEF Feed!Stop
    <3> QED
      BY <2>1, <3>4, MappedStep
  <2> QED
    BY <1>2, <2>3, <2>4, Zenon DEF OnClientDisconnected, capVars
<1> QED
  BY <1>1, <1>2

\* A command that asks for no picture; a client of another version is turned away.
LEMMA RefineCommand ==
    ASSUME RefineInv, NEW c \in Client,
           \/ IgnoreCommand(c) \/ OnGetProtocalVersion(c) \/ OnGetLogon(c)
           \/ OnGetCompressMode(c) \/ OnGetTransferBitmapResult(c)
    PROVE  Mapped
<1>0. SyncInv /\ TypeOK /\ m_mapClient \subseteq Client /\ m_state[c] \in ConnectionState
  BY DEF RefineInv, DeliveryInv, SyncInv, TypeOK
<1>1. /\ UNCHANGED <<m_pBuffer, view, crashed, notices, ui, m_pnModifiedBlocks, sent, lost, garbled>>
      /\ ~crashed
  BY Zenon DEF IgnoreCommand, OnGetProtocalVersion, OnGetLogon, OnGetCompressMode,
        OnGetTransferBitmapResult, Receives, Waiting, capVars, connVars, cliVars
<1>2. CASE UNCHANGED <<m_mapClient, s2c, m_queueAsynCommand>>
  <2>1. \A d \in Fed : InFlight(d)' = InFlight(d)
    BY <1>2 DEF InFlight
  <2> QED
    BY <1>1, <1>2, <2>1, RefineFrame
<1>3. CASE OnGetLogon(c)
  <2>1. /\ ServerAccepts(m_state[c], RDCC_LOGON) /\ UNCHANGED <<m_mapClient, s2c>>
        /\ m_queueAsynCommand' = [m_queueAsynCommand EXCEPT ![c] = Append(@, Command(RDCC_LOGON_RESULT))]
    BY <1>3 DEF OnGetLogon, Receives
  <2>2. m_state[c] = RDCS_PROTOCOL_VERSION
    BY <1>0, <2>1, AcceptedIn
  <2>3. c \notin Fed
    BY <2>2, FedHasPicture DEF RDCS_PROTOCOL_VERSION, RDCS_TRANSFER
  <2>4. ASSUME NEW d \in Fed PROVE InFlight(d)' = InFlight(d)
    <3>1. d \in Client \ {c}
      BY <2>3, FedHasPicture
    <3> QED
      BY <1>0, <2>1, <3>1 DEF InFlight, TypeOK
  <2> QED
    BY <1>1, <2>1, <2>4, RefineFrame
<1>4. CASE OnGetProtocalVersion(c) /\ StopClient(c)
  <2>1. /\ m_mapClient' = m_mapClient \ {c}
        /\ s2c' = [s2c EXCEPT ![c] = <<>>] /\ UNCHANGED m_queueAsynCommand
    BY <1>4 DEF OnGetProtocalVersion, StopClient
  <2>2. \A d \in Client \ {c} : InFlight(d)' = InFlight(d)
    BY <1>0, <2>1, ClosedInFlight
  <2>3. CASE c \notin m_mapClient
    <3>1. UNCHANGED m_mapClient /\ \A d \in Fed : InFlight(d)' = InFlight(d)
      BY <1>0, <2>1, <2>2, <2>3 DEF Fed
    <3> QED
      BY <1>1, <3>1, RefineFrame
  <2>4. CASE c \in m_mapClient
    <3>1. ASSUME NEW d \in Client \ {c} PROVE SameEntry(d)
      <4>1. (Compresses(d)' <=> Compresses(d)) /\ ui'.img = ui.img /\ (d \in m_mapClient' <=> d \in m_mapClient)
        BY <1>1, <2>1 DEF Compresses
      <4>2. StaleOf(d)' = StaleOf(d)
        BY <1>1, StaleFrame
      <4> QED
        BY <1>1, <2>2, <4>1, <4>2, EntryFrame
    <3>2. feedBar'[c] = <<>> /\ contentBar'[c] = Null /\ staleBar'[c] = {} /\ lostBar'[c] = {}
      BY <2>1, Entries DEF Fed
    <3>3. Feed!Close(c)
      BY <1>1, <2>1, <2>4, <3>1, <3>2, OneEntry DEF Feed!Close
    <3> QED
      BY <1>1, <3>3, MappedStep
  <2> QED
    BY <2>3, <2>4
<1> QED
  BY <1>2, <1>3, <1>4 DEF IgnoreCommand, OnGetProtocalVersion, OnGetCompressMode,
        OnGetTransferBitmapResult, connVars

\* A viewer is sent the whole screen from the moment on that JPEG::Compress begins.
LEMMA RefineTransferBitmap ==
    ASSUME RefineInv, NEW c \in Client, OnGetTransferBitmap(c)
    PROVE  Mapped
<1>0. SyncInv /\ TypeOK /\ m_mapClient \subseteq Client /\ m_state[c] \in ConnectionState
  BY DEF RefineInv, DeliveryInv, SyncInv, TypeOK
<1>1. /\ UNCHANGED <<m_pBuffer, m_mapClient, view, crashed, notices, sent, lost, garbled, s2c, m_queueAsynCommand>>
      /\ ~crashed /\ ui = UiFree /\ lev.pc = "command" /\ lev.conn = c
      /\ ServerAccepts(m_state[c], RDCC_TRANSFER_BITMAP)
  BY DEF OnGetTransferBitmap, Waiting, capVars, cliVars
<1>2. \A d : InFlight(d)' = InFlight(d)
  BY <1>1 DEF InFlight
<1>3. CASE m_pBuffer = Null
  <2>1. UNCHANGED <<ui, m_pnModifiedBlocks>>
    BY <1>3 DEF OnGetTransferBitmap
  <2> QED
    BY <1>1, <1>2, <2>1, RefineFrame
<1>4. CASE m_pBuffer # Null
  <2>1. /\ ui' = [UiFree EXCEPT !.pc = "compress", !.conn = c, !.img = m_pBuffer]
        /\ m_pnModifiedBlocks' = [d \in Client |-> IF d \in {c} THEN <<>> ELSE m_pnModifiedBlocks[d]]
    BY <1>4 DEF OnGetTransferBitmap, ForgetModifiedBlocks
  <2>2. ui'.pc = "compress" /\ ui'.conn = c /\ ui'.img = m_pBuffer /\ ui'.todo = {}
    BY <2>1 DEF UiFree
  <2>3. m_state[c] \in {RDCS_COMPRESS_MODE, RDCS_TRANSFER} /\ c \in m_mapClient
    <3>1. m_state[c] \in {RDCS_COMPRESS_MODE, RDCS_TRANSFER}
      BY <1>0, <1>1, AcceptedIn
    <3>2. m_state[c] # RDCS_CONNECTED
      BY <3>1 DEF RDCS_COMPRESS_MODE, RDCS_TRANSFER, RDCS_CONNECTED
    <3> QED
      BY <1>0, <1>1, <3>1, <3>2 DEF SyncInv, LoopInv, ClosedInv
  <2>4. \A d : ~Compresses(d) /\ ~Clips(d) /\ d \notin ui.todo
    BY <1>1, UiFreeFields DEF Compresses, Clips
  <2>5. /\ InFlight(c) \in Seq(ServerCommand) /\ feedBar[c] = ImgsOf(InFlight(c))
    BY <2>3, <2>4, FeedIsImgs
  <2>6. Compresses(c)' /\ Pictured(c)' = m_pBuffer /\ c \in Fed'
    <3>1. Compresses(c)'
      BY <2>2 DEF Compresses
    <3>2. Pictured(c)' = m_pBuffer
      BY <2>2, <3>1 DEF Pictured
    <3> QED
      BY <1>1, <1>4, <2>3, <3>1, <3>2 DEF Fed
  <2>7. feedBar'[c] = Append(feedBar[c], m_pBuffer)
    <3>1. FeedOf(c)' = ImgsOf(InFlight(c)) \o <<m_pBuffer>>
      BY <1>2, <2>2, <2>6, FeedOfImgs
    <3> QED
      BY <2>5, <2>6, <3>1, ImgsLast, Entries
  <2>8. contentBar'[c] = m_pBuffer /\ lostBar'[c] = {}
    BY <2>6, Entries DEF LostOf
  <2>9. ASSUME NEW d \in Client \ {c} PROVE SameEntry(d)
    <3>1. ~Compresses(d)' /\ ~Compresses(d) /\ m_pnModifiedBlocks'[d] = m_pnModifiedBlocks[d]
      BY <2>1, <2>2, <2>4 DEF Compresses
    <3>2. StaleOf(d)' = StaleOf(d)
      BY <1>1, <2>2, <2>4, <3>1 DEF StaleOf
    <3> QED
      BY <1>1, <1>2, <3>1, <3>2, EntryFrame
  <2>10. Feed!Picture({c})
    <3>1. /\ feedBar' = [d \in Client |-> IF d \in {c} THEN Append(feedBar[d], m_pBuffer) ELSE feedBar[d]]
          /\ contentBar' = [d \in Client |-> IF d \in {c} THEN m_pBuffer ELSE contentBar[d]]
          /\ lostBar' = [d \in Client |-> IF d \in {c} THEN {} ELSE lostBar[d]]
      BY <2>7, <2>8, <2>9, BarShape DEF SameEntry
    <3>2. staleBar' \in [Client -> SUBSET Block]
      BY DEF staleBar, StaleOf
    <3>3. \A d \in Client \ {c} : staleBar'[d] = staleBar[d]
      BY <2>9 DEF SameEntry
    <3> QED
      BY <1>1, <1>4, <2>3, <3>1, <3>2, <3>3 DEF Feed!Picture
  <2> QED
    BY <1>1, <2>10, MappedStep
<1> QED
  BY <1>3, <1>4

\* The first capture goes to all that wait for it.
LEMMA RefineFirstBitmap ==
    ASSUME RefineInv, OnFirstBitmap
    PROVE  Mapped
<1> DEFINE S == FirstBitmapReceivers
           m == Image(RDCC_TRANSFER_BITMAP, m_pBuffer)
<1>0. SyncInv /\ TypeOK /\ m_mapClient \subseteq Client /\ m_pBuffer # Null /\ m_pBuffer \in [Block -> Pixels]
  <2>1. SyncInv /\ TypeOK /\ m_mapClient \subseteq Client /\ m_pBuffer # Null
    BY DEF RefineInv, DeliveryInv, SyncInv, TypeOK, BufferInv, OnFirstBitmap
  <2> QED
    BY <2>1, PictureIsImage DEF TypeOK
<1>1. /\ UNCHANGED <<m_pBuffer, m_mapClient, view, crashed, notices, ui, s2c>>
      /\ ~crashed /\ ui = UiFree /\ QueuePicture(S, m_pBuffer)
      /\ m_pnModifiedBlocks' = [c \in Client |-> IF c \in S THEN <<>> ELSE m_pnModifiedBlocks[c]]
      /\ garbled' = [c \in Client |-> c \notin S /\ garbled[c]]
  BY DEF OnFirstBitmap, ForgetModifiedBlocks, cliVars
<1>2. \A d : ~Compresses(d) /\ ~Clips(d) /\ ~Compresses(d)' /\ ~Clips(d)'
  BY <1>1, UiFreeFields DEF Compresses, Clips
<1>3. S \in SUBSET m_mapClient /\ S \in SUBSET Client
      /\ \A d \in S : m_state[d] = RDCS_TRANSFER /\ m_pAsynSendCommandEvent[d]
  BY <1>0 DEF FirstBitmapReceivers, RefineInv, DeliveryInv, HandshakeInv, MapInv
<1> HIDE DEF S
<1>4. ASSUME NEW d \in S
      PROVE  /\ feedBar'[d] = Append(feedBar[d], m_pBuffer) /\ contentBar'[d] = m_pBuffer
             /\ lostBar'[d] = {}
  <2>1. InFlight(d) \in Seq(ServerCommand) /\ feedBar[d] = ImgsOf(InFlight(d)) /\ d \in Client
    BY <1>2, <1>3, FeedIsImgs
  <2>2. InFlight(d)' = Append(InFlight(d), m)
    BY <1>0, <1>1, <1>3, PictureInFlight
  <2>3. m \in ServerCommand /\ m.img = m_pBuffer
    BY <1>0, ServerCommands DEF Image
  <2> HIDE DEF m
  <2>4. ImgsOf(Append(InFlight(d), m)) = Append(feedBar[d], m_pBuffer)
    BY <2>1, <2>3, ImgsAppend
  <2>5. Append(InFlight(d), m) \in Seq(ServerCommand)
    BY <2>1, <2>3
  <2>6. FeedOf(d)' = ImgsOf(InFlight(d)') \o <<>>
    BY <1>2, <2>1, FeedOfImgs
  <2>7. FeedOf(d)' = Append(feedBar[d], m_pBuffer)
    BY <2>2, <2>4, <2>5, <2>6, ImgsLast
  <2>8. sent'[d] = m_pBuffer /\ lost'[d] = {} /\ ~garbled'[d]
    BY <1>1, <2>1 DEF QueuePicture
  <2>9. Pictured(d)' = m_pBuffer
    BY <1>2, <2>8 DEF Pictured
  <2>10. d \in Fed' /\ LostOf(d)' = {}
    BY <1>0, <1>1, <1>2, <1>3, <2>8, <2>9 DEF Fed, LostOf
  <2> QED
    BY <2>1, <2>7, <2>9, <2>10, Entries
<1>5. ASSUME NEW d \in Client \ S PROVE SameEntry(d)
  <2>1. InFlight(d)' = InFlight(d)
    BY <1>0, <1>1, <1>3, PictureInFlight
  <2>2. m_pnModifiedBlocks'[d] = m_pnModifiedBlocks[d] /\ sent'[d] = sent[d] /\ lost'[d] = lost[d]
    BY <1>1 DEF QueuePicture
  <2>3. garbled'[d] = garbled[d]
    BY <1>0, <1>1, Zenon DEF TypeOK
  <2>4. StaleOf(d)' = StaleOf(d)
    BY <1>1, <2>2, StaleFrame
  <2> QED
    BY <1>1, <1>2, <2>1, <2>2, <2>3, <2>4, EntryFrame
<1>6. Feed!Picture(S)
  <2>1. /\ feedBar' = [d \in Client |-> IF d \in S THEN Append(feedBar[d], m_pBuffer) ELSE feedBar[d]]
        /\ contentBar' = [d \in Client |-> IF d \in S THEN m_pBuffer ELSE contentBar[d]]
        /\ lostBar' = [d \in Client |-> IF d \in S THEN {} ELSE lostBar[d]]
    BY <1>4, <1>5, BarShape DEF SameEntry
  <2>2. staleBar' \in [Client -> SUBSET Block]
    BY DEF staleBar, StaleOf
  <2>3. \A d \in Client \ S : staleBar'[d] = staleBar[d]
    BY <1>5 DEF SameEntry
  <2> QED
    BY <1>0, <1>1, <1>3, <2>1, <2>2, <2>3 DEF Feed!Picture
<1> QED
  BY <1>1, <1>3, <1>6, MappedStep

\* The picture being compressed is queued as it was begun, or is read from freed memory.
LEMMA RefineCompress ==
    ASSUME RefineInv, NEW c \in Client, JPEG_Compress(c)
    PROVE  Mapped
<1> DEFINE torn == [b \in Block |-> Torn]
<1>0. SyncInv /\ TypeOK /\ m_mapClient \subseteq Client
  BY DEF RefineInv, DeliveryInv, SyncInv, TypeOK
<1>1. /\ UNCHANGED <<m_pBuffer, m_mapClient, view, crashed, notices, s2c, m_pnModifiedBlocks>>
      /\ ~crashed /\ ui.pc = "compress" /\ ui.conn = c /\ ui' = UiFree
  BY DEF JPEG_Compress, capVars, cliVars
<1>2. PICK img \in {ui.img, torn} :
        QueuePicture({c}, img) /\ garbled' = [garbled EXCEPT ![c] = img # ui.img]
  BY DEF JPEG_Compress
<1>3. c \in m_mapClient /\ ui.todo = {} /\ ui.img \in Bitmap /\ m_pAsynSendCommandEvent[c] /\ m_pBuffer # Null
  BY <1>0, <1>1 DEF SyncInv, HandlerInv, RefineInv, DeliveryInv, HandshakeInv, MapInv
<1>4. img \in [Block -> Pixels] /\ img # Null /\ ui.img # Null
  BY <1>3, PictureIsImage DEF Pixels
<1>5. Compresses(c) /\ c \in Fed /\ Pictured(c) = ui.img
  BY <1>1, <1>3, <1>4 DEF Compresses, Fed, Pictured
<1>6. \A d : ~Compresses(d)' /\ ~Clips(d)' /\ ~Clips(d) /\ (d # c => ~Compresses(d)) /\ d \notin ui'.todo
  BY <1>1, UiFreeFields DEF Compresses, Clips
<1>7. ASSUME NEW d \in Client PROVE StaleOf(d)' = StaleOf(d)
  BY <1>1, <1>3, <1>6 DEF StaleOf
<1>8. /\ sent'[c] = img /\ lost'[c] = {} /\ (garbled'[c] <=> img # ui.img)
      /\ \A d \in Client \ {c} : sent'[d] = sent[d] /\ lost'[d] = lost[d] /\ garbled'[d] = garbled[d]
  <2>1. /\ sent'[c] = img /\ lost'[c] = {}
        /\ \A d \in Client \ {c} : sent'[d] = sent[d] /\ lost'[d] = lost[d]
    BY <1>2 DEF QueuePicture
  <2>2. garbled \in [Client -> BOOLEAN]
    BY <1>0 DEF TypeOK
  <2>3. (garbled'[c] <=> img # ui.img) /\ \A d \in Client \ {c} : garbled'[d] = garbled[d]
    BY <1>2, <2>2
  <2> QED
    BY <2>1, <2>3
<1>9. ASSUME NEW d \in Client \ {c} PROVE SameEntry(d)
  <2>1. InFlight(d)' = InFlight(d)
    BY <1>0, <1>1, <1>2, <1>4, PictureInFlight
  <2> QED
    BY <1>1, <1>6, <1>7, <1>8, <2>1, EntryFrame
<1>10. Pictured(c)' = img /\ c \in Fed' /\ LostOf(c)' = (IF img # ui.img THEN Block ELSE {})
  <2>1. Pictured(c)' = img
    BY <1>6, <1>8 DEF Pictured
  <2> QED
    BY <1>1, <1>3, <1>4, <1>6, <1>8, <2>1 DEF Fed, LostOf
<1> DEFINE imgs == ImgsOf(InFlight(c))
           m == Image(RDCC_TRANSFER_BITMAP, img)
<1>11. feedBar[c] = Append(imgs, ui.img) /\ feedBar'[c] = Append(imgs, img)
  <2>1. InFlight(c) \in Seq(ServerCommand) /\ InFlight(c)' = Append(InFlight(c), m)
    BY <1>0, <1>1, <1>2, <1>3, <1>4, PictureInFlight
  <2>2. m \in ServerCommand /\ m.img = img
    BY <1>4, ServerCommands DEF Image
  <2> HIDE DEF m
  <2>3. FeedOf(c) = imgs \o <<ui.img>>
    BY <1>5, FeedOfImgs DEF Imgs
  <2>4. ImgsOf(Append(InFlight(c), m)) = Append(imgs, img) /\ Append(InFlight(c), m) \in Seq(ServerCommand)
    BY <2>1, <2>2, ImgsAppend
  <2>5. FeedOf(c)' = ImgsOf(InFlight(c)') \o <<>>
    BY <1>6, FeedOfImgs
  <2>6. FeedOf(c)' = Append(imgs, img)
    BY <2>1, <2>4, <2>5, ImgsLast
  <2>7. FeedOf(c) = Append(imgs, ui.img)
    BY <2>1, <2>3, ImgsLast
  <2> QED
    BY <1>5, <1>10, <2>6, <2>7, Entries
<1>12. /\ contentBar[c] = ui.img /\ contentBar'[c] = img /\ lostBar[c] = {}
       /\ lostBar'[c] = (IF img # ui.img THEN Block ELSE {}) /\ staleBar'[c] = staleBar[c]
  BY <1>5, <1>7, <1>10, Entries DEF LostOf
<1> HIDE DEF imgs
<1>13. CASE img = ui.img
  <2>1. \A d \in Client : SameEntry(d)
    BY <1>9, <1>11, <1>12, <1>13 DEF SameEntry
  <2> QED
    BY <1>1, <2>1, MappedStutter
<1>14. CASE img # ui.img
  <2>1. img = torn
    BY <1>14
  <2>2. feedBar[c] # <<>> /\ SubSeq(feedBar[c], 1, Len(feedBar[c]) - 1) = imgs
    <3>1. InFlight(c) \in Seq(ServerCommand)
      BY <1>0, InFlightType
    <3> QED
      BY <1>11, <3>1, ImgsLast DEF imgs
  <2>3. feedBar'[c] = Append(SubSeq(feedBar[c], 1, Len(feedBar[c]) - 1), torn)
    BY <1>11, <2>1, <2>2
  <2>4. /\ feedBar' = [feedBar EXCEPT ![c] = feedBar'[c]] /\ contentBar' = [contentBar EXCEPT ![c] = contentBar'[c]]
        /\ staleBar' = [staleBar EXCEPT ![c] = staleBar'[c]] /\ lostBar' = [lostBar EXCEPT ![c] = lostBar'[c]]
    BY <1>9, OneEntry
  <2>5. staleBar' = staleBar
    BY <1>12, <2>4, BarShape
  <2>6. feedBar' = [feedBar EXCEPT ![c] = Append(SubSeq(@, 1, Len(@) - 1), torn)]
    BY <2>3, <2>4
  <2>7. contentBar' = [contentBar EXCEPT ![c] = torn] /\ lostBar' = [lostBar EXCEPT ![c] = Block]
    BY <1>12, <1>14, <2>1, <2>4
  <2>8. Feed!Spoil(c)
    BY <1>1, <1>3, <2>2, <2>5, <2>6, <2>7 DEF Feed!Spoil
  <2> QED
    BY <1>1, <2>8, MappedStep
<1> QED
  BY <1>13, <1>14

\* The server is killed.
LEMMA RefineCrash ==
    ASSUME RefineInv, JPEG_CompressFaults \/ \E c \in Client : OnScreenModifiedNull(c)
    PROVE  Mapped
<1>1. /\ UNCHANGED <<m_pBuffer, m_mapClient, view, notices, ui, s2c, m_queueAsynCommand, m_pnModifiedBlocks,
                     sent, lost, garbled>>
      /\ ~crashed /\ crashed' = TRUE
  BY Zenon DEF JPEG_CompressFaults, OnScreenModifiedNull, capVars, connVars, cliVars
<1>2. ASSUME NEW d \in Client PROVE SameEntry(d)
  <2>1. (Compresses(d)' <=> Compresses(d)) /\ InFlight(d)' = InFlight(d)
    BY <1>1 DEF Compresses, InFlight
  <2>2. StaleOf(d)' = StaleOf(d)
    BY <1>1, StaleFrame
  <2> QED
    BY <1>1, <2>1, <2>2, EntryFrame
<1>3. Feed!Crash
  BY <1>1, <1>2, NoEntry DEF Feed!Crash
<1> QED
  BY <1>1, <1>3, MappedStep

\* A capture makes the blocks it changes stale.
LEMMA RefineCapture ==
    ASSUME RefineInv, CaptureThread
    PROVE  Mapped
<1>0. SyncInv /\ TypeOK /\ m_mapClient \subseteq Client /\ notices \in Seq((SUBSET Block) \ {{}})
  BY DEF RefineInv, DeliveryInv, SyncInv, TypeOK
<1>1. ~crashed /\ UNCHANGED <<m_mapClient, view, crashed, m_pnModifiedBlocks, sent, lost, garbled, s2c, m_queueAsynCommand>>
  BY Zenon DEF CaptureThread, CaptureFirst, CaptureSwap, connVars, cliVars
<1>2. /\ ui'.pc = ui.pc /\ ui'.conn = ui.conn /\ ui'.img = ui.img
      /\ ui'.todo = ui.todo /\ ui'.blocks = ui.blocks
  <2>1. ui' = ui \/ ui' = [ui EXCEPT !.torn = TRUE]
    BY DEF CaptureThread, CaptureFirst, CaptureSwap, Overtake
  <2> QED
    BY <1>0, <2>1 DEF TypeOK
<1>3. ASSUME NEW d \in Client
      PROVE  /\ (Compresses(d)' <=> Compresses(d)) /\ (Clips(d)' <=> Clips(d)) /\ InFlight(d)' = InFlight(d)
             /\ (d \in Fed' <=> d \in Fed) /\ Pictured(d)' = Pictured(d)
             /\ FeedOf(d)' = FeedOf(d) /\ LostOf(d)' = LostOf(d)
  <2>1. (Compresses(d)' <=> Compresses(d)) /\ (Clips(d)' <=> Clips(d)) /\ InFlight(d)' = InFlight(d)
    BY <1>1, <1>2 DEF Compresses, Clips, InFlight
  <2>2. (d \in Fed' <=> d \in Fed) /\ Pictured(d)' = Pictured(d)
    BY <1>1, <1>2, <2>1, FedFrame
  <2>3. FeedOf(d)' = FeedOf(d) /\ LostOf(d)' = LostOf(d)
    BY <1>1, <1>2, <2>1 DEF FeedOf, LostOf
  <2> QED
    BY <2>1, <2>2, <2>3
<1>4. UNCHANGED <<feedBar, contentBar, lostBar>>
  <2>1. \A d \in Client : feedBar'[d] = feedBar[d] /\ contentBar'[d] = contentBar[d] /\ lostBar'[d] = lostBar[d]
    BY <1>3, Entries
  <2> QED
    BY <2>1, BarShape
<1>5. \A d \in Client : contentBar[d] = Null <=> d \notin Fed
  BY Entries DEF Fed
<1>6. CASE CaptureFirst
  <2>1. m_pBuffer = Null /\ m_pBuffer' \in Bitmap
    BY <1>6 DEF CaptureFirst
  <2>2. m_pBuffer' # m_pBuffer
    BY <2>1, PictureIsImage
  <2>3. \A d \in Client : d \notin Fed /\ d \notin Fed'
    BY <1>3, <2>1, FedHasPicture
  <2>4. \A d \in Client : contentBar[d] = Null /\ staleBar'[d] = {}
    BY <1>5, <2>3, Entries
  <2>5. Feed!Capture
    BY <1>1, <1>4, <2>1, <2>2, <2>4, BarShape DEF Feed!Capture, Feed!Bitmap, Bitmap
  <2> QED
    BY <1>1, <2>5, MappedStep
<1>7. CASE CaptureSwap
  <2>1. PICK new \in Bitmap :
          /\ m_pBuffer' = new /\ m_pBuffer # Null
          /\ notices' = IF ModifiedBlocks(new, m_pBuffer) = {} THEN notices
                        ELSE Append(notices, ModifiedBlocks(new, m_pBuffer))
    BY <1>7 DEF CaptureSwap
  <2>2. m_pBuffer \in Bitmap
    BY <1>0, <2>1 DEF TypeOK
  <2> DEFINE e == ModifiedBlocks(new, m_pBuffer)
  <2>3. e = {b \in Block : new[b] # m_pBuffer[b]}
    BY DEF ModifiedBlocks, Bitmap
  <2>4. e = {} <=> new = m_pBuffer
    <3>1. e = {} => \A b \in Block : new[b] = m_pBuffer[b]
      BY <2>3
    <3> HIDE DEF e
    <3>2. (\A b \in Block : new[b] = m_pBuffer[b]) => new = m_pBuffer
      BY <2>2 DEF Bitmap
    <3> QED
      BY <2>3, <3>1, <3>2
  <2> HIDE DEF e
  <2>5. \A b : Noticed(b)' <=> Noticed(b) \/ b \in e
    <3>1. CASE e = {}
      BY <2>1, <3>1 DEF Noticed, e
    <3>2. CASE e # {}
      <4>1. notices' = Append(notices, e)
        BY <2>1, <3>2 DEF e
      <4>2. /\ Len(notices') = Len(notices) + 1 /\ notices'[Len(notices) + 1] = e /\ Len(notices) \in Nat
            /\ \A i \in 1..Len(notices) : notices'[i] = notices[i]
        BY <1>0, <4>1
      <4>3. 1..Len(notices') = 1..Len(notices) \cup {Len(notices) + 1}
        BY <4>2
      <4> QED
        BY <4>2, <4>3, Zenon DEF Noticed
    <3> QED
      BY <3>1, <3>2
  <2>6. ASSUME NEW d \in Client PROVE StaleOf(d)' = StaleOf(d) \cup e
    <3>1. \A b : b \in StaleOf(d)' <=> b \in StaleOf(d) \/ b \in e
      BY <1>1, <1>2, <1>3, <2>3, <2>5, StaleIs
    <3> QED
      BY <3>1
  <2>7. \A d \in Client : staleBar'[d] = IF contentBar[d] = Null THEN {} ELSE staleBar[d] \cup e
    BY <1>3, <1>5, <2>6, Entries
  <2>8. CASE e = {}
    <3>1. \A d \in Client : staleBar'[d] = staleBar[d]
      BY <1>5, <2>7, <2>8, Entries
    <3>2. UNCHANGED <<staleBar, m_pBuffer>>
      BY <2>1, <2>4, <2>8, <3>1, BarShape
    <3> QED
      BY <1>1, <1>4, <3>2 DEF Mapped, Feed!vars
  <2>9. CASE e # {}
    <3>1. staleBar' = [d \in Client |-> IF contentBar[d] = Null THEN {}
                                        ELSE staleBar[d] \cup {b \in Block : m_pBuffer'[b] # m_pBuffer[b]}]
      BY <2>1, <2>3, <2>7, BarShape
    <3>2. Feed!Capture
      BY <1>1, <1>4, <2>1, <2>4, <2>9, <3>1 DEF Feed!Capture, Feed!Bitmap, Bitmap
    <3> QED
      BY <1>1, <3>2, MappedStep
  <2> QED
    BY <2>8, <2>9
<1> QED
  BY <1>6, <1>7 DEF CaptureThread

\* The merge invents no block.
LEMMA AddedFrom ==
    ASSUME NEW cap \in Nat, NEW old \in Seq(0..cap - 1), NEW blocks \in SUBSET (0..cap - 1)
    PROVE  ToSet(AddModifiedBlocks(old, Ascending(blocks), cap)) \subseteq ToSet(old) \cup blocks
<1> DEFINE B == ToSet(old) \cup blocks
           new == Ascending(blocks)
<1>1. IsFiniteSet(blocks) /\ blocks \subseteq Nat
  <2>1. IsFiniteSet(0..cap - 1)
    BY FS_Interval
  <2>2. IsFiniteSet(blocks)
    BY <2>1, FS_Subset
  <2>3. blocks \subseteq Nat
    OBVIOUS
  <2> QED
    BY <2>2, <2>3
<1>2. new \in Seq(blocks) /\ ToSet(new) = blocks
  BY <1>1, AscendingIsList
<1>3. DOMAIN old = 1..Len(old) /\ Len(old) \in Nat /\ old = [i \in 1..Len(old) |-> old[i]]
      /\ \A i \in 1..Len(old) : old[i] \in 0..cap - 1
  OBVIOUS
<1>4. ToSet(old) = {old[i] : i \in 1..Len(old)}
  BY <1>3 DEF ToSet
<1>5. old \in Seq(B)
  <2>1. \A i \in 1..Len(old) : old[i] \in B
    BY <1>4
  <2>2. old \in [1..Len(old) -> B]
    BY <1>3, <2>1
  <2> QED
    BY <1>3, <2>2
<1>6. B \subseteq Nat
  BY <1>1, <1>3, <1>4
<1>7. new \in Seq(B)
  BY <1>2, SeqSubset
<1>8. CASE old = <<>>
  BY <1>2, <1>8 DEF AddModifiedBlocks
<1>9. CASE old # <<>>
  <2> HIDE DEF B, new
  <2>1. AddModifiedBlocks(old, new, cap) = MergeSteps(old, new, cap)
    BY <1>9 DEF AddModifiedBlocks, MergeModifiedBlocks
  <2>2. MergeSteps(old, new, cap) \in Seq(B)
    BY <1>5, <1>6, <1>7, MergeType
  <2>3. ToSet(MergeSteps(old, new, cap)) \subseteq B
    BY <2>2 DEF ToSet
  <2> QED
    BY <2>1, <2>3 DEF B, new
<1> QED
  BY <1>8, <1>9

\* The blocks of a message pass into the hands of the loop.
LEMMA RefineModified ==
    ASSUME RefineInv, OnModified
    PROVE  Mapped
<1>0. SyncInv /\ TypeOK /\ m_mapClient \subseteq Client /\ notices \in Seq((SUBSET Block) \ {{}})
  BY DEF RefineInv, DeliveryInv, SyncInv, TypeOK
<1>1. /\ ~crashed /\ ui = UiFree /\ notices # <<>> /\ notices' = Tail(notices)
      /\ UNCHANGED <<m_pBuffer, m_mapClient, view, crashed, m_pnModifiedBlocks, sent, lost, garbled, s2c, m_queueAsynCommand>>
      /\ ui' = IF m_mapClient = {} THEN UiFree
               ELSE [UiFree EXCEPT !.pc = "notify", !.todo = m_mapClient, !.blocks = Head(notices)]
  BY DEF OnModified, connVars, cliVars
<1>2. \A b : Noticed(b) <=> Noticed(b)' \/ b \in Head(notices)
  <2>1. /\ Len(notices) \in Nat /\ Len(notices) >= 1 /\ Head(notices) = notices[1] /\ Len(notices') = Len(notices) - 1
        /\ \A i \in 1..Len(notices) - 1 : notices'[i] = notices[i + 1]
    BY <1>0, <1>1
  <2>2. ASSUME NEW b, Noticed(b) PROVE Noticed(b)' \/ b \in Head(notices)
    <3>1. PICK i \in 1..Len(notices) : b \in notices[i]
      BY <2>2 DEF Noticed
    <3>2. CASE i = 1
      BY <2>1, <3>1, <3>2
    <3>3. CASE i # 1
      <4>1. i - 1 \in 1..Len(notices) - 1 /\ (i - 1) + 1 = i
        BY <2>1, <3>3
      <4>2. notices'[i - 1] = notices[i]
        BY <2>1, <4>1
      <4> QED
        BY <2>1, <3>1, <4>1, <4>2 DEF Noticed
    <3> QED
      BY <3>2, <3>3
  <2>3. ASSUME NEW b, b \in Head(notices) PROVE Noticed(b)
    BY <2>1, <2>3 DEF Noticed
  <2>4. ASSUME NEW b, Noticed(b)' PROVE Noticed(b)
    <3>1. PICK i \in 1..Len(notices') : b \in notices'[i]
      BY <2>4 DEF Noticed
    <3>2. i + 1 \in 1..Len(notices) /\ notices'[i] = notices[i + 1]
      BY <2>1, <3>1
    <3> QED
      BY <3>1, <3>2 DEF Noticed
  <2> QED
    BY <2>2, <2>3, <2>4
<1>3. \A d : ~Compresses(d) /\ ~Compresses(d)' /\ ~Clips(d) /\ ~Clips(d)' /\ d \notin ui.todo
  BY <1>1, UiFreeFields DEF Compresses, Clips, UiFree
<1>4. ASSUME NEW d \in Client PROVE SameEntry(d)
  <2>1. ASSUME d \in Fed PROVE StaleOf(d)' = StaleOf(d)
    <3>1. ui'.todo = m_mapClient /\ ui'.blocks = Head(notices) /\ d \in m_mapClient
      BY <1>1, <2>1 DEF UiFree, Fed
    <3>2. \A b : b \in StaleOf(d)' <=> b \in StaleOf(d)
      BY <1>1, <1>2, <1>3, <3>1, StaleIs
    <3> QED
      BY <3>2
  <2>2. InFlight(d)' = InFlight(d)
    BY <1>1 DEF InFlight
  <2> QED
    BY <1>1, <1>3, <2>1, <2>2, EntryFrame
<1> QED
  BY <1>1, <1>4, MappedStutter

\* A block has been clipped.
LEMMA RefineClip ==
    ASSUME RefineInv, ClipBitmapRect
    PROVE  Mapped
<1>0. TypeOK
  BY DEF RefineInv, DeliveryInv, SyncInv
<1>1. /\ UNCHANGED <<m_pBuffer, m_mapClient, view, crashed, notices, m_pnModifiedBlocks, sent, lost, garbled, s2c,
                     m_queueAsynCommand>>
      /\ ui.pc = "clip" /\ ui'.pc = "clip" /\ ui'.conn = ui.conn /\ ui'.todo = ui.todo /\ ui'.blocks = ui.blocks
  <2>1. /\ UNCHANGED <<m_pBuffer, m_mapClient, view, crashed, notices, m_pnModifiedBlocks, sent, lost, garbled, s2c,
                       m_queueAsynCommand>>
        /\ ui.pc = "clip"
    BY Zenon DEF ClipBitmapRect, capVars, connVars, cliVars
  <2>2. \E n, img : ui' = [ui EXCEPT !.next = n, !.torn = FALSE, !.img = img]
    BY DEF ClipBitmapRect
  <2> QED
    BY <1>0, <2>1, <2>2 DEF TypeOK
<1>2. ASSUME NEW d \in Client PROVE SameEntry(d)
  <2>1. ~Compresses(d) /\ ~Compresses(d)' /\ (Clips(d)' <=> Clips(d)) /\ InFlight(d)' = InFlight(d)
    BY <1>1 DEF Compresses, Clips, InFlight
  <2>2. StaleOf(d)' = StaleOf(d)
    BY <1>1, <2>1 DEF StaleOf
  <2> QED
    BY <1>1, <2>1, <2>2, EntryFrame
<1> QED
  BY <1>1, <1>2, MappedStutter

\* Another connection than the one the loop is at.
LEMMA RefineOthers ==
    ASSUME RefineInv, NEW c \in Client, NEW d \in Client \ {c},
           ui.pc \in {"notify", "clip"}, ui.pc = "clip" => ui.conn = c,
           \/ ui' = LoopAfter(c)
           \/ /\ ui'.pc = "clip" /\ ui'.conn = c
              /\ ui'.todo = ui.todo /\ ui'.blocks = ui.blocks,
           UNCHANGED <<notices, m_mapClient, garbled>>,
           m_pnModifiedBlocks'[d] = m_pnModifiedBlocks[d], sent'[d] = sent[d],
           lost'[d] = lost[d], InFlight(d)' = InFlight(d)
    PROVE  SameEntry(d)
<1>0. TypeOK
  BY DEF RefineInv, DeliveryInv, SyncInv
<1>1. ~Compresses(d) /\ ~Clips(d)
  BY DEF Compresses, Clips
<1>2. ~Compresses(d)' /\ ~Clips(d)'
  BY <1>0, LoopAfterUi DEF Compresses, Clips
<1>3. (d \in ui'.todo <=> d \in ui.todo) /\ (d \in ui.todo => ui'.blocks = ui.blocks)
  BY <1>0, LoopAfterUi
<1>4. \A b : b \in StaleOf(d)' <=> b \in StaleOf(d)
  BY <1>1, <1>2, <1>3, StaleIs DEF Noticed
<1>5. StaleOf(d)' = StaleOf(d)
  BY <1>4
<1> QED
  BY <1>1, <1>2, <1>5, EntryFrame

\* The blocks in hand join the list, which drops some when it is full.
LEMMA RefineScreenModified ==
    ASSUME RefineInv, NEW c \in Client, OnScreenModified(c)
    PROVE  Mapped
<1> DEFINE old == m_pnModifiedBlocks[c]
           new == AddModifiedBlocks(old, Ascending(ui.blocks), BlockCount)
<1>0. SyncInv /\ TypeOK /\ m_mapClient \subseteq Client
  BY DEF RefineInv, DeliveryInv, SyncInv, TypeOK
<1>1. /\ ~crashed /\ ui.pc = "notify" /\ c \in ui.todo /\ old # Null
      /\ m_pnModifiedBlocks' = [m_pnModifiedBlocks EXCEPT ![c] = new]
      /\ lost' = [lost EXCEPT ![c] = (@ \cup ToSet(old) \cup ui.blocks) \ ToSet(new)]
      /\ UNCHANGED <<m_pBuffer, m_mapClient, view, crashed, notices, sent, garbled, s2c, m_queueAsynCommand>>
  BY DEF OnScreenModified, capVars, cliVars
<1>2. ui' = [ui EXCEPT !.pc = "clip", !.conn = c] \/ ui' = LoopAfter(c)
  BY DEF OnScreenModified
<1>3. m_pnModifiedBlocks'[c] = new /\ lost'[c] = (lost[c] \cup ToSet(old) \cup ui.blocks) \ ToSet(new)
      /\ \A d \in Client \ {c} : m_pnModifiedBlocks'[d] = m_pnModifiedBlocks[d] /\ lost'[d] = lost[d]
  BY <1>0, <1>1 DEF TypeOK
<1>4. /\ new \in Seq(Block) /\ ToSet(new) \subseteq ToSet(old) \cup ui.blocks
      /\ ToSet(old) \subseteq Block /\ ui.blocks \subseteq Block
  <2>1. old \in Seq(Block) /\ Len(old) <= BlockCount /\ ui.blocks \in SUBSET Block
    BY <1>0, <1>1 DEF TypeOK
  <2>2. new \in Seq(Block)
    BY <2>1, AddedBlocks, ScreenSyncAssumption DEF Block
  <2>3. ToSet(new) \subseteq ToSet(old) \cup ui.blocks
    BY <2>1, AddedFrom, ScreenSyncAssumption DEF Block
  <2> HIDE DEF old, new
  <2> QED
    BY <2>1, <2>2, <2>3 DEF ToSet
<1>5. new # Null
  <2> HIDE DEF new
  <2> QED
    BY <1>4, PictureIsImage
<1> HIDE DEF old, new
<1>6. \/ ui' = LoopAfter(c)
      \/ ui'.pc = "clip" /\ ui'.conn = c /\ ui'.todo = ui.todo /\ ui'.blocks = ui.blocks
  BY <1>0, <1>2 DEF TypeOK
<1>7. ASSUME NEW d \in Client PROVE InFlight(d)' = InFlight(d)
  BY <1>1 DEF InFlight
<1>8. \A d \in Client \ {c} : SameEntry(d)
  BY <1>1, <1>3, <1>6, <1>7, RefineOthers
<1>9. /\ ~Compresses(c) /\ ~Clips(c) /\ ~Compresses(c)' /\ (c \notin ui'.todo \/ Clips(c)')
  BY <1>0, <1>1, <1>6, LoopAfterUi DEF Compresses, Clips
<1>10. (c \in Fed' <=> c \in Fed) /\ Pictured(c)' = Pictured(c) /\ FeedOf(c)' = FeedOf(c)
  <2>1. (c \in Fed' <=> c \in Fed) /\ Pictured(c)' = Pictured(c)
    BY <1>1, <1>9, FedFrame
  <2> QED
    BY <1>7, <1>9, <2>1 DEF FeedOf
<1>11. CASE c \notin Fed
  <2>1. \A d \in Client : SameEntry(d)
    BY <1>8, <1>10, <1>11, UnfedEntry
  <2> QED
    BY <1>1, <2>1, MappedStutter
<1>12. CASE c \in Fed
  <2>1. /\ \A b : b \in StaleOf(c) <=> b \in Block /\ (Noticed(b) \/ b \in ui.blocks \/ b \in ToSet(old))
        /\ \A b : b \in StaleOf(c)' <=> b \in Block /\ (Noticed(b) \/ b \in ToSet(new))
    BY <1>1, <1>3, <1>5, <1>9, StaleIs DEF old, Noticed
  <2>2. /\ LostOf(c) = IF garbled[c] THEN Block ELSE lost[c]
        /\ LostOf(c)' = IF garbled[c] THEN Block ELSE lost'[c]
        /\ lost[c] \subseteq Block
    BY <1>0, <1>1, <1>9 DEF LostOf, TypeOK
  <2>3. /\ StaleOf(c)' \in SUBSET Block /\ LostOf(c)' \in SUBSET Block
        /\ StaleOf(c)' \cup LostOf(c)' = StaleOf(c) \cup LostOf(c)
    <3>1. CASE garbled[c]
      BY <2>1, <2>2, <3>1
    <3>2. CASE ~garbled[c]
      BY <1>3, <1>4, <2>1, <2>2, <3>2
    <3> QED
      BY <3>1, <3>2
  <2>4. /\ staleBar[c] = StaleOf(c) /\ staleBar'[c] = StaleOf(c)' /\ lostBar[c] = LostOf(c)
        /\ lostBar'[c] = LostOf(c)' /\ feedBar'[c] = feedBar[c] /\ contentBar'[c] = contentBar[c]
        /\ contentBar[c] # Null
    BY <1>10, <1>12, Entries DEF Fed
  <2>5. c \in m_mapClient
    BY <1>12 DEF Fed
  <2>6. UNCHANGED <<feedBar, contentBar>>
    BY <1>8, <2>4, BarShape DEF SameEntry
  <2>7. staleBar' = [staleBar EXCEPT ![c] = StaleOf(c)'] /\ lostBar' = [lostBar EXCEPT ![c] = LostOf(c)']
    BY <1>8, <2>4, OneEntry
  <2>8. Feed!Lose(c)
    BY <1>1, <2>3, <2>4, <2>5, <2>6, <2>7 DEF Feed!Lose
  <2> QED
    BY <1>1, <2>8, MappedStep
<1> QED
  BY <1>11, <1>12

\* An image of the blocks in the list is queued, and the list emptied.
LEMMA RefineModifyBitmap ==
    ASSUME RefineInv, NEW c \in Client, AsynSendTransterModifyBitmap(c)
    PROVE  Mapped
<1> DEFINE list == m_pnModifiedBlocks[c]
           m == Image(RDCC_TRANSFER_MODIFY_BITMAP, ui.img)
           s == InFlight(c)
<1>0. SyncInv /\ TypeOK /\ m_mapClient \subseteq Client
  BY DEF RefineInv, DeliveryInv, SyncInv, TypeOK
<1>1. /\ ~crashed /\ ui.pc = "clip" /\ ui.conn = c /\ ui.next > Len(list) /\ ui' = LoopAfter(c)
      /\ m_queueAsynCommand' = [m_queueAsynCommand EXCEPT ![c] = Append(@, m)]
      /\ m_pnModifiedBlocks' = [m_pnModifiedBlocks EXCEPT ![c] = <<>>]
      /\ sent' = [sent EXCEPT ![c] = Drawn(ui.img, @)]
      /\ UNCHANGED <<m_pBuffer, m_mapClient, view, crashed, notices, lost, garbled, s2c>>
  BY DEF AsynSendTransterModifyBitmap, capVars, cliVars
<1>2. /\ m_pnModifiedBlocks'[c] = <<>> /\ sent'[c] = Drawn(ui.img, sent[c])
      /\ m_queueAsynCommand'[c] = Append(m_queueAsynCommand[c], m)
      /\ \A d \in Client \ {c} : /\ m_pnModifiedBlocks'[d] = m_pnModifiedBlocks[d] /\ sent'[d] = sent[d]
                                 /\ m_queueAsynCommand'[d] = m_queueAsynCommand[d]
  BY <1>0, <1>1 DEF TypeOK
<1>3. /\ c \in ui.todo /\ sent[c] # Null /\ list # Null /\ ui.next \in 1..Len(list) + 1
      /\ DOMAIN ui.img = {list[i] : i \in 1..ui.next - 1}
      /\ ui.img \in PartialImage /\ sent[c] \in [Block -> Pixels] \cup {Null}
  BY <1>0, <1>1 DEF SyncInv, HandlerInv, TypeOK
<1>4. c \in m_mapClient /\ m_state[c] = RDCS_TRANSFER /\ Covered(c)
  BY <1>0, <1>1, <1>3 DEF SyncInv, LoopInv, LoopStaysInMap, RefineInv, DeliveryInv, HandshakeInv, Agreed, CoverInv
<1>5. DOMAIN ui.img = ToSet(list)
  <2>1. list \in Seq(Block)
    BY <1>0, <1>3 DEF TypeOK
  <2>2. Len(list) \in Nat /\ DOMAIN list = 1..Len(list)
    BY <2>1
  <2>3. ui.next - 1 = Len(list)
    BY <1>1, <1>3, <2>2
  <2> QED
    BY <1>3, <2>2, <2>3 DEF ToSet
<1>6. \A d \in Client \ {c} : SameEntry(d)
  <2>1. \A d \in Client \ {c} : InFlight(d)' = InFlight(d)
    BY <1>1, <1>2 DEF InFlight
  <2> QED
    BY <1>1, <1>2, <2>1, RefineOthers
<1>7. Clips(c) /\ ~Compresses(c) /\ ~Compresses(c)' /\ ~Clips(c)' /\ c \notin ui'.todo
  BY <1>0, <1>1, LoopAfterUi DEF Clips, Compresses
<1>8. /\ \A b : b \in StaleOf(c) <=> b \in Block /\ (Noticed(b) \/ b \in DOMAIN ui.img)
      /\ \A b : b \in StaleOf(c)' <=> b \in Block /\ Noticed(b)
  <2>1. ToSet(<<>>) = {}
    BY DEF ToSet
  <2> QED
    BY <1>1, <1>2, <1>3, <1>5, <1>7, <2>1, StaleIs DEF Noticed
<1>9. s \in Seq(ServerCommand) /\ feedBar[c] = ImgsOf(s) /\ c \in Fed
  BY <1>3, <1>4, <1>7, FeedIsImgs
<1>10. m \in ServerCommand /\ m.img = ui.img
  BY <1>3, ServerCommands DEF Image
<1> HIDE DEF m
<1>11. InFlight(c)' = Append(s, m)
  BY <1>0, <1>1, <1>2, <1>10, QueuedInFlight
<1>12. FeedOf(c)' = Append(feedBar[c], ui.img)
  <2>1. FeedOf(c)' = ImgsOf(Append(s, m)) \o <<>>
    BY <1>7, <1>11, FeedOfImgs
  <2>2. ImgsOf(Append(s, m)) = Append(feedBar[c], ui.img) /\ Append(s, m) \in Seq(ServerCommand)
    BY <1>9, <1>10, ImgsAppend
  <2> QED
    BY <2>1, <2>2, ImgsLast
<1>13. /\ Pictured(c) = sent[c] /\ Pictured(c)' = Drawn(ui.img, sent[c]) /\ c \in Fed'
       /\ LostOf(c)' = LostOf(c)
  <2>1. Pictured(c) = sent[c] /\ Pictured(c)' = Drawn(ui.img, sent[c])
    BY <1>2, <1>7 DEF Pictured
  <2>2. Drawn(ui.img, sent[c]) \in [Block -> Pixels]
    BY <1>3, DrawnPicture
  <2>3. c \in Fed'
    BY <1>1, <1>4, <2>1, <2>2, PictureIsImage DEF Fed
  <2> QED
    BY <1>1, <1>7, <2>1, <2>3 DEF LostOf
<1>14. /\ feedBar'[c] = Append(feedBar[c], ui.img) /\ contentBar[c] = sent[c]
       /\ contentBar'[c] = Drawn(ui.img, sent[c]) /\ lostBar'[c] = lostBar[c]
       /\ staleBar[c] = StaleOf(c) /\ staleBar'[c] = StaleOf(c)'
  BY <1>9, <1>12, <1>13, Entries
<1>15. /\ feedBar' = [feedBar EXCEPT ![c] = Append(@, ui.img)]
       /\ contentBar' = [contentBar EXCEPT ![c] = Drawn(ui.img, @)]
       /\ staleBar' = [staleBar EXCEPT ![c] = StaleOf(c)'] /\ lostBar' = lostBar
  <2>1. /\ feedBar' = [feedBar EXCEPT ![c] = feedBar'[c]] /\ contentBar' = [contentBar EXCEPT ![c] = contentBar'[c]]
        /\ staleBar' = [staleBar EXCEPT ![c] = staleBar'[c]] /\ lostBar' = [lostBar EXCEPT ![c] = lostBar'[c]]
    BY <1>6, OneEntry
  <2>2. feedBar' = [feedBar EXCEPT ![c] = Append(@, ui.img)]
    BY <1>14, <2>1
  <2>3. contentBar' = [contentBar EXCEPT ![c] = Drawn(ui.img, @)]
    BY <1>14, <2>1
  <2>4. lostBar' = lostBar
    BY <1>14, <2>1, BarShape
  <2> QED
    BY <1>14, <2>1, <2>2, <2>3, <2>4
<1>16. /\ ui.img \in UNION {[B -> Feed!Pixels] : B \in SUBSET staleBar[c]}
       /\ StaleOf(c)' \in SUBSET staleBar[c]
       /\ \A b \in staleBar[c] \ StaleOf(c)' : b \in DOMAIN ui.img /\ ui.img[b] = m_pBuffer[b]
  <2>1. ui.img = [b \in DOMAIN ui.img |-> ui.img[b]] /\ DOMAIN ui.img \subseteq Block
        /\ \A b \in DOMAIN ui.img : ui.img[b] \in Pixels
    BY <1>3, ImageShape
  <2>2. DOMAIN ui.img \in SUBSET staleBar[c] /\ StaleOf(c)' \in SUBSET staleBar[c]
    BY <1>8, <1>14, <2>1
  <2>3. ui.img \in [DOMAIN ui.img -> Feed!Pixels]
    BY <2>1 DEF Feed!Pixels, Pixels
  <2>4. \A b \in staleBar[c] \ StaleOf(c)' : b \in DOMAIN ui.img /\ ui.img[b] = m_pBuffer[b]
    BY <1>4, <1>7, <1>8, <1>14 DEF Covered, ClippedCovered
  <2> QED
    BY <2>2, <2>3, <2>4
<1>17. Feed!Update(c)
  <2>1. contentBar' = [contentBar EXCEPT ![c] = Feed!Over(ui.img, @)]
    BY <1>15 DEF Feed!Over, Drawn
  <2> QED
    BY <1>1, <1>3, <1>4, <1>14, <1>15, <1>16, <2>1 DEF Feed!Update
<1> QED
  BY <1>1, <1>17, MappedStep

\* The viewer draws an image; the answer to its logon is none.
LEMMA RefineReceive ==
    ASSUME RefineInv, NEW c \in Client, ClientOnReciveCommand(c)
    PROVE  Mapped
<1> DEFINE m == Head(s2c[c])
           s == InFlight(c)
<1>0. SyncInv /\ TypeOK /\ m_mapClient \subseteq Client /\ Agreed(c)
  BY DEF RefineInv, DeliveryInv, SyncInv, TypeOK, HandshakeInv
<1>1. /\ ~crashed /\ s2c[c] # <<>>
      /\ UNCHANGED <<m_pBuffer, m_mapClient, crashed, notices, ui, m_pnModifiedBlocks, sent, lost, garbled>>
  BY DEF ClientOnReciveCommand, capVars, connVars
<1>2. /\ s \in Seq(ServerCommand) /\ s # <<>> /\ Head(s) = m /\ InFlight(c)' = Tail(s) /\ m \in ServerCommand
      /\ \A d \in Client \ {c} : InFlight(d)' = InFlight(d)
  BY <1>0, ReceivedInFlight
<1>3. view' = view \/ view' = [view EXCEPT ![c] = ClientViewAfter(@, m)]
  BY DEF ClientOnReciveCommand, cliVars
<1>4. view \in [Client -> [Block -> Pixels] \cup {Null}] /\ view[c] \in [Block -> Pixels] \cup {Null}
  BY <1>0 DEF TypeOK
<1>5. view' = [view EXCEPT ![c] = view'[c]]
  BY <1>3, <1>4
<1>6. c \in m_mapClient
  BY <1>1 DEF RefineInv, FeedInv, ShutInv
<1>7. \A d \in Client : (Compresses(d)' <=> Compresses(d)) /\ StaleOf(d)' = StaleOf(d)
  BY <1>1, StaleFrame DEF Compresses
<1>8. \A d \in Client \ {c} : SameEntry(d)
  BY <1>1, <1>2, <1>7, EntryFrame
<1>9. \/ /\ UNCHANGED view
         /\ \/ m.code = RDCC_LOGON_RESULT
            \/ m.code = RDCC_TRANSFER_BITMAP /\ cliState[c] \notin {RDCS_COMPRESS_MODE, RDCS_TRANSFER}
            \/ m.code = RDCC_TRANSFER_MODIFY_BITMAP /\ cliState[c] # RDCS_TRANSFER
      \/ m.code = RDCC_LOGON_RESULT /\ view'[c] = view[c]
      \/ m.code = RDCC_TRANSFER_BITMAP /\ view'[c] = m.img
      \/ /\ m.code = RDCC_TRANSFER_MODIFY_BITMAP /\ cliState[c] = RDCS_TRANSFER
         /\ view'[c] = ClientViewAfter(view[c], m)
  BY <1>0, ClientReceives
<1> HIDE DEF m, s
<1>10. s[1] = m /\ 1 \in 1..Len(s)
  BY <1>2
<1>11. CASE m.code = RDCC_LOGON_RESULT
  <2>1. view'[c] = view[c]
    BY <1>9, <1>11 DEF RDCC_LOGON_RESULT, RDCC_TRANSFER_BITMAP, RDCC_TRANSFER_MODIFY_BITMAP
  <2>2. UNCHANGED view
    BY <1>4, <1>5, <2>1
  <2>3. c \notin Fed
    <3> SUFFICES ASSUME c \in Fed PROVE FALSE
      OBVIOUS
    <3>1. s[1].code \in ImageCodes
      BY <1>6, <1>10, FedHasPicture, OnlyImages DEF s
    <3> QED
      BY <1>10, <1>11, <3>1 DEF ImageCodes, RDCC_LOGON_RESULT, RDCC_TRANSFER_BITMAP, RDCC_TRANSFER_MODIFY_BITMAP
  <2>4. \A d \in Fed : InFlight(d)' = InFlight(d)
    BY <1>2, <2>3, FedHasPicture
  <2> QED
    BY <1>1, <2>2, <2>4, RefineFrame
<1>12. CASE m.code \in ImageCodes
  <2>1. HasCode(s, ImageCodes)
    BY <1>10, <1>12 DEF HasCode
  <2>2. sent[c] # Null /\ m_state[c] = RDCS_TRANSFER
    BY <1>0, <1>6, <2>1 DEF SyncInv, AckInv, RefineInv, DeliveryInv, HandshakeInv, MapInv, Agreed, s
  <2>3. cliState[c] \in {RDCS_COMPRESS_MODE, RDCS_TRANSFER}
    BY <1>0, <2>2 DEF Agreed
  <2>4. m.code = RDCC_TRANSFER_MODIFY_BITMAP => cliState[c] = RDCS_TRANSFER /\ view[c] # Null
    <3>1. m.code = RDCC_TRANSFER_MODIFY_BITMAP => HasCode(s, ModifyCodes)
      BY <1>10 DEF HasCode, ModifyCodes
    <3> QED
      BY <1>0, <3>1 DEF HasDrawn, Agreed, s
  <2>5. /\ view'[c] = Feed!Over(m.img, view[c])
        /\ view[c] = Null => DOMAIN m.img = Block
    <3>1. CASE m.code = RDCC_TRANSFER_BITMAP
      <4>1. m.img \in [Block -> Pixels] /\ view'[c] = m.img
        BY <1>2, <1>9, <2>3, <3>1, ServerCommands DEF RDCC_LOGON_RESULT, RDCC_TRANSFER_BITMAP,
              RDCC_TRANSFER_MODIFY_BITMAP
      <4>2. Feed!Over(m.img, view[c]) = m.img
        BY <4>1 DEF Feed!Over
      <4> QED
        BY <4>1, <4>2
    <3>2. CASE m.code = RDCC_TRANSFER_MODIFY_BITMAP
      <4>1. view'[c] = ClientViewAfter(view[c], m) /\ view[c] # Null
        BY <1>9, <2>4, <3>2 DEF RDCC_LOGON_RESULT, RDCC_TRANSFER_BITMAP, RDCC_TRANSFER_MODIFY_BITMAP
      <4>2. ClientViewAfter(view[c], m) = Drawn(m.img, view[c])
        BY <3>2, <4>1 DEF ClientViewAfter, RDCC_TRANSFER_BITMAP, RDCC_TRANSFER_MODIFY_BITMAP
      <4> QED
        BY <4>1, <4>2 DEF Feed!Over, Drawn
    <3> QED
      BY <1>12, <3>1, <3>2 DEF ImageCodes
  <2>6. (c \in Fed' <=> c \in Fed) /\ c \in Fed /\ Pictured(c)' = Pictured(c) /\ LostOf(c)' = LostOf(c)
    <3>1. (c \in Fed' <=> c \in Fed) /\ Pictured(c)' = Pictured(c)
      BY <1>1, <1>7, FedFrame
    <3>2. Compresses(c) => ui.img # Null
      BY <1>0, PictureIsImage DEF Compresses, SyncInv, HandlerInv
    <3>3. c \in Fed
      BY <1>6, <2>2, <3>2 DEF Fed, Pictured
    <3> QED
      BY <1>1, <1>7, <3>1, <3>3 DEF LostOf
  <2>7. feedBar[c] # <<>> /\ Head(feedBar[c]) = m.img /\ feedBar'[c] = Tail(feedBar[c])
    <3>1. ImgsOf(s) # <<>> /\ Head(ImgsOf(s)) = m.img /\ ImgsOf(Tail(s)) = Tail(ImgsOf(s)) /\ Tail(s) \in Seq(ServerCommand)
      BY <1>2, ImgsTail
    <3>2. feedBar[c] = ImgsOf(s) \o (IF Compresses(c) THEN <<ui.img>> ELSE <<>>)
      BY <2>6, FeedOfImgs, Entries DEF Imgs, s
    <3>3. feedBar'[c] = ImgsOf(Tail(s)) \o (IF Compresses(c) THEN <<ui.img>> ELSE <<>>)
      BY <1>1, <1>2, <1>7, <2>6, FeedOfImgs, Entries
    <3>4. CASE Compresses(c)
      <4>1. feedBar[c] = Append(ImgsOf(s), ui.img) /\ feedBar'[c] = Append(ImgsOf(Tail(s)), ui.img)
        BY <1>2, <3>1, <3>2, <3>3, <3>4, ImgsLast
      <4>2. Append(ImgsOf(s), ui.img) # <<>> /\ Head(Append(ImgsOf(s), ui.img)) = m.img
            /\ Tail(Append(ImgsOf(s), ui.img)) = Append(Tail(ImgsOf(s)), ui.img)
        BY <1>2, ImgsLast
      <4> QED
        BY <3>1, <4>1, <4>2
    <3>5. CASE ~Compresses(c)
      <4>1. feedBar[c] = ImgsOf(s) /\ feedBar'[c] = ImgsOf(Tail(s))
        BY <1>2, <3>1, <3>2, <3>3, <3>5, ImgsLast
      <4> QED
        BY <3>1, <4>1
    <3> QED
      BY <3>4, <3>5
  <2>8. contentBar'[c] = contentBar[c] /\ staleBar'[c] = staleBar[c] /\ lostBar'[c] = lostBar[c]
    BY <1>7, <2>6, Entries
  <2>9. feedBar' = [feedBar EXCEPT ![c] = Tail(@)] /\ UNCHANGED <<contentBar, staleBar, lostBar>>
    <3>1. feedBar' = [feedBar EXCEPT ![c] = feedBar'[c]]
      BY <1>8, OneEntry
    <3>2. feedBar' = [feedBar EXCEPT ![c] = Tail(@)]
      BY <2>7, <3>1
    <3>3. UNCHANGED contentBar
      BY <1>8, <2>8, BarShape DEF SameEntry
    <3>4. UNCHANGED staleBar
      BY <1>8, <2>8, BarShape DEF SameEntry
    <3>5. UNCHANGED lostBar
      BY <1>8, <2>8, BarShape DEF SameEntry
    <3> QED
      BY <3>2, <3>3, <3>4, <3>5
  <2>10. view' = [view EXCEPT ![c] = Feed!Over(Head(feedBar[c]), @)]
    BY <1>5, <2>5, <2>7
  <2>11. Feed!Draw(c)
    BY <1>1, <2>5, <2>7, <2>9, <2>10 DEF Feed!Draw
  <2> QED
    BY <1>1, <2>11, MappedStep
<1> QED
  BY <1>2, <1>11, <1>12, ServerCommands

-----------------------------------------------------------------------------

LEMMA RefineInit == Init => Feed!Init
<1> SUFFICES ASSUME Init PROVE Feed!Init
  OBVIOUS
<1>1. Fed = {}
  BY DEF Init, Fed
<1>2. /\ feedBar = [c \in Client |-> <<>>] /\ contentBar = [c \in Client |-> Null]
      /\ staleBar = [c \in Client |-> {}] /\ lostBar = [c \in Client |-> {}]
  BY <1>1 DEF feedBar, contentBar, staleBar, lostBar
<1> QED
  BY <1>2 DEF Init, Feed!Init

LEMMA RefineNext == RefineInv /\ [Next]_vars => [Feed!Next]_(Feed!vars)
<1> SUFFICES ASSUME RefineInv, [Next]_vars PROVE Mapped
  BY DEF Mapped
<1>1. CASE UNCHANGED vars
  <2>1. UNCHANGED <<m_pBuffer, m_mapClient, view, notices, ui, s2c, m_queueAsynCommand, m_pnModifiedBlocks,
                    sent, lost, garbled, crashed>>
    BY <1>1, Zenon DEF vars, capVars, connVars, cliVars
  <2>2. \A d \in Fed : InFlight(d)' = InFlight(d)
    BY <2>1 DEF InFlight
  <2> QED
    BY <2>1, <2>2, RefineFrame
<1>2. CASE Next
  BY <1>2, RefineLibevent, RefineConnections, RefineCommand, RefineTransferBitmap, RefineFirstBitmap,
     RefineCompress, RefineCrash, RefineCapture, RefineModified, RefineClip, RefineScreenModified,
     RefineModifyBitmap, RefineReceive DEF Next, OnReciveCommand, Busy
<1> QED
  BY <1>1, <1>2

\* RemoteDesktopServer and its viewers implement PictureFeed, for any clients, screen
\* and interleaving of the three threads: whatever is posted, merged, clipped,
\* compressed and queued in whatever order, a change of the screen is struck off only
\* by an image that has it, and every image is drawn, in order.
THEOREM ScreenSyncIsFeed == Spec => ImplementsPictureFeed
<1>1. Init => RefineInv
  BY InitSync, HandshakeInit, DeliverInit, CoverInit, FeedInit DEF RefineInv, DeliveryInv
<1>2. RefineInv /\ [Next]_vars => RefineInv'
  <2> SUFFICES ASSUME RefineInv, [Next]_vars PROVE RefineInv'
    OBVIOUS
  <2>1. DeliveryInv'
    BY SyncInvNext, HandshakeNext, DeliverNext DEF RefineInv, DeliveryInv
  <2> QED
    BY <2>1, CoverNext, FeedNext DEF RefineInv, DeliveryInv
<1> QED
  BY <1>1, <1>2, RefineInit, RefineNext, PTL DEF Spec, ImplementsPictureFeed, Feed!Spec
=============================================================================
