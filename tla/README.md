# RemoteDesktop: a verification project in TLA+

RemoteDesktop shows the desktop of a Windows machine (the *host*, program
RemoteDesktopServer) in a window on another machine (the *viewer*, program
RemoteDesktopClient). Both find each other through a *tracker* (program
P2PTracker). This directory holds models of the three programs, TLC
configurations that check them on small instances, and proofs that TLAPS checks
for every size. The modules are translated from the C++ sources; names of
variables, functions and constants are those of the sources, spelling included.

## 1. The system

| Part | State | Operations | Runs on |
|---|---|---|---|
| `CScreenBitmap` (RemoteDesktopServer/ScreenBitmap.cpp) | `m_pBuffer` (last capture), `m_uThreadId`, `m_rcScreen`, one thread per `StartCapture` | `StartCapture`, `StopCapture`, `OnTimer`, `CaptureDesktop`, `GetModifiedBlocks`, `ClipBitmapRect` | capture thread; start, stop and clipping on the UI thread |
| `CRemoteServer` (RemoteServer.cpp) | `m_mapClient` under `m_lockClient`, `m_Command` | `listener_cb`, `conn_readcb`, `conn_eventcb`, `DecodeBuffer`, `StopClient`, `OnScreenModified`, `OnScreenFirstBitmap` | libevent thread; UI thread |
| `CClientConnection` (ClientConnection.cpp) | `m_state`, `m_bSendBitmapReady`, `m_pnModifiedBlocks`, `m_queueAsynCommand` | `OnReciveCommand` and its handlers, `OnScreenModified`, `AsynSendTransferBitmap`, `AsynSendTransterModifyBitmap`, `OnAsynSendCommand` | UI thread; the queue is written out on the libevent thread |
| `CommandBase` and its classes (common/cmd.h), `...ReciveCmd` with `Parse`, `stream_buffer` | none | constructors, `MakeStream`, `CreateCmd`, `Parse` | where commands are made and read |
| `CRemoteClient` and the viewer's `CMainWindow` | `m_state`, the picture | handshake, `OnGetTransferBitmap`, `OnGetTransferModifyBitmap` | UI thread of the viewer |
| `CTrackerHttpServer`, `CHttpClientConnection` (P2PTracker) | `m_mapClient`, each connection's address | `listener_cb`, `conn_eventcb`, `conn_readcb`, `PeerConnectPeer`, `GetHttpClientConnection` | libevent thread of the tracker |
| `CHttpRequestCommandPeerTracker`, `CHttpRequestCommandDig` | the registry `m_mapPeer`, its reference count, the timer | online, ping, offline, list; connect and result | the same |
| `CP2PTrackerClient` (one in the host, one in the viewer) | `m_nTrackerState`, `m_nPingFailedTimes`, `m_pBufferEvent` | `SendOnline`, `SendPing`, `SendOffline`, `GetLivePeerList`, `ConnectPeer`, `OnHttpResponse` | libevent thread; pings and stop on the UI thread |

How they interact. The capture thread hands the numbers of changed blocks to the
UI thread with `PostMessage`, and the first capture with `SendMessage`. The
libevent thread hands over accepted, broken and readable connections with
`SendMessage` and stands still until the UI thread has handled them. The UI
thread queues commands per connection and activates an event on which the
libevent thread writes them. A viewer answers each image with
`RDCC_TRANSFER_BITMAP_RESPONSE`, which allows the next one. Host and viewer keep
an HTTP connection to the tracker; a viewer's request for a host travels viewer,
tracker, host, and the answer the same way back.

What is hard: three threads on one screen buffer, and a capture thread more with
every restart; images made from a buffer that is replaced meanwhile; rows of
pixels that Windows pads and the program does not; flow control by a single flag; a block list of fixed
length; commands cut anywhere by TCP; responses that carry no reference to their
request; a registry that is shared by reference count. `PROJECT.json` lists these
hazards at their lines ("hazards") with the properties that watch them.

What makes each part correct:

- capture and lists: no change of the screen is forgotten; the list keeps
  ascending order and its bound; the screen buffer has one owner, across stops and
  restarts; the blocks compared, cut out, sent and drawn are the same pixels;
- connections: the handshake ends, the loop over the map works on live
  connections, an acknowledgement is never lost, images do not pile up;
- viewer: what it draws is what was sent, and at rest it shows the last capture;
- framing and fields: what is received is what was sent, command by command and
  field by field;
- tracker: the registry lives as long as it is used, a listening host is listed,
  answers reach the right viewer, silent peers go.

## 2. Modules

- **RDProtocol**: command codes, connection states and the two `CheckCmdCodeValid`
  tables. Numbers are kept, since the code compares them with `<` and `>`.
- **BlockList**: the list of modified blocks as a sequence, the comparison of two
  captures and the merge loop of `CClientConnection::OnScreenModified`, as a
  recursive function over the loop's iterations.
- **ScreenSync**: capture thread, UI thread, libevent thread, network and viewer.
  One action per handler; a handler is split only where another thread can come
  in between: `CaptureDesktop` while it waits for the UI with the first capture
  (`CaptureFirst`, `OnFirstBitmap`; a later capture is compared, swapped in and
  posted by `CaptureSwap`: a message not yet posted and one not yet retrieved are
  the same to the UI thread), the loop of `OnScreenModified` per connection,
  `ClipBitmapRect` per block (`Overtake` says what a buffer swap between two rows
  does), and the compression of a whole picture, which reads the buffer unlocked.
- **PictureFeed**: what all of ScreenSync promises a viewer, without threads,
  messages or acknowledgements: a feed of images per connection, drawn in order,
  of which the server knows the blocks still to be sent (`stale`) and those given up
  on (`lost`).
- **ScreenSyncFeed**: the refinement mapping from ScreenSync to PictureFeed.
- **ScreenCapture**: the life of `CScreenBitmap`: start, stop and start again, one
  more thread each time, and the screen buffers as addresses in a heap, so that one
  can be freed twice, used after it was freed, handed out again or leaked. A handler
  is split where the code holds no lock: `StopCapture` before it frees the buffer,
  `CaptureDesktop` at every use of a buffer or of `m_hWnd`. ScreenSync covers the
  time up to the first stop, ScreenCapture what comes after it; they meet in
  `StopCapture`.
- **Picture**: comparison, clipping, the image of changed blocks and its drawing, on
  bytes at addresses: pure functions of the capture and its size.
- **CommandCodec**: the contents of commands. The constructors of cmd.h and the
  `Parse` methods are two tables of fields, transcribed independently of each other;
  `Content` and `Parse` interpret them.
- **CommandStream**: commands as words in a stream, chunks as the network cuts
  them, `DecodeBuffer` with its one `m_Command`.
- **HttpStream**: HTTP packages in a TCP stream, as the tokens the parsers look
  for. One module for the request parser of `CHttpClientConnection` and the
  response parser that both `CP2PTrackerClient` have (`parser` says which); they
  differ in the first line only. Every call of the chain `DecodeFirstLine`,
  `DecodeHeader` (`DecodeHttpHeader`), `DecodeBody` is a step, and nothing else reads
  meanwhile.
- **PeerTracker**: the tracker's connections, registry and requests. It has no
  specification of its own.
- **Rendezvous**: composes PeerTracker with hosts and viewers; `Next` interleaves
  the tracker's thread, its timer, the peers' steps and broken connections. A
  connection closed at its own end before the tracker has accepted it is still
  accepted, and what it brought is read (`link` is "left"), or it never arrives. A
  host's `CloseClient` does not `Clear`, so the responses that came in the same chunk
  are still handled (`HostReads`): failures are logged (`OnFailureLogged`), the
  offline announcement may be answered (`OnServerOfflineFinish`), and a digging
  request ends the program (`OnPeerConnectingClosed`).
- **MC...**: the instances for TLC. `MCCapture` (ScreenCapture, Picture, BlockList)
  and `MCStreams` (CommandStream, CommandCodec, HttpStream) put independent modules
  into one run; an initial state chooses which one moves. **...Proofs**: theorems.

**The refinement.** Under the mapping of `ScreenSyncFeed` the feed of a connection is
the images in `m_queueAsynCommand` and on the network, with the picture that
`JPEG::Compress` is reading at its end: a picture counts as sent from the moment its
compression begins, and `Spoil` is what happens if the buffer is freed under it.
`stale` is what is posted, in the hands of `OnScreenModified`, or in
`m_pnModifiedBlocks`; `lost` is what the merge dropped. Every step of every thread
is then a step of PictureFeed or none: in particular an image strikes off a block
only if it has the block as it is on the screen at that moment, torn rows and all.

Abstractions. A block's pixels are, in ScreenSync, one value of `Val`, or `Torn` for rows of two
captures or freed memory. JPEG is lossy, so `view` says which pixels a drawn
block was encoded from. A message is a record of what its receiver looks at.
User names, passwords, logging and painting are left out; any password is
accepted by the code. In PeerTracker and Rendezvous requests and responses are whole
HTTP packages; HttpStream shows how far the parsers make that true. A reverse
proxy before the tracker is assumed to add `X_FORWARDED_FOR` and
`X_FORWARDED_FOR_PORT`, as the tracker's code expects.

Invalid memory accesses (`memcpy` to a NULL list, `Send` on a NULL connection, a
buffer freed twice, a read of freed memory) set `crashed`, or yield `Torn` where
the program may go on; nothing happens after `crashed`.

## 3. Runs

| Run | Instance | Shows |
|---|---|---|
| `capture` | 2 capture threads, 2 clients, stops and restarts; pictures of up to 4 x 3 pixels in blocks of 2 x 2, up to 4 changed pixels | `FaultsNeedOverlap`, `NothingElseLeaks`: the buffer is freed twice, used after free or leaked only if captures, or a capture and a stop, overlap; `LeftoversDrain`; `BlocksRestorePicture`, `ShownIsCaptured`: what is drawn is what was captured, as far as padding lets it; `MergeIsSortedUnion`; `TypeOK` |
| `screen_sync` | 1 viewer, 2 blocks, 2 contents | `Coverage`: a block whose sent contents are outdated is on its way to the next image, at every interleaving with the capture thread; `DrawnIsSent`; `QuiescentMeansSynced`; `LossOnlyWhenFull`; `ImplementsPictureFeed`: the refinement |
| `two_viewers` | 2 viewers that may break off, 1 block | `TransferNeverStalls`, `AtMostTwoImages`, `LoopStaysInMap` |
| `screen_live` | 1 viewer of either version that may break off | `TypeOK`; with fairness `FirstPictureArrives`, `ListIsFlushed`, `CaptureStops`; `ImplementsPictureFeed` with connections that come and go |
| `streams` | 1 connection, 3 commands of up to 2 words, chunks that do not end in a header; every class of command with every combination of small and extreme fields; 3 HTTP packages, requests or responses, with 2 headers and bodies of up to 2 tokens, any chunks | `TypeOK`, `StreamConserved`, `AllReceived`; `ParseInvertsConstructor`; `HandledWhenArrived`: each package is handled as it was sent, once and as soon as it is complete; `NothingLostInBuffer`; `HandledWereSent`: also after responses were dropped |
| `rendezvous` | 2 hosts behind one ip and 1 viewer | `RegistryOutlivesConnections`, `ResultIsOfAskedPeer`, `ListeningIsListed`; `RefusalNeedsUnreadRequest`, `CrashNeedsGoneHost`: a connection is refused only while another's first request has not been read, and the tracker goes down only over a host whose connection is gone |
| `rendezvous_live` | 1 host, 1 viewer, the timer delivered | `TypeOK`; with fairness `DigIsAnswered`, `SilentPeersGo` |
| `null_list` | 1 viewer | `ImagesOnlyInTransfer` is violated: changes reach a connection that is still shaking hands, whose list is NULL |
| `merge_loss` | 1 viewer, 2 blocks | `MergeLosesNothing` is violated: a block in both lists is taken twice and another falls off the end |
| `split_header` | 1 connection, any chunks | `ReceivedAsSent` is violated: a chunk that ends within a header |
| `timer_lost` | 1 host, 1 viewer, the timer not delivered | `SilentPeersGo` is violated: a vanished host stays listed |
| `reconnect` | as `capture` | `CapturesDesktop` is violated: connect, disconnect, connect, and an empty rectangle is captured, without any race |

The last five state what a comment of the sources says; "findings" quotes it.

**Bounds.** Two blocks are the least with which one block of a list can be
overtaken while another is clipped, and with which the merge can lose something;
two contents tell old from new, and let a block change back. `MaxNotices = 1` is
one posted message beside the one being handled, so the buffer can be two captures
ahead of the image being made; `screen_live` has two. The capture thread
waits when the bound is reached, where the real one posts on. Two viewers are the least
for a loop over the map with something after the first. Pictures of 4 x 3 pixels in
blocks of 2 x 2 have up to four blocks, whole and cut off at either edge, and widths
1 to 4 give every remainder of a row of three-byte pixels to four bytes; the lists
that are merged are then up to four long, and the old one is any list that could be
there. Two capture threads are the least that can meet; a third meets each of them
in the same way. With the five addresses a new buffer can always be a fresh one, so
more change nothing; one that was freed while a thread still holds it can be handed
out again. `MaxTimers = 1` lets a capture wait behind the one under way. `MaxQueued = 1` lets a
host have one ping under way, so that the answer to a ping can meet that to an
announcement or a digging request. Three commands let one end, one lie within and
one begin in a chunk, and so do three HTTP packages; a chunk may end within
"HTTP/1.1" and between CR and LF, elsewhere tokens are not cut, since the parsers
look for nothing shorter. The deadlock check is off: clients may stay away, hosts may
stop, and the bounded streams run dry.

**In the model and not in the program**: in ScreenSync connections are accepted until
the first `StopCapture`; what the capture does afterwards is modelled by
ScreenCapture, and shows an empty rectangle (`reconnect`). ScreenCapture stops at the
first invalid use of a buffer, after which anything can happen.

The viewer's side of the picture session is in ScreenSync as its handlers are
written, but the program at this commit never makes the connection: the code that
creates the viewer's `bufferevent` and `m_pAsynSendCommandEvent` is commented out
(RemoteClient.cpp:92 and 497-538), so `AsynSend` returns -2 (262-263), and nothing
sends `WM_REMOTECLIENT_ONCONNECTED`, whose handler is `ClientOnConnected`. What the
ScreenSync runs and proofs say is what host and viewer do once that connection is
made; the host's half holds for any viewer that speaks the protocol as that one does.

`GetDIBits` (ScreenBitmap.cpp:194) always succeeds in ScreenCapture and ScreenSync.
When it fails, `pNewBuffer` stays NULL, and `CaptureDesktop` compares and stores it all
the same; "has a new buffer" in `ScreenCapture!TypeOK` rests on this.

**Fairness.** `ScreenSync!Fairness`: every thread takes the steps inside a handler
(WF). Which handler a thread starts next is decided by libevent, which serves all
active events of a loop before it polls again, and by Windows, which gives sent
messages precedence over posted ones and keeps posted ones in order; so a handler
that is ready again and again is started (SF). Nothing is assumed of the screen's
content, of network failures or of clients that never connect; `ListIsFlushed`
has the screen's changes in its premise. `Rendezvous!Fairness`: the tracker serves
each connection, peers read what they are sent while they keep the connection, and the
timer fires if `TimerDelivered`. Nobody is assumed to start, ping or stay. `CommandStream`: the
receiver reads. `ScreenCapture!Fairness`: Windows schedules every thread and the UI
thread ends what it began; clients, the timer and the user need not act.

**The timer.** `CHttpRequestCommandPeerTracker::Init` creates its window on the
libevent thread, which never retrieves messages: in the program as it is
`TimerDelivered` is FALSE. `rendezvous_live` shows that the registry's logic is
right if the timer were delivered; `timer_lost` shows what happens as it is.

## 4. Seen while modelling

Behaviour of the code that the models contain and no run reports by itself:

- `m_Command` belongs to the server: with two connections in `CommandStream`
  (`Conn = {a, b}`, whole headers) `ReceivedAsSent` is violated as well, a command
  of one is completed with bytes of the other (RemoteServer.cpp:301).
- A chunk that ends inside a response's "HTTP/1.1" makes host and viewer drop their
  buffer, and with it that response (`RefuseFirstLine`); the rest of it, with
  whatever begins in the same chunk, is dropped when it arrives. The tracker waits
  for the end of the line first and loses nothing.
- `CCommandTransferDirectory` (common/cmd.h:423) does not write `nFileCount`, which
  `CServerReciveCmdTransferDirectory::Parse` (ServerReciveCmd.cpp:496) reads, so that
  it always fails (`ParseInvertsConstructor` says so); nothing sends this command yet.
- A content of no bytes is read as `SBS_BASE_BUFFER_SIZE` zeros (`StreamBuffer`): an
  empty command is taken for one whose fields are all zero.
- For a screen whose width is no multiple of four the ends of the topmost rows, as many
  bytes as all padding together, are never compared nor sent, and the viewer's
  `StretchDIBits` reads as many bytes past the end of its buffer (`ShownIsCaptured`).
- A capture for which the window has gone meanwhile is leaked (`CheckWindow`).
- With an overlap (`overlapped`) the buffer can be freed twice: `StopCapture` during
  `CaptureDesktop`, or a left-over `WM_TIMER` of a stopped thread beside the new one.
- A connection that `StopClient` closes is not reported to `CMainWindow`, so the
  capture goes on without clients (`TurnedAway` in `CaptureStops`).
- A 404 that answers a digging result is taken by a host in `P2PTS_ONLINE` for a
  failed announcement; it leaves its loop although it is announced and listening
  (`OnServerConnectFailed`).
- The tracker refuses a connection while another has not sent its first request
  (`listener_cb`, both have no address); the refused host waits for ever, and its
  reference to the registry is never returned (`leaked`).
- A viewer that asks for a listed host whose connection is gone makes the tracker
  call `Send` on NULL (`OnRequestConnectPeer`; `CrashNeedsGoneHost` says that nothing
  else makes it).
- A host that has closed its connection to the tracker after a failure still decodes
  the rest of the chunk; a digging request in it makes `OnPeerConnecting` call
  `event_active` on NULL, since `CloseClient` has freed the event
  (`OnPeerConnectingClosed`).
- `OnTimer` drops a peer after more than five timers; the comment at
  `PeerState::offline_times` speaks of three.
- Ping failures are never reset: `OnServerPingSuccess` has no caller. No property
  states it; `TypeOK` bounds the count, and would not tell.
- If the screen stops changing while the viewer is behind, the rest of the list
  waits for the next change.

## 5. Proofs

All proofs are for any sets of clients, hosts, viewers, threads and addresses, any
number of blocks and any value of the bounds, from the named assumptions on the
constants (`ScreenSyncAssumption`, `ScreenCaptureAssumption`, `PictureAssumption`,
`MCCaptureAssumption`, `CommandStreamAssumption`, `PeerTrackerAssumption`,
`RendezvousAssumption`); those on PictureFeed and on HttpStream need none. Where
a theorem needs more, the condition is its hypothesis.

**Induction over data.** The library's induction theorems take an operator, which the
provers cannot instantiate. `Least` and `Induction` (in BlockListProofs, and again in
the modules that do not extend it) are the same principle for a *set*: one that has 0
and, with n, n + 1, has every number. With it the loop of the merge, the scan of a picture,
`FoldLeft`, `MakeStreams` and `HeaderLines` are reasoned about for data of any length.

**PictureFeedProofs, `FeedIsCovered`**: `Spec => []Covered`, a block of a feed that is
not as it is on the screen is stale or lost. `IInv` adds types and that only open
connections have pictures, which the step `Stop` needs: the screen goes, and no one
may be left with a picture of it. `Update` is the heart: a block struck off is in the
image as it is on the screen, any other keeps its place.

**BlockListProofs**

- `MergeIsAscending`: the merge loop of `OnScreenModified` makes an ascending list of
  two ascending lists, also if the array ends before both are used up. The proof
  follows the loop's iterations: what has been written is ascending and at most what
  either list has next.
- `MergeCountsAll`: up to each block number the list has as many entries as both lists
  together, or is full, so what falls off its end are the largest numbers. In an
  ascending list the entries up to a number are its first ones (`FirstEntries`), so
  that it is enough to count how far the loop has come in either list.

**ScreenCaptureProofs**

- `TypeCorrect`: `Spec => []TypeOK`.
- `BuffersAreOwned`: `Spec => []OwnInv`. `Owners` says that until captures, or a
  capture and a stop, overlap, one thread at most is capturing and each allocated
  buffer is `m_pBuffer` or that thread's new one; `Locals` which local variables of a
  thread are not set yet.
- `BuffersAreSafe`, `BuffersAreFreed`: `FaultsNeedOverlap` and `NothingElseLeaks`
  follow: a second free, a use after free or a leak needs two owners, or none.
- `AnyPictureIsRestored`, `PictureIsRestored`: `BlocksRestorePicture`, for screens,
  pixels and blocks of any size and any two captures. The scan of `GetModifiedBlocks`
  keeps only a running address; that it is the row's start plus the unit's column is
  shown by induction over the scan. From there each byte of the picture is in one
  row of one block, so a byte that differs is in a block that was found, and it is
  clipped, sent and drawn at the same place.
- `RowsAreShown`: `MCSpec => []ShownIsCaptured`, from the same and the two lengths of
  a row.
- `ListIsSortedUnion`: `MCSpec => []MergeIsSortedUnion`, from the two theorems of
  BlockListProofs; what `GetModifiedBlocks` found is ascending and within the array.

**ScreenSyncProofs**

- `LoopIsLocked`: `Spec => []LoopStaysInMap`. The property is
  not inductive: a picture is started by a command, and the libevent thread may
  bring commands of a connection that was closed while an earlier command of the
  same chunk was handled. `LoopInv` adds that the connection of the waiting command
  is in the map, or was turned away, its state still CONNECTED and its version
  already read (`ClosedInv`); that a client sends its version once and first
  (`VersionInv`); that a picture is compressed only while a command waits
  (`CompressInv`); and the shapes of the two program counters.
- `SyncTypeCorrect`: `Spec => []TypeOK`. `SyncInv` adds `AckInv` (only a
  connection that was sent a picture is ready, or has an image or an acknowledgement
  under way), `BufferInv` (whoever has a picture has it from a buffer that is still
  there) and `HandlerInv` (what a handler that is under way has in hand). What follows
  rests on it.
- `SentIsDrawn`: `Spec => []DrawnIsSent`, by induction over the images on their way,
  which are applied to the window in their order (a fold).
- `SomethingLeadsOn`: `Spec => []TransferNeverStalls`. `HandshakeInv` says which
  commands a viewer can have under way in each state of its handshake, so that an
  acknowledgement never meets a connection that would take it for an error.
- `ImagesDoNotPileUp`: `Spec => []AtMostTwoImages`. `FlowInv` counts, with the theorems
  on finite sets, what a connection has under way. A viewer asks for a picture once in
  its life (`AsksOnce`), so its request meets a connection with no image or
  acknowledgement under way (`NothingYet`); the first capture after the request
  accounts for the second image (`First`).

**SyncCoverageProofs**

- `NoChangeForgotten`: `Spec => []Coverage`, the central promise of the host. `CoverInv`
  follows a changed block through the posted messages, the loop over the map, the list
  and the image being clipped, where the capture thread may overtake it at every row.
- `MergeLosesOnlyWhenFull`: the action property `LossOnlyWhenFull`.
- `SyncedWhenQuiet`: `Spec => []QuiescentMeansSynced`, from `Coverage` and
  `DrawnIsSent`.
- `ScreenSyncIsFeed`: `Spec => ImplementsPictureFeed`, the refinement. Each action of
  ScreenSync is shown to be one step of PictureFeed, or none, under the mapping;
  `MappedStep` and `MappedStutter` reduce that to what becomes of the entry of one
  connection. The proof needs `RefineInv`, all the invariants of these two modules
  and `FeedInv`, which the properties did not need: nothing is on its way
  to a viewer whose connection is not in the map, and nothing will be written there
  (`ShutInv`), and a viewer's handshake is answered
  once (`AnsweredOnce`), or a second first picture would appear in a feed that is open.
  The step `Update` rests on `CoverInv`: an image may strike off a block only if the
  block is in it as it is on the screen.

**CommandStreamProofs**

- `StreamTypeCorrect`: `Spec => []TypeOK`, for any connections and any cuts; `m_Command`
  never has more content than its length.
- `NoWordIsLost`, `CommandsArriveAsSent`: `StreamConserved` and `ReceivedAsSent`, under
  `WholeHeaders`: one connection, chunks that do not end within a header, and contents
  no longer than `CMD_ITEM_SIZE_MAX`. `StreamInv` says that the words in `m_Command`,
  in the chunk and in the stream are those of the commands not yet received, and that
  the stream does not begin within a header. Run `split_header`, and what section 4
  says of two connections, show that the first two conditions are needed.

**HttpStreamProofs**: for requests and responses, packages with bodies of any length,
any number of them and any cuts.

- `NoTokenIsLost`, `NothingIsMadeUp`, `ArrivedIsHandled`: `NothingLostInBuffer`,
  `HandledWereSent`, `HandledWhenArrived`. `Inv` gives the buffer a place `pos` in the
  stream of all packages (`Aligned`): what is handled is among the first `g` packages,
  in order, and all of them unless one was refused (`Taken`); the state of the parser
  says how far into package `g + 1` it is, and what it noted is that package's
  (`Placed`); a parser that waits has not got all of it (`Waiting`). It holds after a
  refusal as well, when `pos` may be anywhere behind the refused package: "HTTP/1.1"
  stands only where a package starts, so that what is taken for a first line is one.
  That, and where the first line end and the first blank line behind a place in the
  stream are, is what the lemmas on `Find` show.

**RendezvousProofs**

- `RegistryIsCounted`: `Spec => []RegistryOutlivesConnections`. `RefInv` ties the
  connections in the map to the links that are up or closing and counts them with
  the theorems on finite sets.
- `TypeCorrect`: `Spec => []TypeOK`. `TypeInv` adds which messages may be where, so
  that a peer is registered only under its own address.
- `ListeningHostIsListed`: `~TimerDelivered` gives `Spec => []ListeningIsListed`.
  `ListInv` says that only a host that has hung up has an offline request under
  way (`RequestsInv`), that a host hears nothing before it is accepted
  (`SilenceInv`), and that a host is registered from before the answer to its
  announcement is written (`AnnouncedInv`). `RefInv` is needed for the step in
  which another connection leaves: the registry is not destroyed while one is up.
- `AnswerIsOfAskedPeer`: `DistinctAddresses` gives `Spec => []ResultIsOfAskedPeer`.
  `RouteInv` follows a request from the viewer to the tracker, to the host and back.
  `DistinctAddresses` says that no two connections to the tracker have both ip and port
  in common. The tracker knows peers by nothing else, and answers do not name their
  request: a port that is used again while an old answer is under way is excluded.
- `RefusalsNeedUnreadRequests`: `Spec => RefusalNeedsUnreadRequest`. `FirstInv` says
  that a connection not accepted yet has no address, and that for one without an
  address the announcement or the request for the list is next to be read; `RefInv`
  adds that what is in the map has been started. So the connection that `listener_cb`
  takes for the new one is one whose first request is next.
- `CrashesNeedGoneHost`: `DistinctAddresses` gives `Spec => []CrashNeedsGoneHost`.
  `KnownInv` says that whom the tracker lists, has told viewers of, and is asked for, is
  a host it has heard and whose address it has noted; so the look-up fails only if the
  connection of that host has left the map.

**Only model-checked.**

- Liveness (`FirstPictureArrives`, `ListIsFlushed`, `CaptureStops`, `LeftoversDrain`,
  `AllReceived`, `DigIsAnswered`, `SilentPeersGo`), which is out of this prover's reach.
- `ParseInvertsConstructor`: two tables of fields, transcribed from two sides, with
  nothing to induct on. TLC evaluates it for every class of command.

## 6. Not modelled

- That a viewer connects to a host, which the program does not do (section 3, "In the
  model and not in the program").
- Failures of Windows calls: `GetDIBits` and the other drawing calls, `CreateWindow`,
  `_beginthreadex`, memory running out.

- The handlers of input, clipboard and file commands (ClientConnection.cpp:517-650):
  the viewer sends none of them, and they call Windows and keep no state but a
  pointer to a dialog that is never shown. Their fields are in CommandCodec.
- `CRemoteServer::Stop` and the end of the programs, after which nothing is observed;
  `OnDestroy` of the server's window is in ScreenCapture as far as the capture goes.
- Window hooks: nothing calls them. Zip compression: the session never selects it.
- Logging, painting, scaling, buttons, name resolution: no state the properties are
  about.
- libevent, libjpeg, libpng, zlib and ftlThreadPool, which are kept in the repository
  and make up nearly all of its lines, are third-party code. Libevent and Windows
  appear as the actions that call or are called by the programs, libjpeg as a codec.

Modelled, but stated by no property, or only in part ("hazards" in `PROJECT.json` says
so at each):

- ClientConnection.cpp:313: that the rest of a list waits for the next change. It is
  the premise of `ListIsFlushed`.
- RemoteServer.cpp:301: the shared `m_Command`. The runs of CommandStream have one connection; the theorem
  `CommandsArriveAsSent` has one as a hypothesis.
- RemoteServer.cpp:327: that the capture goes on when `StopClient` closes the last
  connection. `CaptureStops` excepts it (`TurnedAway`).
- TrackerHttpServer.cpp:257: that the tracker goes down over a host that has gone.
  `CrashNeedsGoneHost` says when, `DigIsAnswered` and `SilentPeersGo` except it.
- TrackerHttpServer.cpp:115: that a refused host waits for ever. Its reference is
  counted (`leaked`), and `RefusalNeedsUnreadRequest` says when it is refused.
- The host's P2PTrackerClient.cpp:309 and 507: that a 404 for a digging result ends an
  announced host, after which `DigIsAnswered` excepts it, and that ping failures are
  never reset.

Each is what the code does and no text of the repository denies; a property that
claimed the opposite would be refuted without contradicting anything the authors say.

## 7. Plan

Every component of the programs themselves that keeps state is modelled, and every
safety property of the runs but `ParseInvertsConstructor` is proved, four of them
(`StreamConserved`, `ListeningIsListed`, `ResultIsOfAskedPeer`, `CrashNeedsGoneHost`)
under the hypotheses named in section 5. What is left is what this prover does not
reach: the liveness properties above.
