--------------------------- MODULE ScreenSyncFeed ---------------------------
(***************************************************************************)
(* The mapping under which ScreenSync implements PictureFeed.              *)
(***************************************************************************)
EXTENDS ScreenSync

Fed == {c \in m_mapClient : Pictured(c) # Null}

\* A viewer with a picture has negotiated, so that only images are on their way to it.
\* A picture counts as sent from the moment on that JPEG::Compress begins with it.
FeedOf(c) ==
    [i \in 1..Len(InFlight(c)) |-> InFlight(c)[i].img]
    \o (IF Compresses(c) THEN <<ui.img>> ELSE <<>>)

LostOf(c) == IF Compresses(c) THEN {} ELSE IF garbled[c] THEN Block ELSE lost[c]

\* Pending, less what OnScreenModified has put into the list of c or dropped by now.
StaleOf(c) ==
    {b \in Block : \/ \E i \in 1..Len(notices) : b \in notices[i]
                   \/ c \in ui.todo /\ b \in ui.blocks /\ ~Clips(c)
                   \/ m_pnModifiedBlocks[c] # Null /\ b \in ToSet(m_pnModifiedBlocks[c])}

feedBar    == [c \in Client |-> IF c \in Fed THEN FeedOf(c) ELSE <<>>]
contentBar == [c \in Client |-> IF c \in Fed THEN Pictured(c) ELSE Null]
staleBar   == [c \in Client |-> IF c \in Fed THEN StaleOf(c) ELSE {}]
lostBar    == [c \in Client |-> IF c \in Fed THEN LostOf(c) ELSE {}]

Feed == INSTANCE PictureFeed WITH
    screen <- m_pBuffer, open <- m_mapClient, feed <- feedBar, content <- contentBar,
    stale <- staleBar, lost <- lostBar

\* The three threads, the commands and the acknowledgements together do what
\* PictureFeed promises, one of its actions at a time: whatever is posted, merged,
\* clipped, compressed and queued in whatever order, a change of the screen is struck
\* off only by an image that has it, and every image is drawn, in order.
ImplementsPictureFeed == Feed!Spec
=============================================================================
