----------------------------- MODULE PictureFeed ----------------------------
(***************************************************************************)
(* What the server promises its viewers, without threads, messages,        *)
(* commands or acknowledgements.  Every open connection has a feed: a      *)
(* whole picture first and then images of some blocks, drawn in order.     *)
(* The server knows of each feed which blocks it has yet to bring up to    *)
(* date, and may put that off, but strikes a block off only when the feed  *)
(* has the block as it is on the screen.  What the server gives up on, a   *)
(* block or a whole picture read from freed memory, is lost until the next *)
(* whole picture.  ScreenSync implements this (ScreenSyncFeed, proved in   *)
(* SyncCoverageProofs); the promise itself, Covered, is proved in          *)
(* PictureFeedProofs.                                                      *)
(***************************************************************************)
EXTENDS Naturals, Sequences

CONSTANTS
    Client,
    Block, Val,
    Torn,         \* contents that are of no capture
    Null

Bitmap == [Block -> Val]
Pixels == Val \cup {Torn}

VARIABLES
    screen,    \* the last capture, or Null
    open,      \* connections
    feed,      \* images on their way to each viewer
    content,   \* what each viewer shows when it has drawn them, or Null
    view,      \* what each viewer shows, or Null
    stale,     \* blocks to be brought up to date in each feed
    lost,      \* blocks of each feed that are not up to date and never will be
    crashed    \* the server is gone

vars == <<screen, open, feed, content, view, stale, lost, crashed>>

Init ==
    /\ screen = Null /\ open = {} /\ crashed = FALSE
    /\ feed = [c \in Client |-> <<>>]
    /\ content = [c \in Client |-> Null] /\ view = [c \in Client |-> Null]
    /\ stale = [c \in Client |-> {}] /\ lost = [c \in Client |-> {}]

\* A picture with an image drawn over it; a viewer begins with a whole picture.
Over(img, picture) ==
    [b \in Block |-> IF b \in DOMAIN img THEN img[b] ELSE picture[b]]

\* The screen is captured and is not what it was.
Capture ==
    /\ screen' \in Bitmap /\ screen' # screen
    /\ stale' = [c \in Client |->
                    IF content[c] = Null THEN {}
                    ELSE stale[c] \cup {b \in Block : screen'[b] # screen[b]}]
    /\ UNCHANGED <<open, feed, content, view, lost, crashed>>

\* Capturing stops when no one looks; that may be fatal.
Stop ==
    /\ open = {} /\ screen' = Null /\ crashed' \in BOOLEAN
    /\ UNCHANGED <<open, feed, content, view, stale, lost>>

Open(c) ==
    /\ c \notin open /\ open' = open \cup {c}
    /\ UNCHANGED <<screen, feed, content, view, stale, lost, crashed>>

Close(c) ==
    /\ c \in open /\ open' = open \ {c}
    /\ UNCHANGED <<screen, view, crashed>>
    /\ feed' = [feed EXCEPT ![c] = <<>>] /\ content' = [content EXCEPT ![c] = Null]
    /\ stale' = [stale EXCEPT ![c] = {}] /\ lost' = [lost EXCEPT ![c] = {}]

\* The feeds of S get the whole screen.
Picture(S) ==
    /\ S \subseteq open /\ screen # Null
    /\ UNCHANGED <<screen, open, view, crashed>>
    /\ feed' = [c \in Client |-> IF c \in S THEN Append(feed[c], screen) ELSE feed[c]]
    /\ content' = [c \in Client |-> IF c \in S THEN screen ELSE content[c]]
    /\ lost' = [c \in Client |-> IF c \in S THEN {} ELSE lost[c]]
    /\ stale' \in [Client -> SUBSET Block]
    /\ \A c \in Client \ S : stale'[c] = stale[c]

\* The last picture in the feed turns out to be none.
Spoil(c) ==
    /\ c \in open /\ feed[c] # <<>>
    /\ UNCHANGED <<screen, open, view, stale, crashed>>
    /\ LET torn == [b \in Block |-> Torn]
       IN  /\ feed' = [feed EXCEPT ![c] = Append(SubSeq(@, 1, Len(@) - 1), torn)]
           /\ content' = [content EXCEPT ![c] = torn]
    /\ lost' = [lost EXCEPT ![c] = Block]

\* An image of stale blocks.  Those that are up to date then are not stale any more.
Update(c) ==
    /\ c \in open /\ content[c] # Null
    /\ UNCHANGED <<screen, open, view, lost, crashed>>
    /\ \E img \in UNION {[B -> Pixels] : B \in SUBSET stale[c]}, rest \in SUBSET stale[c] :
        /\ \A b \in stale[c] \ rest : b \in DOMAIN img /\ img[b] = screen[b]
        /\ feed' = [feed EXCEPT ![c] = Append(@, img)]
        /\ content' = [content EXCEPT ![c] = Over(img, @)]
        /\ stale' = [stale EXCEPT ![c] = rest]

\* The server gives up on stale blocks, or comes across lost ones again.
Lose(c) ==
    /\ c \in open /\ content[c] # Null
    /\ UNCHANGED <<screen, open, feed, content, view, crashed>>
    /\ \E rest, given \in SUBSET Block :
        /\ rest \cup given = stale[c] \cup lost[c]
        /\ stale' = [stale EXCEPT ![c] = rest] /\ lost' = [lost EXCEPT ![c] = given]

\* The viewer draws the next image.
Draw(c) ==
    /\ feed[c] # <<>> /\ (view[c] = Null => DOMAIN Head(feed[c]) = Block)
    /\ UNCHANGED <<screen, open, content, stale, lost, crashed>>
    /\ view' = [view EXCEPT ![c] = Over(Head(feed[c]), @)]
    /\ feed' = [feed EXCEPT ![c] = Tail(@)]

Crash == crashed' = TRUE /\ UNCHANGED <<screen, open, feed, content, view, stale, lost>>

\* vars' # vars only spares TLC the search for the action of a step that is none.
Next ==
    /\ ~crashed /\ vars' # vars
    /\ \/ Capture \/ Stop \/ Crash
       \/ \E S \in SUBSET Client : Picture(S)
       \/ \E c \in Client : Open(c) \/ Close(c) \/ Spoil(c) \/ Update(c) \/ Lose(c) \/ Draw(c)

Spec == Init /\ [][Next]_vars

-----------------------------------------------------------------------------
TypeOK ==
    /\ screen \in Bitmap \cup {Null} /\ open \subseteq Client /\ crashed \in BOOLEAN
    /\ content \in [Client -> [Block -> Pixels] \cup {Null}]
    /\ stale \in [Client -> SUBSET Block] /\ lost \in [Client -> SUBSET Block]

\* Only open connections have pictures.
FedAreOpen == \A c \in Client : content[c] # Null => c \in open

\* The promise: a block of a feed that is not as it is on the screen is stale or lost.
Covered ==
    \A c \in Client : content[c] # Null =>
        \A b \in Block : content[c][b] # screen[b] => b \in stale[c] \cup lost[c]
=============================================================================
