------------------------- MODULE PictureFeedProofs --------------------------
(***************************************************************************)
(* PictureFeed keeps its promise, for every number of viewers and blocks.  *)
(***************************************************************************)
EXTENDS PictureFeed, TLAPS

IInv == TypeOK /\ FedAreOpen /\ Covered

\* At the start no one has a picture.
LEMMA InitCovered == Init => IInv
  BY DEF Init, IInv, TypeOK, FedAreOpen, Covered

\* An image of some blocks over a picture is a picture: what Draw and Update show.
LEMMA OverType ==
    ASSUME NEW B \in SUBSET Block, NEW img \in [B -> Pixels], NEW picture \in [Block -> Pixels]
    PROVE  /\ Over(img, picture) \in [Block -> Pixels]
           /\ \A b \in B : Over(img, picture)[b] = img[b]
           /\ \A b \in Block \ B : Over(img, picture)[b] = picture[b]
  BY DEF Over

\* A capture changes a block only by adding it to stale of every feed.
LEMMA CaptureCovered == IInv /\ Capture => IInv'
  <1> SUFFICES ASSUME IInv, Capture PROVE IInv'
    OBVIOUS
  <1>1. screen' \in Bitmap /\ open' = open /\ content' = content /\ lost' = lost /\ crashed' = crashed
    BY DEF Capture
  <1>2. stale' = [c \in Client |->
                    IF content[c] = Null THEN {}
                    ELSE stale[c] \cup {b \in Block : screen'[b] # screen[b]}]
    BY DEF Capture
  <1>3. TypeOK'
    BY <1>1, <1>2 DEF IInv, TypeOK
  <1>4. FedAreOpen'
    BY <1>1 DEF IInv, FedAreOpen
  <1>5. Covered'
    <2> SUFFICES ASSUME NEW c \in Client, content[c] # Null, NEW b \in Block,
                        content[c][b] # screen'[b]
                 PROVE  b \in stale'[c] \cup lost[c]
      BY <1>1 DEF Covered
    <2>1. CASE screen'[b] # screen[b]
      BY <1>2, <2>1
    <2>2. CASE screen'[b] = screen[b]
      BY <1>2, <2>2 DEF IInv, Covered
    <2> QED
      BY <2>1, <2>2
  <1> QED
    BY <1>3, <1>4, <1>5 DEF IInv

\* With no connection open no one has a picture that could be out of date.
LEMMA StopCovered == IInv /\ Stop => IInv'
  <1> SUFFICES ASSUME IInv, Stop PROVE IInv'
    OBVIOUS
  <1>1. \A c \in Client : content'[c] = Null
    BY DEF IInv, Stop, FedAreOpen
  <1>2. TypeOK'
    BY DEF IInv, Stop, TypeOK
  <1> QED
    BY <1>1, <1>2 DEF IInv, FedAreOpen, Covered

LEMMA OpenCovered == ASSUME NEW c \in Client, IInv, Open(c) PROVE IInv'
  BY DEF IInv, Open, TypeOK, FedAreOpen, Covered

LEMMA CloseCovered == ASSUME NEW c \in Client, IInv, Close(c) PROVE IInv'
  <1>1. TypeOK'
    BY DEF IInv, Close, TypeOK
  <1>2. FedAreOpen'
    BY DEF IInv, Close, TypeOK, FedAreOpen
  <1>3. Covered'
    BY DEF IInv, Close, TypeOK, Covered
  <1> QED
    BY <1>1, <1>2, <1>3 DEF IInv

\* A whole picture has every block as it is on the screen.
LEMMA PictureCovered == ASSUME NEW S \in SUBSET Client, IInv, Picture(S) PROVE IInv'
  <1>1. screen \in [Block -> Pixels] \cup {Null}
    BY DEF IInv, TypeOK, Bitmap, Pixels
  <1>2. TypeOK'
    BY <1>1 DEF IInv, Picture, TypeOK
  <1>3. FedAreOpen'
    BY DEF IInv, Picture, FedAreOpen
  <1>4. Covered'
    BY DEF IInv, Picture, Covered
  <1> QED
    BY <1>2, <1>3, <1>4 DEF IInv

\* A spoilt picture is lost as a whole.
LEMMA SpoilCovered == ASSUME NEW c \in Client, IInv, Spoil(c) PROVE IInv'
  <1>1. [b \in Block |-> Torn] \in [Block -> Pixels]
    BY DEF Pixels
  <1>2. TypeOK'
    BY <1>1 DEF IInv, Spoil, TypeOK
  <1>3. FedAreOpen'
    BY DEF IInv, Spoil, TypeOK, FedAreOpen
  <1>4. Covered'
    BY DEF IInv, Spoil, TypeOK, Covered
  <1> QED
    BY <1>2, <1>3, <1>4 DEF IInv

\* A block that Update strikes off is in the image as it is on the screen; one that
\* is not in the image keeps its place.
LEMMA UpdateCovered == ASSUME NEW c \in Client, IInv, Update(c) PROVE IInv'
  <1>image. PICK img \in UNION {[B -> Pixels] : B \in SUBSET stale[c]}, rest \in SUBSET stale[c] :
            /\ \A b \in stale[c] \ rest : b \in DOMAIN img /\ img[b] = screen[b]
            /\ content' = [content EXCEPT ![c] = Over(img, content[c])]
            /\ stale' = [stale EXCEPT ![c] = rest]
    BY DEF Update
  <1>domain. PICK B \in SUBSET stale[c] : img \in [B -> Pixels]
    BY <1>image
  <1>1. /\ \A b \in stale[c] \ rest : b \in B /\ img[b] = screen[b]
        /\ content' = [content EXCEPT ![c] = Over(img, content[c])]
        /\ stale' = [stale EXCEPT ![c] = rest]
        /\ rest \subseteq stale[c] /\ B \subseteq stale[c] /\ img \in [B -> Pixels]
    BY <1>image, <1>domain
  <1>2. c \in open /\ screen' = screen /\ open' = open /\ lost' = lost /\ crashed' = crashed
    BY DEF Update
  <1>3. content[c] \in [Block -> Pixels] /\ B \in SUBSET Block /\ rest \in SUBSET Block
    BY DEF IInv, TypeOK, Update
  <1>4. /\ Over(img, content[c]) \in [Block -> Pixels]
        /\ \A b \in B : Over(img, content[c])[b] = img[b]
        /\ \A b \in Block \ B : Over(img, content[c])[b] = content[c][b]
    BY <1>1, <1>3, OverType
  <1>5. TypeOK'
    BY <1>1, <1>2, <1>3, <1>4 DEF IInv, TypeOK
  <1>6. FedAreOpen'
    BY <1>1, <1>2 DEF IInv, TypeOK, FedAreOpen
  <1>7. Covered'
    <2> SUFFICES ASSUME NEW d \in Client, content'[d] # Null, NEW b \in Block,
                        content'[d][b] # screen[b]
                 PROVE  b \in stale'[d] \cup lost[d]
      BY <1>2 DEF Covered
    <2>1. CASE d # c
      BY <1>1, <2>1 DEF IInv, TypeOK, Covered
    <2>2. CASE d = c /\ b \in B
      <3>1. img[b] # screen[b] /\ b \in stale[c]
        BY <1>1, <1>4, <2>2 DEF IInv, TypeOK
      <3> QED
        BY <1>1, <2>2, <3>1 DEF IInv, TypeOK
    <2>3. CASE d = c /\ b \notin B
      <3>1. content[c][b] # screen[b] /\ content[c] # Null
        BY <1>1, <1>4, <2>3 DEF IInv, TypeOK, Update
      <3>2. b \in stale[c] \cup lost[c]
        BY <3>1 DEF IInv, Covered
      <3> QED
        BY <1>1, <2>3, <3>2 DEF IInv, TypeOK
    <2> QED
      BY <2>1, <2>2, <2>3
  <1> QED
    BY <1>5, <1>6, <1>7 DEF IInv

LEMMA LoseCovered == ASSUME NEW c \in Client, IInv, Lose(c) PROVE IInv'
  <1>1. PICK rest \in SUBSET Block, given \in SUBSET Block :
            /\ rest \cup given = stale[c] \cup lost[c]
            /\ stale' = [stale EXCEPT ![c] = rest] /\ lost' = [lost EXCEPT ![c] = given]
    BY DEF Lose
  <1>2. screen' = screen /\ open' = open /\ content' = content /\ crashed' = crashed
    BY DEF Lose
  <1>3. \A d \in Client : stale'[d] \cup lost'[d] = stale[d] \cup lost[d]
    BY <1>1 DEF IInv, TypeOK
  <1>4. TypeOK'
    BY <1>1, <1>2 DEF IInv, TypeOK
  <1> QED
    BY <1>2, <1>3, <1>4 DEF IInv, FedAreOpen, Covered

\* The viewer's drawing and the server's death change nothing the promise is about.
LEMMA SameCovered ==
    ASSUME IInv, UNCHANGED <<screen, open, content, stale, lost>>, crashed' \in BOOLEAN
    PROVE  IInv'
  BY DEF IInv, TypeOK, FedAreOpen, Covered

\* Whatever the server puts off, strikes off or gives up, a viewer's picture differs
\* from the last capture only in blocks that are still to be sent or are known lost:
\* with the refinement, what OnScreenModified, AsynSendTransterModifyBitmap and
\* AsynSendTransferBitmap do to m_pnModifiedBlocks never forgets a change.
THEOREM FeedIsCovered == Spec => []Covered
  <1>1. IInv /\ [Next]_vars => IInv'
    <2> SUFFICES ASSUME IInv, [Next]_vars PROVE IInv'
      OBVIOUS
    <2>1. CASE Capture
      BY <2>1, CaptureCovered
    <2>2. CASE Stop
      BY <2>2, StopCovered
    <2>3. CASE Crash
      BY <2>3, SameCovered DEF Crash
    <2>4. CASE \E S \in SUBSET Client : Picture(S)
      BY <2>4, PictureCovered
    <2>5. ASSUME NEW c \in Client, Open(c) \/ Close(c) \/ Spoil(c) \/ Update(c) \/ Lose(c)
          PROVE  IInv'
      BY <2>5, OpenCovered, CloseCovered, SpoilCovered, UpdateCovered, LoseCovered
    <2>6. ASSUME NEW c \in Client, Draw(c) PROVE IInv'
      <3>1. crashed' \in BOOLEAN
        BY <2>6 DEF Draw, IInv, TypeOK
      <3> QED
        BY <2>6, <3>1, SameCovered DEF Draw
    <2>7. CASE UNCHANGED vars
      <3>1. crashed' \in BOOLEAN
        BY <2>7 DEF vars, IInv, TypeOK
      <3> QED
        BY <2>7, <3>1, SameCovered DEF vars
    <2> QED
      BY <2>1, <2>2, <2>3, <2>4, <2>5, <2>6, <2>7 DEF Next
  <1>2. IInv => Covered
    BY DEF IInv
  <1> QED
    BY <1>1, <1>2, InitCovered, PTL DEF Spec
=============================================================================
