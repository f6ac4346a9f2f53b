----------------------------- MODULE MCCapture ------------------------------
(***************************************************************************)
(* Screen capture: the life of its buffers (ScreenCapture) and, over all    *)
(* small pictures, the functions that compare, cut, merge and draw them     *)
(* (Picture, BlockList).  An initial state chooses one or the other.        *)
(***************************************************************************)
EXTENDS ScreenCapture, Picture, BlockList

CONSTANTS
    MaxWidth, MaxHeight,   \* bound: pictures up to this size in pixels
    MaxTouched             \* bound: pixels that change

ASSUME MCCaptureAssumption == MaxWidth \in Nat /\ MaxHeight \in Nat

VARIABLES
    d,        \* size of the screen, or Null: the life of the buffers
    touched   \* the pixels that have changed since the viewer got a whole picture

MCInit == Init /\ d \in Dimensions(1..MaxWidth, 1..MaxHeight) \cup {Null} /\ touched = {}

\* A capture in which the pixels that begin at the addresses in P have changed.  No
\* two addresses have the same contents, so that a byte in the wrong place shows.
Capture(P) ==
    [a \in 0..SizeImage(d) - 1 |-> <<a, (a \div PixelBytes) * PixelBytes \in P>>]

Old == Capture({})
New == Capture(touched)

Touch ==
    /\ Cardinality(touched) < MaxTouched
    /\ \E p \in 0..SizeImage(d) - 1 : p % PixelBytes = 0 /\ touched' = touched \cup {p}
    /\ UNCHANGED <<vars, d>>

MCNext ==
    \/ d = Null /\ Next /\ UNCHANGED <<d, touched>>
    \/ d # Null /\ Touch

MCSpec == MCInit /\ [][MCNext]_<<vars, d, touched>> /\ Fairness

-----------------------------------------------------------------------------
Modified == Ascending(GetModifiedBlocks(New, Old, d))

\* The viewer's picture after a whole picture and the image of the modified blocks.
Viewed == DrawModified(WholePicture(Old, d), Modified, ModifiedImage(New, Modified, d), d)

\* GetModifiedBlocks, ClipBitmapRect, the image that AsynSendTransterModifyBitmap puts
\* together and OnGetTransferModifyBitmap agree, also where a block is cut off by the
\* edge of the screen: after the changed blocks the viewer has, byte for byte, what it
\* would have got with a whole picture.
BlocksRestorePicture == d # Null => Viewed = WholePicture(New, d)

\* The program takes the rows of a DIB to be RowBytes long, Windows pads them.  The two
\* do not drift apart: a row that lies within the first LinearSize bytes of the
\* padded picture is shown as it was captured.  Only the others, the topmost of the
\* screen because a DIB begins at the bottom, lack their end, and there are none when
\* rows need no padding.
ShownIsCaptured ==
    d # Null =>
        LET viewed   == Shown(Viewed, d)
            captured == Shown(New, d)
        IN  \A yk \in DOMAIN viewed :
                viewed[yk] = IF yk[1] * Stride(d) + yk[2] < LinearSize(d)
                             THEN captured[yk] ELSE Outside

\* Lists that OnScreenModified can have made: in ascending order, with duplicates.
Lists(cap) ==
    {l \in UNION {[1..n -> 0..cap - 1] : n \in 0..cap} :
        \A i \in 1..Len(l) - 1 : l[i] <= l[i + 1]}

\* OnScreenModified, given what GetModifiedBlocks found, computes what the comment over
\* its merge loop asks for as far as the array goes: the two lists sorted into one, cut
\* off at the array's end.  Up to each block number the list has as many entries as both
\* lists together, or is full: what is cut off are the largest block numbers.
MergeIsSortedUnion ==
    d # Null =>
        LET cap == RowCount(d) * ColumnCount(d)
        IN  \A old \in Lists(cap) :
                LET merged == AddModifiedBlocks(old, Modified, cap)
                IN  /\ IsAscending(merged)
                    /\ Len(merged) = Shorter(cap, Len(old) + Len(Modified))
                    /\ \A b \in 0..cap - 1 :
                          Cardinality(UpTo(merged, b))
                             = Shorter(cap, Cardinality(UpTo(old, b)) + Cardinality(UpTo(Modified, b)))
=============================================================================
