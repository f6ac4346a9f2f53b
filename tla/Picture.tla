------------------------------- MODULE Picture ------------------------------
(***************************************************************************)
(* The pixels themselves: how a capture is compared with the last one in   *)
(* blocks, how the changed blocks are put side by side into one image, and *)
(* how the viewer writes them into its own picture and shows it.           *)
(*                                                                         *)
(* A buffer is a function from addresses 0, 1, ... to bytes.  A picture of *)
(* d.biWidth by d.biHeight pixels as GetDIBits stores it has rows padded   *)
(* to a multiple of RowAlign bytes; all of the program's own arithmetic    *)
(* takes rows to be biWidth * PixelBytes long.  JPEG is external and taken *)
(* to give back the bytes it was given, row by row.                        *)
(***************************************************************************)
EXTENDS Integers, Sequences

CONSTANTS
    PixelBytes,             \* m_wPixelBytes, 3 in the program
    RowAlign,               \* rows of a DIB are padded to this, 4 bytes on Windows
    SCAN_MODIFY_RECT_UNIT   \* width and height of a block, 32 pixels in the program

ASSUME PictureAssumption ==
    /\ PixelBytes \in Nat \ {0} /\ RowAlign \in Nat \ {0}
    /\ SCAN_MODIFY_RECT_UNIT \in Nat \ {0}

Dimensions(widths, heights) == [biWidth : widths, biHeight : heights]

RowBytes(d)  == d.biWidth * PixelBytes
UnitBytes    == SCAN_MODIFY_RECT_UNIT * PixelBytes
LinearSize(d) == RowBytes(d) * d.biHeight

\* GetDIBits, CreateDIBSection and StretchDIBits: the padded row.
Stride(d)    == ((RowBytes(d) + RowAlign - 1) \div RowAlign) * RowAlign
SizeImage(d) == Stride(d) * d.biHeight

ColumnCount(d) == (d.biWidth - 1) \div SCAN_MODIFY_RECT_UNIT + 1
RowCount(d)    == (d.biHeight - 1) \div SCAN_MODIFY_RECT_UNIT + 1

-----------------------------------------------------------------------------
(* The server.                                                             *)

\* nScanPixelByteCount: the last unit of a row may be shorter.
ScanPixelByteCount(d, column) ==
    IF column = ColumnCount(d) - 1
    THEN RowBytes(d) - (ColumnCount(d) - 1) * UnitBytes
    ELSE UnitBytes

\* nScanStartPixelByte before unit k of the scan, which goes through the units of
\* a row of pixels and then to the next row.
ScanStart(d) ==
    LET start[k \in 0..d.biHeight * ColumnCount(d)] ==
            IF k = 0 THEN 0
            ELSE start[k - 1] + ScanPixelByteCount(d, (k - 1) % ColumnCount(d))
    IN  start

\* CScreenBitmap::GetModifiedBlocks: the blocks with a unit that memcmp tells apart.
GetModifiedBlocks(new, last, d) ==
    LET start == ScanStart(d)
        Modified(k) == \E i \in 0..ScanPixelByteCount(d, k % ColumnCount(d)) - 1 :
                            new[start[k] + i] # last[start[k] + i]
        BlockOfUnit(k) == ((k \div ColumnCount(d)) \div SCAN_MODIFY_RECT_UNIT) * ColumnCount(d)
                          + (k % ColumnCount(d))
    IN  {BlockOfUnit(k) : k \in {u \in 0..d.biHeight * ColumnCount(d) - 1 : Modified(u)}}

\* The rectangle of a block, alike in AsynSendTransterModifyBitmap of the server and
\* OnGetTransferModifyBitmap of the viewer; at the right and the lower edge it ends
\* with the screen.
OneModified(b, d) ==
    LET row    == b \div ColumnCount(d)
        column == b % ColumnCount(d)
        left   == column * SCAN_MODIFY_RECT_UNIT
        top    == row * SCAN_MODIFY_RECT_UNIT
    IN  [left   |-> left, top |-> top,
         width  |-> (IF column = ColumnCount(d) - 1 THEN d.biWidth
                     ELSE left + SCAN_MODIFY_RECT_UNIT) - left,
         height |-> (IF row = RowCount(d) - 1 THEN d.biHeight
                     ELSE top + SCAN_MODIFY_RECT_UNIT) - top]

\* CScreenBitmap::GetBuffer.
GetBuffer(x, y, d) == y * RowBytes(d) + x * PixelBytes

\* ClipBitmapRect: byte k of row j of a block.
Clip(buf, rc, j, k, d) == buf[GetBuffer(rc.left, rc.top + j, d) + k]

\* Length of a row of the image that has n blocks side by side.
ImageRowBytes(n) == n * UnitBytes

\* A byte of ZeroMemory.
Zero == <<0>>

\* AsynSendTransterModifyBitmap: what a block does not fill of its square is zero.
ModifiedImage(buf, blocks, d) ==
    [p \in 0..SCAN_MODIFY_RECT_UNIT * ImageRowBytes(Len(blocks)) - 1 |->
        LET j  == p \div ImageRowBytes(Len(blocks))
            at == p % ImageRowBytes(Len(blocks))
            rc == OneModified(blocks[at \div UnitBytes + 1], d)
            k  == at % UnitBytes
        IN  IF j < rc.height /\ k < rc.width * PixelBytes THEN Clip(buf, rc, j, k, d) ELSE Zero]

-----------------------------------------------------------------------------
(* The viewer.                                                             *)

\* Faulty: one row is missing.
WholePictureShort(buf, d) == [a \in 0..LinearSize(d) - RowBytes(d) - 1 |-> buf[a]]

\* JPEG::Compress and JPEG::Decompress of the whole picture: rows without padding
\* on both sides, and OnGetTransferBitmap keeps as much as they make.
WholePicture(buf, d) == [a \in 0..LinearSize(d) - 1 |-> buf[a]]

\* Faulty: the blocks of the image are taken to be as wide as the first.
ColumnStartPosPacked(i, rc) == i * rc.width * PixelBytes

\* nColumnStartPos of block i of the image.
ColumnStartPos(i, rc) == i * UnitBytes

\* OnGetTransferModifyBitmap: every row of every block is copied to its place
\* (CMainWindow::GetBuffer, which has the server's arithmetic).
DrawModified(view, blocks, img, d) ==
    LET Copies == UNION {LET rc == OneModified(blocks[i], d)
                         IN  {[to   |-> (rc.top + j) * RowBytes(d) + rc.left * PixelBytes + k,
                               from |-> j * ImageRowBytes(Len(blocks)) + ColumnStartPos(i - 1, rc) + k]
                               : j \in 0..rc.height - 1, k \in 0..rc.width * PixelBytes - 1}
                         : i \in 1..Len(blocks)}
        source == [a \in {c.to : c \in Copies} |-> (CHOOSE c \in Copies : c.to = a).from]
    IN  [a \in DOMAIN view |-> IF a \in DOMAIN source THEN img[source[a]] ELSE view[a]]

\* A byte that StretchDIBits reads past the end of the buffer.
Outside == <<"outside">>

\* What StretchDIBits makes of a buffer: byte k of row y.
Shown(buf, d) ==
    [yk \in (0..d.biHeight - 1) \X (0..RowBytes(d) - 1) |->
        LET a == yk[1] * Stride(d) + yk[2]
        IN  IF a \in DOMAIN buf THEN buf[a] ELSE Outside]
=============================================================================
