---------------------------- MODULE CommandCodec ----------------------------
(***************************************************************************)
(* The content of commands: what the constructors of cmd.h append, and     *)
(* what the Parse methods of the other side read with stream_buffer.  Both *)
(* are tables of fields here, one transcribed from each side.              *)
(*                                                                         *)
(* Content is a sequence of bytes.  Numbers are the bytes they have in     *)
(* memory, since both sides copy them as they are; only lengths and counts *)
(* are computed with.                                                      *)
(***************************************************************************)
EXTENDS RDProtocol, Sequences, SequencesExt

CONSTANTS
    BitmapInfoSize,         \* sizeof(BitmapInfo), 1064 in the program
    SBS_BASE_BUFFER_SIZE    \* 1024 in the program

\* Kinds of fields: a number of n bytes; characters after their length (a uint32);
\* block numbers after their count; the BitmapInfo structure.
Num(n)     == [kind |-> "number", size |-> n]
String     == [kind |-> "string", size |-> 1]
Blocks     == [kind |-> "string", size |-> 4]
BITMAPINFO == [kind |-> "struct", size |-> BitmapInfoSize]

-----------------------------------------------------------------------------
(* Sending.                                                                *)

\* The fields that the constructor of class CCommand... appends.  That of a directory
\* leaves out nFileCount.
Constructor(class) ==
    CASE class \in {"ProtocalVersion", "Logon"}   -> <<String, String>>
      [] class \in {"LogonResult", "CompressMode", "TransferBitmapClientResponse", "Disconnect"}
                                                  -> <<Num(4)>>
      [] class = "TransferBitmapClient"           -> <<String>>
      [] class = "TransferBitmapServer"           -> <<BITMAPINFO, Num(2), String>>
      [] class = "TransferBitmapServerJPEG"       -> <<Num(2), String>>
      [] class = "TransferModifyBitmap"           -> <<Blocks, String>>
      [] class = "TransferMouseEvent"             -> <<Num(4), Num(4), Num(4), Num(4)>>
      [] class = "TransferKeyboardEvent"          -> <<Num(1), Num(4)>>
      [] class = "TransferClipboard"              -> <<Num(4), String>>
      [] class = "TransferFile"                   -> <<String, Num(8)>>
      [] class = "TransferDirectory"              -> <<String, Num(8)>>

\* The code that the constructor passes to CommandBase.
CodeOf(class) ==
    CASE class = "ProtocalVersion"       -> RDCC_PROTOCOL_VERSION
      [] class = "Logon"                 -> RDCC_LOGON
      [] class = "LogonResult"           -> RDCC_LOGON_RESULT
      [] class = "CompressMode"          -> RDCC_COMPRESS_MODE
      [] class \in {"TransferBitmapClient", "TransferBitmapServer", "TransferBitmapServerJPEG"}
                                         -> RDCC_TRANSFER_BITMAP
      [] class = "TransferBitmapClientResponse" -> RDCC_TRANSFER_BITMAP_RESPONSE
      [] class = "TransferModifyBitmap"  -> RDCC_TRANSFER_MODIFY_BITMAP
      [] class = "TransferMouseEvent"    -> RDCC_TRANSFER_MOUSE_EVENT
      [] class = "TransferKeyboardEvent" -> RDCC_TRANSFER_KEYBOARD_EVENT
      [] class = "TransferClipboard"     -> RDCC_TRANSFER_CLIPBOARD
      [] class = "TransferFile"          -> RDCC_TRANSFER_FILE
      [] class = "TransferDirectory"     -> RDCC_TRANSFER_DIRECTORY
      [] class = "Disconnect"            -> RDCC_DISCONNECT

\* A uint32 in memory, lowest byte first, and back.
UInt32(n) == LET shifted[i \in 0..4] == IF i = 0 THEN n ELSE shifted[i - 1] \div 256
             IN  [i \in 1..4 |-> shifted[i - 1] % 256]

Value(bytes) == FoldRight(LAMBDA b, high : b + 256 * high, bytes, 0)

Append1(field, value) ==
    IF field.kind # "string" THEN value ELSE UInt32(Len(value) \div field.size) \o value

\* m_data.data of a command of that class whose fields have these values.
Content(class, values) ==
    LET layout == Constructor(class)
        after[i \in 0..Len(layout)] ==
            IF i = 0 THEN <<>> ELSE after[i - 1] \o Append1(layout[i], values[i])
    IN  after[Len(layout)]

-----------------------------------------------------------------------------
(* Receiving.                                                              *)

Unknown == <<>>

\* CServerReciveCmdFactory::CreateCmd, and the fields that Parse reads.
ServerParse(code) ==
    CASE code \in {RDCC_PROTOCOL_VERSION, RDCC_LOGON} -> <<String, String>>
      [] code \in {RDCC_COMPRESS_MODE, RDCC_TRANSFER_BITMAP_RESPONSE, RDCC_DISCONNECT}
                                              -> <<Num(4)>>
      [] code = RDCC_TRANSFER_BITMAP          -> <<String>>
      [] code = RDCC_TRANSFER_MOUSE_EVENT     -> <<Num(4), Num(4), Num(4), Num(4)>>
      [] code = RDCC_TRANSFER_KEYBOARD_EVENT  -> <<Num(1), Num(4)>>
      [] code = RDCC_TRANSFER_CLIPBOARD       -> <<Num(4), String>>
      [] code = RDCC_TRANSFER_FILE            -> <<String, Num(8)>>
      [] code = RDCC_TRANSFER_DIRECTORY       -> <<String, Num(4), Num(8)>>
      [] OTHER                                -> Unknown

\* CClientReciveCmdFactory::CreateCmd, and the fields that Parse reads for a viewer
\* that has asked for pictures of this suffix.  (A modified image that ends before its
\* length is not refused, ret && m_nBufferSize > 0; no constructor makes one.)
ClientParse(code, m_strSuffix) ==
    CASE code \in {RDCC_LOGON_RESULT, RDCC_DISCONNECT} -> <<Num(4)>>
      [] code = RDCC_TRANSFER_BITMAP /\ m_strSuffix = ".bmp" -> <<BITMAPINFO, Num(2), String>>
      [] code = RDCC_TRANSFER_BITMAP /\ m_strSuffix = ".jpg" -> <<Num(2), String>>
      [] code = RDCC_TRANSFER_MODIFY_BITMAP   -> <<Blocks, String>>
      [] OTHER                                -> Unknown

\* stream_buffer of a content: for an empty one it makes a buffer of zeros.
StreamBuffer(content) ==
    IF content = <<>> THEN [i \in 1..SBS_BASE_BUFFER_SIZE |-> 0] ELSE content

\* Faulty: the buffer must be longer than what is read.
EnoughAndMore(buffer, pos, n) == pos + n < Len(buffer)

\* m_nPos + n > m_nMaxSize does not hold.
Enough(buffer, pos, n) == pos + n <= Len(buffer)

\* ReadUInt8 ... ReadUInt64 (r is what has been read: whether all went well, m_nPos,
\* and the values so far).
ReadNumber(buffer, r, n) ==
    IF ~Enough(buffer, r.m_nPos, n) THEN [r EXCEPT !.ok = FALSE]
    ELSE [r EXCEPT !.m_nPos = @ + n,
                   !.values = Append(@, SubSeq(buffer, r.m_nPos + 1, r.m_nPos + n))]

\* ReadStringUTF8 of n bytes takes what there is.
ReadBytes(buffer, r, n) ==
    LET end == IF Enough(buffer, r.m_nPos, n) THEN r.m_nPos + n ELSE Len(buffer)
    IN  [r EXCEPT !.m_nPos = end, !.values = Append(@, SubSeq(buffer, r.m_nPos + 1, end))]

\* ReadUInt32 of the length or count, then ReadStringUTF8.
ReadString(buffer, r, unit) ==
    LET length == ReadNumber(buffer, r, 4)
    IN  IF ~length.ok THEN length
        ELSE ReadBytes(buffer, [r EXCEPT !.m_nPos = length.m_nPos],
                            Value(Last(length.values)) * unit)

ReadField(buffer, r, field) ==
    CASE field.kind = "number" -> ReadNumber(buffer, r, field.size)
      [] field.kind = "string" -> ReadString(buffer, r, field.size)
      [] field.kind = "struct" -> ReadBytes(buffer, r, field.size)

\* Parse: ok means that the handler of the command is called, with these values.
Parse(layout, content) ==
    LET buffer == StreamBuffer(content)
        after[i \in 0..Len(layout)] ==
            IF i = 0 THEN [ok |-> layout # Unknown, m_nPos |-> 0, values |-> <<>>]
            ELSE IF after[i - 1].ok THEN ReadField(buffer, after[i - 1], layout[i])
            ELSE after[i - 1]
    IN  after[Len(layout)]
=============================================================================
