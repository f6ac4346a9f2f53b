--------------------------- MODULE CommandStream ----------------------------
(***************************************************************************)
(* Commands in a TCP byte stream: CommandBase::MakeStream on the sending   *)
(* side, conn_readcb and DecodeBuffer on the receiving side.  DecodeBuffer *)
(* of CRemoteServer and of CRemoteClient is the same code; the server has  *)
(* one m_Command for all its connections, the client has one connection.   *)
(*                                                                         *)
(* A stream is a sequence of words, numbers that stand for four bytes.  A  *)
(* command is two header words, code and length, and its content; the      *)
(* receiver sees numbers and cannot tell a header from content.  A cut     *)
(* within a word and a cut at its beginning have the same effect on the    *)
(* header (ReadUInt32 fails either way), so whole words are enough.        *)
(***************************************************************************)
EXTENDS RDProtocol, Sequences, SequencesExt

CONSTANTS
    Conn,               \* connections that share a receiver
    Code,               \* command codes in use, none of them RDCC_INVALID
    Word,               \* values of a content word
    MaxContent,         \* bound: words of content
    CMD_ITEM_SIZE_MAX,  \* longest content the receiver takes
    MaxSent,            \* bound: commands sent on a connection
    SplitHeaders,       \* the network may deliver part of a header
    None

ASSUME CommandStreamAssumption ==
    /\ Code \subseteq Nat \ {0} /\ Word \subseteq Nat
    /\ MaxContent \in Nat /\ MaxSent \in Nat /\ CMD_ITEM_SIZE_MAX \in Nat
    /\ SplitHeaders \in BOOLEAN
    /\ None \notin Conn

CommandData == [code : Code, data : UNION {[1..n -> Word] : n \in 0..MaxContent}]

VARIABLES
    sent,       \* commands sent on each connection
    stream,     \* words that have not been read from each connection
    reading,    \* the connection conn_readcb runs for, or None
    buf,        \* what is left of the chunk it has read
    m_Command,  \* the command being put together
    received    \* commands handed to OnReciveCommand for each connection

vars == <<sent, stream, reading, buf, m_Command, received>>

NoCommand == [code |-> RDCC_INVALID, length |-> 0, data |-> <<>>]

Init ==
    /\ sent = [c \in Conn |-> <<>>] /\ stream = [c \in Conn |-> <<>>]
    /\ reading = None /\ buf = <<>> /\ m_Command = NoCommand
    /\ received = [c \in Conn |-> <<>>]

MakeStream(cmd) == <<cmd.code, Len(cmd.data)>> \o cmd.data

MakeStreams(cmds) == FoldLeft(LAMBDA words, cmd : words \o MakeStream(cmd), <<>>, cmds)

Send(c) ==
    /\ Len(sent[c]) < MaxSent
    /\ \E cmd \in CommandData :
        /\ sent' = [sent EXCEPT ![c] = Append(@, cmd)]
        /\ stream' = [stream EXCEPT ![c] = @ \o MakeStream(cmd)]
    /\ UNCHANGED <<reading, buf, m_Command, received>>

\* The network has delivered n more words of c, and they end inside a header.
EndsInHeader(c, n) ==
    LET left == Len(stream[c]) - n
    IN  \E i \in 1..Len(sent[c]) :
            left = Len(MakeStreams(SubSeq(sent[c], i, Len(sent[c])))) - 1

\* conn_readcb: all that has arrived is taken out and decoded.
conn_readcb(c) ==
    /\ reading = None
    /\ \E n \in 1..Len(stream[c]) :
        /\ SplitHeaders \/ ~EndsInHeader(c, n)
        /\ buf' = SubSeq(stream[c], 1, n)
        /\ stream' = [stream EXCEPT ![c] = SubSeq(@, n + 1, Len(@))]
    /\ reading' = c
    /\ UNCHANGED <<sent, m_Command, received>>

\* A faulty HandOver: what goes beyond the command in a chunk is thrown away.
HandOverOne(cmd, rest) ==
    /\ received' = [received EXCEPT ![reading] = Append(@, [code |-> cmd.code, data |-> cmd.data])]
    /\ m_Command' = NoCommand
    /\ buf' = <<>>
    /\ reading' = None

\* SendMessage(ONRECIVECOMMAND), InitCommandData, and DecodeBuffer of the rest
\* if there is any.
HandOver(cmd, rest) ==
    /\ received' = [received EXCEPT ![reading] = Append(@, [code |-> cmd.code, data |-> cmd.data])]
    /\ m_Command' = NoCommand
    /\ buf' = rest
    /\ reading' = IF rest = <<>> THEN None ELSE reading

\* A faulty GiveUp: what could not be decoded stays behind as the chunk.
GiveUpKeepingChunk(cmd) ==
    /\ m_Command' = cmd /\ reading' = None
    /\ UNCHANGED <<buf, received>>

\* DecodeBuffer returns with the command as it stands; the chunk is gone.
GiveUp(cmd) ==
    /\ m_Command' = cmd /\ buf' = <<>> /\ reading' = None
    /\ UNCHANGED received

\* The part of content that is in words, which may be less than n.
ReadStringUTF8(words, n) == SubSeq(words, 1, IF n < Len(words) THEN n ELSE Len(words))

\* Put content into m_Command until it has its length.
Collect(cmd, words) ==
    LET data  == ReadStringUTF8(words, cmd.length - Len(cmd.data))
        whole == [cmd EXCEPT !.data = @ \o data]
    IN  IF Len(whole.data) = cmd.length
        THEN HandOver(whole, SubSeq(words, Len(data) + 1, Len(words)))
        ELSE GiveUp(whole)

\* DecodeBuffer with no command begun: a header must be at the beginning of
\* buf, or everything in buf is dropped.
DecodeHeader ==
    /\ reading # None /\ m_Command.code = RDCC_INVALID
    /\ IF Len(buf) < 2 \/ buf[1] = RDCC_INVALID \/ buf[2] > CMD_ITEM_SIZE_MAX
       THEN GiveUp(m_Command)
       ELSE Collect([code |-> buf[1], length |-> buf[2], data |-> <<>>],
                    SubSeq(buf, 3, Len(buf)))
    /\ UNCHANGED <<sent, stream>>

\* DecodeBuffer with a command begun, by whichever connection.
DecodeContent ==
    /\ reading # None /\ m_Command.code # RDCC_INVALID
    /\ Collect(m_Command, buf)
    /\ UNCHANGED <<sent, stream>>

Next ==
    \/ \E c \in Conn : Send(c) \/ conn_readcb(c)
    \/ DecodeHeader \/ DecodeContent

Spec == Init /\ [][Next]_vars

\* The receiver's thread keeps reading what arrives.
Fairness == WF_vars(DecodeHeader \/ DecodeContent) /\ \A c \in Conn : WF_vars(conn_readcb(c))

FairSpec == Spec /\ Fairness

-----------------------------------------------------------------------------
\* Every variable keeps its type, and conn_readcb returns only when DecodeBuffer
\* has used up the chunk: nothing is kept for the next call but m_Command.
TypeOK ==
    /\ sent \in [Conn -> Seq(CommandData)]
    /\ \A c \in Conn : stream[c] \in Seq(Nat)
    /\ reading \in Conn \cup {None} /\ buf \in Seq(Nat)
    /\ m_Command.code \in Nat /\ m_Command.length \in Nat /\ m_Command.data \in Seq(Nat)
    /\ reading = None <=> buf = <<>>

\* What has been read of the command that is being put together.
Begun == IF m_Command.code = RDCC_INVALID THEN <<>>
         ELSE <<m_Command.code, m_Command.length>> \o m_Command.data

\* No word is lost, duplicated or moved, however the stream is cut into chunks:
\* the commands handed over, the one begun, the rest of the chunk and the rest
\* of the stream are, in this order, what was sent.  Stated for a connection
\* that has the receiver to itself.
StreamConserved ==
    \A c \in Conn :
        MakeStreams(received[c]) \o Begun \o buf \o stream[c] = MakeStreams(sent[c])

\* What DecodeBuffer says where it calls OnReciveCommand: one command has been
\* received.  So what a connection has received are the first commands sent on it.
ReceivedAsSent == \A c \in Conn : IsPrefix(received[c], sent[c])

\* Every command arrives, even one whose last words came in a chunk with the
\* beginning of the next.
AllReceived == \A c \in Conn : <>[](received[c] = sent[c])
=============================================================================
