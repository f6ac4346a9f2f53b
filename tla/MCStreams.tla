----------------------------- MODULE MCStreams ------------------------------
(***************************************************************************)
(* The three decoders of the system for TLC: commands in a byte stream      *)
(* (CommandStream), the fields in the content of a command (CommandCodec),  *)
(* and HTTP packages in a byte stream (HttpStream).  An initial state       *)
(* chooses one of them.                                                     *)
(*                                                                         *)
(* Content words of the command stream have the values of codes and of      *)
(* lengths, so that content taken for a header is not always noticed; HTTP  *)
(* packages differ in their header and in the length of their body.         *)
(***************************************************************************)
EXTENDS CommandStream, CommandCodec, HttpStream

VARIABLES
    subject,   \* which decoder is looked at
    command    \* a command and its fields, or None

Sender == [server |-> {"LogonResult", "TransferBitmapServer", "TransferBitmapServerJPEG",
                       "TransferModifyBitmap", "Disconnect"},
           viewer |-> {"ProtocalVersion", "Logon", "CompressMode", "TransferBitmapClient",
                       "TransferBitmapClientResponse", "TransferMouseEvent",
                       "TransferKeyboardEvent", "TransferClipboard", "TransferFile",
                       "TransferDirectory", "Disconnect"}]

\* Values of a field: numbers whose bytes are all different, or all 255; no character,
\* one, or more of them.
FieldValues(field) ==
    IF field.kind = "string"
    THEN {[i \in 1..n * field.size |-> (7 * i) % 256] : n \in {0, 1, 3}}
    ELSE {[i \in 1..field.size |-> i], [i \in 1..field.size |-> 255]}

Commands ==
    UNION {{[from |-> side, class |-> class, values |-> values] :
                values \in {v \in [1..Len(Constructor(class)) ->
                                   UNION {FieldValues(f) : f \in Range(Constructor(class))}] :
                            \A i \in DOMAIN v : v[i] \in FieldValues(Constructor(class)[i])}}
           : side \in DOMAIN Sender, class \in UNION {Sender[s] : s \in DOMAIN Sender}}

MCInit ==
    /\ Init /\ HttpInit
    /\ \/ subject = "packages" /\ command = None
       \/ subject = "commands" /\ command = None /\ parser = "request"
       \/ /\ subject = "fields" /\ parser = "request"
          /\ command \in {c \in Commands : c.class \in Sender[c.from]}

MCNext ==
    \/ subject = "commands" /\ Next /\ UNCHANGED <<httpVars, subject, command>>
    \/ subject = "packages" /\ HttpNext /\ UNCHANGED <<vars, subject, command>>

MCSpec ==
    /\ MCInit /\ [][MCNext]_<<vars, httpVars, subject, command>>
    /\ Fairness

-----------------------------------------------------------------------------
\* The content of the command, and what the other side's Parse makes of it.  A viewer
\* gets pictures of the suffix that it has asked for.
Sent == Content(command.class, command.values)

Suffix == IF command.class = "TransferBitmapServer" THEN ".bmp" ELSE ".jpg"

Parsed ==
    LET code == CodeOf(command.class)
    IN  Parse(IF command.from = "viewer" THEN ServerParse(code) ELSE ClientParse(code, Suffix), Sent)

\* Each Parse undoes the constructor of the other side, whatever is in the fields: the
\* handler is called with the values that were given, and no byte is left over.  The
\* one command that the two sides have different ideas of is never misread either:
\* the handler of a directory, whose constructor omits the number of files, is never
\* called.
ParseInvertsConstructor ==
    subject = "fields" =>
        IF command.class = "TransferDirectory" THEN ~Parsed.ok
        ELSE /\ Parsed.ok
             /\ Parsed.values = command.values
             /\ Parsed.m_nPos = Len(Sent)
=============================================================================
