----------------------------- MODULE HttpStream -----------------------------
(***************************************************************************)
(* HTTP packages in a TCP stream: the parser of the tracker's requests     *)
(* (CHttpClientConnection) and that of the responses, which the hosts' and *)
(* the viewers' CP2PTrackerClient have alike.  Unlike DecodeBuffer of the  *)
(* command stream they keep what they cannot use yet.                      *)
(*                                                                         *)
(* A stream is a sequence of tokens <<text, value>>: the pieces of a       *)
(* package that the parser looks for, cut where a cut makes a difference   *)
(* (within "HTTP/1.1" and between CR and LF).                              *)
(***************************************************************************)
EXTENDS Naturals, Sequences, SequencesExt, FiniteSetsExt

CONSTANTS
    Line,         \* paths of requests, or statuses of responses
    Header,       \* values of the header the handlers look for
    MaxBody,      \* bound: tokens of a body
    MaxPackages,  \* bound: packages sent on the connection
    Nothing       \* no such header, no line yet

VARIABLES
    parser,              \* "request" or "response"
    packages,            \* packages sent
    tokens,              \* tokens on their way
    decoding,            \* OnRead or conn_readcb is in DecodeBuffer
    m_nHttpBufferState,
    m_strBuffer,         \* m_strRequestBuffer, m_strResponseBuffer
    m_strLine,           \* m_strRequestPath, m_nResponseCode
    m_Headers,           \* m_RequestHeaders, m_ResponseHeaders
    handled,             \* what OnHttpRequest or OnHttpResponse was called with
    refused              \* history: a first line was refused

parserVars == <<m_nHttpBufferState, m_strBuffer, m_strLine, m_Headers>>
httpVars == <<parser, packages, tokens, decoding, parserVars, handled, refused>>

T(text) == <<text, 0>>
CRLF == <<T("CR"), T("LF")>>
HTTP11 == <<T("HTTP"), T("/1.1")>>
Bodies == {[i \in 1..n |-> <<"body", i>>] : n \in 0..MaxBody}

\* CHttpClientConnection gets the peer's address in a header, which the proxy
\* in front of the tracker adds to every request; a response may have a
\* Connect-Peer or Connect-Peer-Result header.
Packages == [line : Line, hdr : IF parser = "request" THEN Header ELSE Header \cup {Nothing},
             body : Bodies]

HttpInit ==
    /\ parser \in {"request", "response"}
    /\ packages = <<>> /\ tokens = <<>> /\ decoding = FALSE
    /\ m_nHttpBufferState = "HBS_READY" /\ m_strBuffer = <<>> /\ m_strLine = Nothing
    /\ m_Headers = <<>> /\ handled = <<>> /\ refused = FALSE

\* SendHttpPackage of the peers; Send200, ConnectPeer and PeerResult of the tracker.
FirstLine(p) ==
    IF parser = "request" THEN <<T("POST"), <<"line", p.line>>>> \o HTTP11
    ELSE HTTP11 \o <<<<"line", p.line>>>>

Package(p) ==
    FirstLine(p) \o CRLF
    \o (IF p.hdr = Nothing THEN <<>> ELSE <<<<"header", p.hdr>>>> \o CRLF)
    \o <<<<"Content-Length", Len(p.body)>>>> \o CRLF \o CRLF \o p.body

Stream(list) == FoldLeft(LAMBDA read, p : read \o Package(p), <<>>, list)

SendHttpPackage ==
    /\ Len(packages) < MaxPackages
    /\ \E p \in Packages : packages' = Append(packages, p) /\ tokens' = tokens \o Package(p)
    /\ UNCHANGED <<parser, decoding, parserVars, handled, refused>>

\* OnRead, conn_readcb: all that has arrived is appended and decoded.
OnRead ==
    /\ ~decoding
    /\ \E n \in 1..Len(tokens) :
        /\ m_strBuffer' = m_strBuffer \o SubSeq(tokens, 1, n)
        /\ tokens' = SubSeq(tokens, n + 1, Len(tokens))
    /\ decoding' = TRUE
    /\ UNCHANGED <<parser, packages, m_nHttpBufferState, m_strLine, m_Headers, handled, refused>>

\* Where pattern begins in tokens first, or 0: std::string::find.
Find(text, pattern) ==
    LET at == {i \in 1..Len(text) : IsPrefix(pattern, SubSeq(text, i, Len(text)))}
    IN  IF at = {} THEN 0 ELSE Min(at)

Erase(text, n) == SubSeq(text, n + 1, Len(text))

\* DecodeBuffer returns and waits for more.
Wait == decoding' = FALSE /\ UNCHANGED <<parserVars, handled>>

\* Faulty Clears: the headers stay, or the rest is not saved from being cleared.
ClearButHeaders(rest) ==
    /\ m_nHttpBufferState' = "HBS_READY" /\ m_strLine' = Nothing
    /\ m_strBuffer' = rest
    /\ UNCHANGED m_Headers
    /\ decoding' = (rest # <<>>)

ClearWithRest(rest) ==
    /\ m_nHttpBufferState' = "HBS_READY" /\ m_strLine' = Nothing
    /\ m_strBuffer' = <<>>
    /\ m_Headers' = <<>>
    /\ decoding' = FALSE

\* Clear, then DecodeFirstLine of the rest if there is any.
Clear(rest) ==
    /\ m_nHttpBufferState' = "HBS_READY" /\ m_strLine' = Nothing
    /\ m_strBuffer' = rest
    /\ m_Headers' = <<>>
    /\ decoding' = (rest # <<>>)

\* The first line is not one: a response must have the whole "HTTP/1.1" in the
\* buffer, a request a known method, which is looked at when the line is there.
\* (Send404 answers such a request.)
NoFirstLine ==
    IF parser = "response" THEN Find(m_strBuffer, HTTP11) # 1
    ELSE Find(m_strBuffer, CRLF) # 0 /\ m_strBuffer[1] # T("POST")

DecodeFirstLine ==
    /\ decoding /\ m_nHttpBufferState = "HBS_READY"
    /\ ~NoFirstLine
    /\ LET pos == Find(m_strBuffer, CRLF)
       IN  IF pos = 0 THEN Wait
           ELSE /\ m_strLine' = m_strBuffer[IF parser = "request" THEN 2 ELSE 3][2]
                /\ m_nHttpBufferState' = "HBS_HEADER"
                /\ m_strBuffer' = Erase(m_strBuffer, pos + 1)
                /\ UNCHANGED <<decoding, m_Headers, handled>>
    /\ UNCHANGED <<parser, packages, tokens, refused>>

\* DecodeFirstLine drops all there is in the buffer.
RefuseFirstLine ==
    /\ decoding /\ m_nHttpBufferState = "HBS_READY"
    /\ NoFirstLine
    /\ Clear(<<>>)
    /\ refused' = TRUE
    /\ UNCHANGED <<parser, packages, tokens, handled>>

\* DecodeOneHeader of every line before the blank one: what is between line ends.
HeaderLines(text) ==
    LET lines[i \in 0..Len(text)] ==
            IF i = 0 THEN <<>>
            ELSE IF text[i] \in {CRLF[1], CRLF[2]} THEN lines[i - 1]
            ELSE Append(lines[i - 1], text[i])
    IN  lines[Len(text)]

\* DecodeHeader: nothing is decoded before the blank line is there.  (The
\* address it takes from the headers is m_addr of PeerTracker.)
DecodeHttpHeader ==
    /\ decoding /\ m_nHttpBufferState = "HBS_HEADER"
    /\ LET pos == Find(m_strBuffer, CRLF \o CRLF)
       IN  IF pos = 0 THEN Wait
           ELSE /\ m_Headers' = m_Headers \o HeaderLines(SubSeq(m_strBuffer, 1, pos - 1))
                /\ m_nHttpBufferState' = "HBS_BODY"
                /\ m_strBuffer' = Erase(m_strBuffer, pos + 3)
                /\ UNCHANGED <<decoding, m_strLine, handled>>
    /\ UNCHANGED <<parser, packages, tokens, refused>>

\* evhttp_find_header: the value of the first header of that name.
FindHeader(name, default) ==
    LET at == {i \in 1..Len(m_Headers) : m_Headers[i][1] = name}
    IN  IF at = {} THEN default ELSE m_Headers[Min(at)][2]

\* A faulty BodyIsThere: a body that fills the buffer is waited for.
BodyIsThereAndMore(length) == length < Len(m_strBuffer)

BodyIsThere(length) == length <= Len(m_strBuffer)

\* DecodeBody with OnHttpRequest or OnHttpResponse.
DecodeBody ==
    /\ decoding /\ m_nHttpBufferState = "HBS_BODY"
    /\ LET length == FindHeader("Content-Length", 0)
       IN  IF ~BodyIsThere(length) THEN Wait
           ELSE /\ handled' = Append(handled, [line |-> m_strLine,
                                               hdr  |-> FindHeader("header", Nothing),
                                               body |-> SubSeq(m_strBuffer, 1, length)])
                /\ Clear(Erase(m_strBuffer, length))
    /\ UNCHANGED <<parser, packages, tokens, refused>>

HttpNext ==
    \/ SendHttpPackage \/ OnRead
    \/ DecodeFirstLine \/ RefuseFirstLine \/ DecodeHttpHeader \/ DecodeBody

HttpSpec == HttpInit /\ [][HttpNext]_httpVars

-----------------------------------------------------------------------------
\* Tokens that have been delivered.
Delivered == Len(Stream(packages)) - Len(tokens)

\* How many of the packages have been delivered to their last token.
Arrived == Max({k \in 0..Len(packages) : Len(Stream(SubSeq(packages, 1, k))) <= Delivered})

\* However TCP cuts the stream: when the parser waits for more, it has handled
\* exactly the packages that have arrived whole, in order, each with its own
\* first line, headers and body.  In particular none waits in the buffer for the
\* next chunk, which may never come.  (Until a response is refused because the
\* chunk ended within its "HTTP/1.1"; requests never are.)
HandledWhenArrived ==
    ~decoding /\ (parser = "response" => ~refused) => handled = SubSeq(packages, 1, Arrived)

\* What has become of the package that is arriving: how much of it is no longer
\* in the buffer.
Used ==
    LET p == packages[Len(handled) + 1]
    IN  CASE m_nHttpBufferState = "HBS_READY"  -> 0
          [] m_nHttpBufferState = "HBS_HEADER" -> Len(FirstLine(p) \o CRLF)
          [] m_nHttpBufferState = "HBS_BODY"   -> Len(Package(p)) - Len(p.body)

\* At every step of the parser the buffer is what has been delivered and not been
\* used, so that no token is lost or used twice, and there are no headers but
\* those of the package that is arriving.
NothingLostInBuffer ==
    /\ ~refused =>
         m_strBuffer \o tokens = Erase(Stream(packages), Len(Stream(handled)) + Used)
    /\ m_nHttpBufferState # "HBS_BODY" => m_Headers = <<>>

\* A refused response takes others with it, but what is handled is always a
\* package that was sent, whole and in order: nothing is made up of the remains.
HandledWereSent ==
    \E order \in [1..Len(handled) -> 1..Len(packages)] :
        /\ \A i, j \in 1..Len(handled) : i < j => order[i] < order[j]
        /\ \A i \in 1..Len(handled) : handled[i] = packages[order[i]]
=============================================================================
