-------------------------- MODULE HttpStreamProofs --------------------------
(***************************************************************************)
(* What the HTTP parsers do with a stream that is cut into chunks: proofs  *)
(* of NothingLostInBuffer, HandledWereSent and HandledWhenArrived of       *)
(* HttpStream, for any number of packages, any bodies and any cuts.        *)
(*                                                                         *)
(* Everything is said by positions in the stream of all packages: where a  *)
(* package starts in it (Start), and where the buffer does (Pos).          *)
(***************************************************************************)
EXTENDS HttpStream, SequenceTheorems, NaturalsInduction, WellFoundedInduction, TLAPS

\* Every set of natural numbers but the empty one has a least element.
LEMMA Least ==
    ASSUME NEW S, S \subseteq Nat, S # {}
    PROVE  \E x \in S : \A y \in S : x <= y
<1> DEFINE R == OpToRel(<, Nat)
<1>1. IsWellFoundedOn(R, Nat)
  BY NatLessThanWellFounded, Zenon
<1> HIDE DEF R
<1>2. PICK x \in S : \A y \in S : ~(<<y, x>> \in R)
  BY <1>1, WFMin, Zenon
<1>3. \A y \in S : ~(<<y, x>> \in R) => x <= y
  BY DEF R, OpToRel
<1> QED
  BY <1>2, <1>3

\* Induction: a set that has 0 and, with a number, the next one, has all.
LEMMA Induction ==
    ASSUME NEW S, 0 \in S, \A n \in Nat : n \in S => n + 1 \in S
    PROVE  \A n \in Nat : n \in S
<1> SUFFICES ASSUME NEW m \in Nat, m \notin S PROVE FALSE
  OBVIOUS
<1> DEFINE M == {n \in Nat : n \notin S}
<1>1. PICK x \in M : \A y \in M : x <= y
  <2>1. M \subseteq Nat /\ M # {}
    OBVIOUS
  <2> HIDE DEF M
  <2> QED
    BY <2>1, Least
<1>2. x \in Nat \ {0} /\ x - 1 \in Nat /\ x - 1 \notin M
  BY <1>1
<1>3. x - 1 \in S
  BY <1>2
<1>4. (x - 1) + 1 \in S
  BY <1>2, <1>3
<1> QED
  BY <1>2, <1>4

-----------------------------------------------------------------------------
(* A package as a sequence of tokens, for the parser w that it is sent to. *)

Parsers == {"request", "response"}

\* Tokens and packages of any connection.
Text == {"POST", "HTTP", "/1.1", "CR", "LF", "line", "header", "Content-Length", "body"}
Token == {<<text, value>> : text \in Text, value \in Line \cup Header \cup {Nothing} \cup Nat}

AnyBody == {[i \in 1..n |-> <<"body", i>>] : n \in Nat}

AnyPackage == [line : Line, hdr : Header \cup {Nothing}, body : AnyBody]

FirstLineOf(w, p) ==
    IF w = "request" THEN <<T("POST"), <<"line", p.line>>>> \o HTTP11
    ELSE HTTP11 \o <<<<"line", p.line>>>>

HeaderOf(p) == IF p.hdr = Nothing THEN <<>> ELSE <<<<"header", p.hdr>>>> \o CRLF

PackageOf(w, p) ==
    FirstLineOf(w, p) \o CRLF \o HeaderOf(p)
    \o <<<<"Content-Length", Len(p.body)>>>> \o CRLF \o CRLF \o p.body

\* Length of the first line, and of the header that may be missing.
F(w) == IF w = "request" THEN 4 ELSE 3
Hd(p) == IF p.hdr = Nothing THEN 0 ELSE 3

LEMMA PackagesAreAny == Packages \subseteq AnyPackage
<1>1. Bodies \subseteq AnyBody
  BY DEF Bodies, AnyBody
<1> QED
  BY <1>1 DEF Packages, AnyPackage

LEMMA TokenIs ==
    ASSUME NEW text \in Text, NEW value \in Line \cup Header \cup {Nothing} \cup Nat
    PROVE  <<text, value>> \in Token
BY DEF Token

\* The tokens that have no value, and line ends.
LEMMA FixedTokens ==
    /\ \A text \in Text : T(text) \in Token
    /\ CRLF \in Seq(Token) /\ Len(CRLF) = 2 /\ CRLF[1] = T("CR") /\ CRLF[2] = T("LF")
    /\ HTTP11 \in Seq(Token) /\ Len(HTTP11) = 2 /\ HTTP11[1] = T("HTTP") /\ HTTP11[2] = T("/1.1")
<1>1. \A text \in Text : T(text) \in Token
  BY TokenIs DEF T
<1>2. T("CR") \in Token /\ T("LF") \in Token /\ T("HTTP") \in Token /\ T("/1.1") \in Token
  BY <1>1 DEF Text
<1>3. ASSUME NEW a \in Token, NEW b \in Token
      PROVE  <<a, b>> \in Seq(Token) /\ Len(<<a, b>>) = 2 /\ <<a, b>>[1] = a /\ <<a, b>>[2] = b
  OBVIOUS
<1> QED
  BY <1>1, <1>2, <1>3 DEF CRLF, HTTP11

LEMMA Cat ==
    ASSUME NEW S, NEW s \in Seq(S), NEW t \in Seq(S)
    PROVE  /\ s \o t \in Seq(S) /\ Len(s \o t) = Len(s) + Len(t)
           /\ \A i \in 1..Len(s) : (s \o t)[i] = s[i]
           /\ \A i \in 1..Len(t) : (s \o t)[Len(s) + i] = t[i]
OBVIOUS

\* The same with the lengths given: m tokens, then n.
IsCat(c, s, m, t, n) ==
    /\ c \in Seq(Token) /\ Len(c) = m + n
    /\ \A i \in 1..m : c[i] = s[i]
    /\ \A i \in 1..n : c[m + i] = t[i]

LEMMA CatIs ==
    ASSUME NEW s \in Seq(Token), NEW t \in Seq(Token), NEW m, Len(s) = m, NEW n, Len(t) = n
    PROVE  IsCat(s \o t, s, m, t, n)
BY DEF IsCat

LEMMA BodyType ==
    ASSUME NEW p \in AnyPackage
    PROVE  /\ p.body \in Seq(Token) /\ Len(p.body) \in Nat
           /\ \A i \in 1..Len(p.body) : p.body[i] = <<"body", i>>
<1>1. p.body \in AnyBody
  BY DEF AnyPackage
<1>2. PICK n \in Nat : p.body = [i \in 1..n |-> <<"body", i>>]
  BY <1>1 DEF AnyBody
<1>3. ASSUME NEW i \in 1..n PROVE <<"body", i>> \in Token
  BY TokenIs DEF Text
<1>4. p.body \in [1..n -> Token]
  BY <1>2, <1>3
<1>5. p.body \in Seq(Token) /\ Len(p.body) = n
  BY <1>4
<1> QED
  BY <1>2, <1>5

LEMMA FirstLineTokens ==
    ASSUME NEW w \in Parsers, NEW p \in AnyPackage, NEW q, q = FirstLineOf(w, p)
    PROVE  /\ q \in Seq(Token) /\ Len(q) = F(w)
           /\ w = "request" => /\ q[1] = T("POST") /\ q[2] = <<"line", p.line>>
                               /\ q[3] = T("HTTP") /\ q[4] = T("/1.1")
           /\ w = "response" => q[1] = T("HTTP") /\ q[2] = T("/1.1") /\ q[3] = <<"line", p.line>>
<1>1. <<"line", p.line>> \in Token /\ T("POST") \in Token
  <2>1. p.line \in Line
    BY DEF AnyPackage
  <2> QED
    BY <2>1, TokenIs, FixedTokens DEF Text
<1> DEFINE line == <<"line", p.line>>
           post == T("POST")
           one == <<line>>
           two == <<post, line>>
<1> HIDE DEF line, post
<1>2. /\ one \in Seq(Token) /\ Len(one) = 1 /\ one[1] = line
      /\ two \in Seq(Token) /\ Len(two) = 2 /\ two[1] = post /\ two[2] = line
  BY <1>1 DEF line, post
<1> HIDE DEF one, two
<1>3. /\ HTTP11 \in Seq(Token) /\ Len(HTTP11) = 2 /\ HTTP11[1] = T("HTTP") /\ HTTP11[2] = T("/1.1")
  BY FixedTokens
<1>4. CASE w = "request"
  <2>1. q = two \o HTTP11
    BY <1>4 DEF FirstLineOf, two, line, post
  <2>2. /\ q \in Seq(Token) /\ Len(q) = 2 + 2
        /\ \A i \in 1..2 : q[i] = two[i]
        /\ \A i \in 1..2 : q[2 + i] = HTTP11[i]
    BY <1>2, <1>3, <2>1, Cat
  <2>3. q[1] = two[1] /\ q[2] = two[2] /\ q[3] = HTTP11[1] /\ q[4] = HTTP11[2]
    <3>1. q[2 + 1] = HTTP11[1] /\ q[2 + 2] = HTTP11[2]
      BY <2>2
    <3> QED
      BY <2>2, <3>1
  <2> QED
    BY <1>2, <1>3, <1>4, <2>2, <2>3 DEF F, line, post
<1>5. CASE w = "response"
  <2>1. q = HTTP11 \o one
    BY <1>5 DEF FirstLineOf, one, line
  <2>2. /\ q \in Seq(Token) /\ Len(q) = 2 + 1
        /\ \A i \in 1..2 : q[i] = HTTP11[i]
        /\ \A i \in 1..1 : q[2 + i] = one[i]
    <3>1. IsCat(q, HTTP11, 2, one, 1)
      BY <1>2, <1>3, <2>1, CatIs
    <3> QED
      BY <3>1 DEF IsCat
  <2>3. q[1] = HTTP11[1] /\ q[2] = HTTP11[2] /\ q[3] = one[1]
    <3>1. q[2 + 1] = one[1]
      BY <2>2
    <3> QED
      BY <2>2, <3>1
  <2> QED
    BY <1>2, <1>3, <1>5, <2>2, <2>3 DEF F, line
<1> QED
  BY <1>4, <1>5 DEF Parsers

LEMMA HeaderTokens ==
    ASSUME NEW p \in AnyPackage, NEW q, q = HeaderOf(p)
    PROVE  /\ q \in Seq(Token) /\ Len(q) = Hd(p)
           /\ Hd(p) = 3 => q[1] = <<"header", p.hdr>> /\ q[2] = T("CR") /\ q[3] = T("LF")
<1>1. CASE p.hdr = Nothing
  BY <1>1 DEF HeaderOf, Hd
<1>2. CASE p.hdr # Nothing
  <2> DEFINE header == <<"header", p.hdr>>
             one == <<header>>
  <2>1. header \in Token
    <3>1. p.hdr \in Header
      BY <1>2 DEF AnyPackage
    <3> QED
      BY <3>1, TokenIs DEF Text
  <2> HIDE DEF header
  <2>2. one \in Seq(Token) /\ Len(one) = 1 /\ one[1] = header
    BY <2>1
  <2> HIDE DEF one
  <2>3. q = one \o CRLF
    BY <1>2 DEF HeaderOf, one, header
  <2>4. IsCat(q, one, 1, CRLF, 2)
    BY <2>2, <2>3, FixedTokens, CatIs
  <2>5. q \in Seq(Token) /\ Len(q) = 3 /\ q[1] = one[1] /\ q[1 + 1] = CRLF[1] /\ q[1 + 2] = CRLF[2]
    BY <2>4 DEF IsCat
  <2> QED
    BY <1>2, <2>2, <2>4, <2>5, FixedTokens DEF Hd, header
<1> QED
  BY <1>1, <1>2

\* The tokens of a package by their places.
LEMMA PackageTokens ==
    ASSUME NEW w \in Parsers, NEW p \in AnyPackage, NEW q, q = PackageOf(w, p),
           NEW f, f = F(w), NEW h, h = Hd(p)
    PROVE  /\ q \in Seq(Token) /\ Len(q) = f + h + 7 + Len(p.body)
           /\ f \in {3, 4} /\ h \in {0, 3}
           /\ w = "request" => f = 4 /\ q[1] = T("POST") /\ q[2] = <<"line", p.line>>
                               /\ q[3] = T("HTTP") /\ q[4] = T("/1.1")
           /\ w = "response" => /\ f = 3 /\ q[1] = T("HTTP") /\ q[2] = T("/1.1")
                                /\ q[3] = <<"line", p.line>>
           /\ q[f + 1] = T("CR") /\ q[f + 2] = T("LF")
           /\ h = 3 => /\ q[f + 3] = <<"header", p.hdr>>
                       /\ q[f + 4] = T("CR") /\ q[f + 5] = T("LF")
           /\ q[f + h + 3] = <<"Content-Length", Len(p.body)>>
           /\ q[f + h + 4] = T("CR") /\ q[f + h + 5] = T("LF")
           /\ q[f + h + 6] = T("CR") /\ q[f + h + 7] = T("LF")
           /\ \A i \in 1..Len(p.body) : q[f + h + 7 + i] = p.body[i]
<1> DEFINE a == FirstLineOf(w, p)
           hd == HeaderOf(p)
           cl == <<"Content-Length", Len(p.body)>>
           one == <<cl>>
           a1 == a \o CRLF
           a2 == a1 \o hd
           a3 == a2 \o one
           a4 == a3 \o CRLF
           a5 == a4 \o CRLF
<1>1. /\ a \in Seq(Token) /\ Len(a) = f
      /\ w = "request" => /\ a[1] = T("POST") /\ a[2] = <<"line", p.line>>
                          /\ a[3] = T("HTTP") /\ a[4] = T("/1.1")
      /\ w = "response" => a[1] = T("HTTP") /\ a[2] = T("/1.1") /\ a[3] = <<"line", p.line>>
  BY FirstLineTokens, Zenon
<1>2. /\ f \in {3, 4} /\ h \in {0, 3}
      /\ w = "request" => f = 4
      /\ w = "response" => f = 3
  BY DEF F, Hd, Parsers
<1>3. /\ hd \in Seq(Token) /\ Len(hd) = h
      /\ h = 3 => hd[1] = <<"header", p.hdr>> /\ hd[2] = T("CR") /\ hd[3] = T("LF")
  BY HeaderTokens, Zenon
<1>4. p.body \in Seq(Token) /\ Len(p.body) \in Nat
  BY BodyType
<1>5. CRLF \in Seq(Token) /\ Len(CRLF) = 2 /\ CRLF[1] = T("CR") /\ CRLF[2] = T("LF")
  BY FixedTokens
<1>6. cl \in Token
  BY <1>4, TokenIs DEF Text
<1>7. q = a5 \o p.body
  BY DEF PackageOf
<1> HIDE DEF a, hd, cl
<1>8. one \in Seq(Token) /\ Len(one) = 1 /\ one[1] = cl
  BY <1>6
<1> HIDE DEF one
<1>9. IsCat(a1, a, f, CRLF, 2) /\ a1 \in Seq(Token) /\ Len(a1) = f + 2
  <2>1. IsCat(a1, a, f, CRLF, 2)
    BY <1>1, <1>5, CatIs
  <2> HIDE DEF a1
  <2> QED
    BY <1>2, <2>1 DEF IsCat
<1> HIDE DEF a1
<1>10. IsCat(a2, a1, f + 2, hd, h) /\ a2 \in Seq(Token) /\ Len(a2) = f + h + 2
  <2>1. IsCat(a2, a1, f + 2, hd, h)
    BY <1>9, <1>3, CatIs
  <2> HIDE DEF a2
  <2> QED
    BY <1>2, <2>1 DEF IsCat
<1> HIDE DEF a2
<1>11. IsCat(a3, a2, f + h + 2, one, 1) /\ a3 \in Seq(Token) /\ Len(a3) = f + h + 3
  <2>1. IsCat(a3, a2, f + h + 2, one, 1)
    BY <1>10, <1>8, CatIs
  <2> HIDE DEF a3
  <2> QED
    BY <1>2, <2>1 DEF IsCat
<1> HIDE DEF a3
<1>12. IsCat(a4, a3, f + h + 3, CRLF, 2) /\ a4 \in Seq(Token) /\ Len(a4) = f + h + 5
  <2>1. IsCat(a4, a3, f + h + 3, CRLF, 2)
    BY <1>11, <1>5, CatIs
  <2> HIDE DEF a4
  <2> QED
    BY <1>2, <2>1 DEF IsCat
<1> HIDE DEF a4
<1>13. IsCat(a5, a4, f + h + 5, CRLF, 2) /\ a5 \in Seq(Token) /\ Len(a5) = f + h + 7
  <2>1. IsCat(a5, a4, f + h + 5, CRLF, 2)
    BY <1>12, <1>5, CatIs
  <2> HIDE DEF a5
  <2> QED
    BY <1>2, <2>1 DEF IsCat
<1> HIDE DEF a5
<1>14. IsCat(q, a5, f + h + 7, p.body, Len(p.body))
  BY <1>4, <1>7, <1>13, CatIs
\* What is in a part stays where it is.
<1>16. /\ \A i \in 1..f + h + 5 : q[i] = a4[i]
       /\ \A i \in 1..f + h + 3 : q[i] = a3[i]
       /\ \A i \in 1..f + h + 2 : q[i] = a2[i]
  <2>1. \A i \in 1..f + h + 5 : q[i] = a4[i]
    <3>1. \A i \in 1..f + h + 5 : i \in 1..f + h + 7
      BY <1>2
    <3>2. \A i \in 1..f + h + 7 : q[i] = a5[i]
      BY <1>14, Zenon DEF IsCat
    <3>3. \A i \in 1..f + h + 5 : a5[i] = a4[i]
      BY <1>13, Zenon DEF IsCat
    <3> QED
      BY <3>1, <3>2, <3>3, Zenon
  <2>2. \A i \in 1..f + h + 3 : q[i] = a3[i]
    BY <1>2, <1>12, <2>1 DEF IsCat
  <2>3. \A i \in 1..f + h + 2 : q[i] = a2[i]
    BY <1>2, <1>11, <2>2 DEF IsCat
  <2> QED
    BY <2>1, <2>2, <2>3
<1>17. /\ \A i \in 1..f + 2 : q[i] = a1[i]
       /\ \A i \in 1..f : q[i] = a[i]
  <2>1. \A i \in 1..f + 2 : q[i] = a1[i]
    BY <1>2, <1>10, <1>16 DEF IsCat
  <2>2. \A i \in 1..f : q[i] = a[i]
    BY <1>2, <1>9, <2>1 DEF IsCat
  <2> QED
    BY <2>1, <2>2
<1>18. /\ w = "request" => /\ q[1] = T("POST") /\ q[2] = <<"line", p.line>>
                           /\ q[3] = T("HTTP") /\ q[4] = T("/1.1")
       /\ w = "response" => q[1] = T("HTTP") /\ q[2] = T("/1.1") /\ q[3] = <<"line", p.line>>
  <2>1. 1 \in 1..f /\ 2 \in 1..f /\ 3 \in 1..f /\ (w = "request" => 4 \in 1..f)
    BY <1>2
  <2> QED
    BY <1>1, <1>17, <2>1
<1>19. q[f + 1] = T("CR") /\ q[f + 2] = T("LF")
  <2>1. q[f + 1] = a1[f + 1] /\ q[f + 2] = a1[f + 2]
    BY <1>2, <1>17
  <2>2. a1[f + 1] = CRLF[1] /\ a1[f + 2] = CRLF[2]
    BY <1>2, <1>9 DEF IsCat
  <2> QED
    BY <1>5, <2>1, <2>2
<1>20. ASSUME h = 3
       PROVE  q[f + 3] = <<"header", p.hdr>> /\ q[f + 4] = T("CR") /\ q[f + 5] = T("LF")
  <2>1. q[f + 3] = a2[f + 3] /\ q[f + 4] = a2[f + 4] /\ q[f + 5] = a2[f + 5]
    BY <1>2, <1>16, <1>20
  <2>2. a2[(f + 2) + 1] = hd[1] /\ a2[(f + 2) + 2] = hd[2] /\ a2[(f + 2) + 3] = hd[3]
    BY <1>2, <1>10, <1>20 DEF IsCat
  <2>3. (f + 2) + 1 = f + 3 /\ (f + 2) + 2 = f + 4 /\ (f + 2) + 3 = f + 5
    BY <1>2
  <2> QED
    BY <1>3, <1>20, <2>1, <2>2, <2>3
<1>21. q[f + h + 3] = cl
  <2>1. q[f + h + 3] = a3[f + h + 3]
    BY <1>2, <1>16
  <2>2. a3[(f + h + 2) + 1] = one[1] /\ (f + h + 2) + 1 = f + h + 3
    BY <1>2, <1>11 DEF IsCat
  <2> QED
    BY <1>8, <2>1, <2>2
<1>22. q[f + h + 4] = T("CR") /\ q[f + h + 5] = T("LF")
  <2>1. q[f + h + 4] = a4[f + h + 4] /\ q[f + h + 5] = a4[f + h + 5]
    BY <1>2, <1>16
  <2>2. a4[(f + h + 3) + 1] = CRLF[1] /\ a4[(f + h + 3) + 2] = CRLF[2]
    BY <1>2, <1>12 DEF IsCat
  <2>3. (f + h + 3) + 1 = f + h + 4 /\ (f + h + 3) + 2 = f + h + 5
    BY <1>2
  <2> QED
    BY <1>5, <2>1, <2>2, <2>3
<1>23. q[f + h + 6] = T("CR") /\ q[f + h + 7] = T("LF")
  <2>1. q[f + h + 6] = a5[f + h + 6] /\ q[f + h + 7] = a5[f + h + 7]
    <3>1. \A i \in 1..f + h + 7 : q[i] = a5[i]
      BY <1>14 DEF IsCat
    <3>2. f + h + 6 \in 1..f + h + 7 /\ f + h + 7 \in 1..f + h + 7
      BY <1>2
    <3> QED
      BY <3>1, <3>2
  <2>2. a5[(f + h + 5) + 1] = CRLF[1] /\ a5[(f + h + 5) + 2] = CRLF[2]
    BY <1>2, <1>13 DEF IsCat
  <2>3. (f + h + 5) + 1 = f + h + 6 /\ (f + h + 5) + 2 = f + h + 7
    BY <1>2
  <2> QED
    BY <1>5, <2>1, <2>2, <2>3
<1>24. /\ q \in Seq(Token) /\ Len(q) = f + h + 7 + Len(p.body)
       /\ \A i \in 1..Len(p.body) : q[f + h + 7 + i] = p.body[i]
  BY <1>14 DEF IsCat
<1>25. q[f + h + 3] = <<"Content-Length", Len(p.body)>>
  BY <1>21 DEF cl
<1> QED
  BY <1>2, <1>18, <1>19, <1>20, <1>22, <1>23, <1>24, <1>25, Zenon

-----------------------------------------------------------------------------
(* The stream of a list of packages, and where each of them starts in it.  *)

\* The recursion that FoldLeft is defined by.
FoldsOver(w, f, S, list) ==
    f = [s \in SUBSET S |->
            IF s = {} THEN <<>> ELSE f[s \ {Max(s)}] \o PackageOf(w, list[Max(s)])]

StreamOf(w, list) == (CHOOSE f : FoldsOver(w, f, DOMAIN list, list))[DOMAIN list]

LEMMA PackageIs ==
    ASSUME NEW p PROVE Package(p) = PackageOf(parser, p)
BY DEF Package, PackageOf, FirstLine, FirstLineOf, HeaderOf

LEMMA StreamIs ==
    ASSUME NEW list PROVE Stream(list) = StreamOf(parser, list)
BY PackageIs DEF Stream, FoldLeft, MapThenFoldSet, FoldsOver, StreamOf

LEMMA MaxOfRange ==
    ASSUME NEW k \in Nat, NEW s \in SUBSET (1..k + 1), k + 1 \in s
    PROVE  Max(s) = k + 1
<1>1. \A y \in s : k + 1 >= y
  OBVIOUS
<1>2. \A x \in s : (\A y \in s : x >= y) => x = k + 1
  OBVIOUS
<1>3. \E x \in s : \A y \in s : x >= y
  BY <1>1
<1>4. Max(s) \in s /\ \A y \in s : Max(s) >= y
  BY <1>3, Zenon DEF Max
<1> QED
  BY <1>2, <1>4

LEMMA FoldExists ==
    ASSUME NEW w, NEW list
    PROVE  \A n \in Nat : \E f : FoldsOver(w, f, 1..n, list)
<1> DEFINE N == {n \in Nat : \E f : FoldsOver(w, f, 1..n, list)}
<1>1. 0 \in N
  <2> DEFINE f == [s \in SUBSET (1..0) |-> <<>>]
  <2>1. \A s \in SUBSET (1..0) : s = {}
    OBVIOUS
  <2>2. f = [s \in SUBSET (1..0) |->
              IF s = {} THEN <<>> ELSE f[s \ {Max(s)}] \o PackageOf(w, list[Max(s)])]
    BY <2>1
  <2> QED
    BY <2>2 DEF FoldsOver
<1>2. ASSUME NEW n \in Nat, n \in N PROVE n + 1 \in N
  <2>1. PICK g : FoldsOver(w, g, 1..n, list)
    BY <1>2
  <2> DEFINE f == [s \in SUBSET (1..n + 1) |->
                     IF n + 1 \in s THEN g[s \ {n + 1}] \o PackageOf(w, list[n + 1]) ELSE g[s]]
  <2>2. \A s \in SUBSET (1..n + 1) : /\ s \ {n + 1} \in SUBSET (1..n)
                                     /\ n + 1 \notin s => s \in SUBSET (1..n)
    OBVIOUS
  <2>3. \A s \in SUBSET (1..n) : s \in SUBSET (1..n + 1) /\ n + 1 \notin s
    OBVIOUS
  <2>4. ASSUME NEW s \in SUBSET (1..n + 1)
        PROVE  f[s] = IF s = {} THEN <<>> ELSE f[s \ {Max(s)}] \o PackageOf(w, list[Max(s)])
    <3>1. CASE n + 1 \in s
      <4>1. Max(s) = n + 1
        BY <3>1, MaxOfRange
      <4>2. f[s \ {n + 1}] = g[s \ {n + 1}]
        BY <2>2, <2>3
      <4>3. f[s] = g[s \ {n + 1}] \o PackageOf(w, list[n + 1])
        BY <3>1
      <4> QED
        BY <3>1, <4>1, <4>2, <4>3
    <3>2. CASE n + 1 \notin s
      <4>1. s \in SUBSET (1..n) /\ s \ {Max(s)} \in SUBSET (1..n)
        BY <2>2, <3>2
      <4>2. f[s] = g[s] /\ f[s \ {Max(s)}] = g[s \ {Max(s)}]
        BY <2>3, <4>1
      <4>3. g[s] = IF s = {} THEN <<>> ELSE g[s \ {Max(s)}] \o PackageOf(w, list[Max(s)])
        BY <2>1, <4>1 DEF FoldsOver
      <4> QED
        BY <4>2, <4>3
    <3> QED
      BY <3>1, <3>2
  <2>5. f = [s \in SUBSET (1..n + 1) |-> f[s]]
    OBVIOUS
  <2> HIDE DEF f
  <2>6. FoldsOver(w, f, 1..n + 1, list)
    BY <2>4, <2>5 DEF FoldsOver
  <2> QED
    BY <2>6
<1> HIDE DEF N
<1>3. \A n \in Nat : n \in N
  BY <1>1, <1>2, Induction
<1> QED
  BY <1>3 DEF N

\* The tokens of the first so many packages.
Writes(w, f, list) ==
    /\ f[0] = <<>>
    /\ \A i \in 1..Len(list) : f[i] = f[i - 1] \o PackageOf(w, list[i])

LEMMA StreamWrites ==
    ASSUME NEW w, NEW S, NEW list \in Seq(S)
    PROVE  \E f : Writes(w, f, list) /\ StreamOf(w, list) = f[Len(list)]
<1> DEFINE n == Len(list)
           g == CHOOSE f : FoldsOver(w, f, 1..n, list)
           f == [i \in 0..n |-> g[1..i]]
<1>1. n \in Nat /\ DOMAIN list = 1..n
  OBVIOUS
<1> HIDE DEF n
<1>2. \E h : FoldsOver(w, h, 1..n, list)
  BY <1>1, FoldExists
<1>3. FoldsOver(w, g, 1..n, list)
  BY <1>2
<1>4. StreamOf(w, list) = g[1..n]
  BY <1>1 DEF StreamOf
<1> HIDE DEF g
<1>5. \A s \in SUBSET (1..n) :
        g[s] = IF s = {} THEN <<>> ELSE g[s \ {Max(s)}] \o PackageOf(w, list[Max(s)])
  BY <1>3 DEF FoldsOver
<1>6. f[0] = <<>>
  <2>1. 1..0 = {} /\ {} \in SUBSET (1..n) /\ 0 \in 0..n
    BY <1>1
  <2>2. f[0] = g[{}]
    BY <2>1
  <2> QED
    BY <1>5, <2>1, <2>2
<1>7. ASSUME NEW i \in 1..n PROVE f[i] = f[i - 1] \o PackageOf(w, list[i])
  <2>1. i - 1 \in Nat /\ i - 1 \in 0..n /\ i \in 0..n /\ (i - 1) + 1 = i
    BY <1>1
  <2>2. 1..i \in SUBSET (1..n) /\ i \in 1..i /\ 1..i # {} /\ (1..i) \ {i} = 1..i - 1
    BY <1>1
  <2>3. Max(1..i) = i
    BY <2>1, <2>2, MaxOfRange
  <2>4. g[1..i] = g[1..i - 1] \o PackageOf(w, list[i])
    BY <1>5, <2>2, <2>3
  <2> QED
    BY <2>1, <2>4
<1>8. f[n] = g[1..n]
  BY <1>1
<1> HIDE DEF f
<1> QED
  BY <1>4, <1>6, <1>7, <1>8 DEF Writes, n

\* What has been written is determined by the packages up to there.
LEMMA WritesSame ==
    ASSUME NEW w, NEW list, NEW more, Len(list) \in Nat, Len(more) \in Nat,
           Len(list) <= Len(more), \A i \in 1..Len(list) : list[i] = more[i],
           NEW f, Writes(w, f, list), NEW g, Writes(w, g, more)
    PROVE  f[Len(list)] = g[Len(list)]
<1> DEFINE N == {n \in Nat : n <= Len(list) => f[n] = g[n]}
<1>1. 0 \in N
  BY DEF Writes
<1>2. ASSUME NEW n \in Nat, n \in N PROVE n + 1 \in N
  <2> SUFFICES ASSUME n + 1 <= Len(list) PROVE f[n + 1] = g[n + 1]
    OBVIOUS
  <2>1. n + 1 \in 1..Len(list) /\ n + 1 \in 1..Len(more) /\ (n + 1) - 1 = n /\ f[n] = g[n]
    BY <1>2
  <2> QED
    BY <2>1 DEF Writes
<1> HIDE DEF N
<1>3. Len(list) \in N
  BY <1>1, <1>2, Induction
<1> QED
  BY <1>3 DEF N

LEMMA StreamOfNone ==
    ASSUME NEW w PROVE StreamOf(w, <<>>) = <<>>
<1>1. <<>> \in Seq({}) /\ Len(<<>>) = 0
  OBVIOUS
<1>2. PICK f : Writes(w, f, <<>>) /\ StreamOf(w, <<>>) = f[Len(<<>>)]
  BY <1>1, StreamWrites
<1> QED
  BY <1>1, <1>2 DEF Writes

LEMMA StreamAppend ==
    ASSUME NEW w, NEW S, NEW list \in Seq(S), NEW p \in S
    PROVE  StreamOf(w, Append(list, p)) = StreamOf(w, list) \o PackageOf(w, p)
<1> DEFINE more == Append(list, p)
<1>1. more \in Seq(S) /\ Len(list) \in Nat /\ Len(more) = Len(list) + 1 /\ more[Len(list) + 1] = p
      /\ \A i \in 1..Len(list) : list[i] = more[i]
  OBVIOUS
<1> HIDE DEF more
<1>2. PICK f : Writes(w, f, list) /\ StreamOf(w, list) = f[Len(list)]
  BY StreamWrites
<1>3. PICK g : Writes(w, g, more) /\ StreamOf(w, more) = g[Len(more)]
  BY <1>1, StreamWrites
<1>4. f[Len(list)] = g[Len(list)]
  <2>1. Len(more) \in Nat /\ Len(list) <= Len(more)
    BY <1>1
  <2> QED
    BY <1>1, <1>2, <1>3, <2>1, WritesSame
<1>5. Len(more) \in 1..Len(more) /\ Len(more) - 1 = Len(list)
  BY <1>1
<1>6. g[Len(more)] = g[Len(list)] \o PackageOf(w, p)
  BY <1>1, <1>3, <1>5 DEF Writes
<1>7. StreamOf(w, more) = StreamOf(w, list) \o PackageOf(w, p)
  BY <1>2, <1>3, <1>4, <1>6
<1> QED
  BY <1>7 DEF more

LEMMA PackageType ==
    ASSUME NEW w \in Parsers, NEW p \in AnyPackage
    PROVE  /\ PackageOf(w, p) \in Seq(Token)
           /\ Len(PackageOf(w, p)) = F(w) + Hd(p) + 7 + Len(p.body)
           /\ Len(PackageOf(w, p)) \in Nat /\ Len(PackageOf(w, p)) >= F(w) + 7
<1>1. /\ PackageOf(w, p) \in Seq(Token)
      /\ Len(PackageOf(w, p)) = F(w) + Hd(p) + 7 + Len(p.body)
      /\ F(w) \in {3, 4} /\ Hd(p) \in {0, 3}
  <2> DEFINE q == PackageOf(w, p)
             f == F(w)
             h == Hd(p)
  <2>1. q = PackageOf(w, p) /\ f = F(w) /\ h = Hd(p)
    OBVIOUS
  <2> HIDE DEF q, f, h
  <2>2. q \in Seq(Token) /\ Len(q) = f + h + 7 + Len(p.body) /\ f \in {3, 4} /\ h \in {0, 3}
    BY <2>1, PackageTokens
  <2> QED
    BY <2>2 DEF q, f, h
<1>2. Len(p.body) \in Nat
  BY BodyType
<1> QED
  BY <1>1, <1>2

\* The first j packages, their stream, and where the next package starts.
First(list, j) == SubSeq(list, 1, j)
Start(w, list, j) == Len(StreamOf(w, First(list, j)))

LEMMA FirstIs ==
    ASSUME NEW S, NEW list \in Seq(S), NEW j \in 0..Len(list)
    PROVE  /\ First(list, j) \in Seq(S) /\ Len(First(list, j)) = j
           /\ \A i \in 1..j : First(list, j)[i] = list[i]
BY DEF First

LEMMA FirstNext ==
    ASSUME NEW S, NEW list \in Seq(S), NEW j \in 0..Len(list), j < Len(list)
    PROVE  /\ list[j + 1] \in S /\ j + 1 \in 0..Len(list)
           /\ First(list, j + 1) = Append(First(list, j), list[j + 1])
<1>1. list[j + 1] \in S /\ j + 1 \in 0..Len(list) /\ j \in Nat
  OBVIOUS
<1> DEFINE s == First(list, j + 1)
           t == Append(First(list, j), list[j + 1])
<1>2. s \in Seq(S) /\ Len(s) = j + 1 /\ \A i \in 1..j + 1 : s[i] = list[i]
  BY <1>1, FirstIs
<1>3. /\ First(list, j) \in Seq(S) /\ Len(First(list, j)) = j
      /\ \A i \in 1..j : First(list, j)[i] = list[i]
  BY FirstIs
<1>4. t \in Seq(S) /\ Len(t) = j + 1 /\ \A i \in 1..j + 1 : t[i] = list[i]
  BY <1>1, <1>3
<1> HIDE DEF s, t
<1>5. s = t
  BY <1>1, <1>2, <1>4, SeqEqual
<1> QED
  BY <1>1, <1>5 DEF s, t

LEMMA FirstOfAll ==
    ASSUME NEW S, NEW list \in Seq(S) PROVE First(list, Len(list)) = list /\ First(list, 0) = <<>>
<1>1. Len(list) \in 0..Len(list) /\ 0 \in 0..Len(list) /\ Len(list) \in Nat
  OBVIOUS
<1>2. First(list, Len(list)) = list
  BY <1>1, FirstIs, SeqEqual
<1>3. First(list, 0) \in Seq(S) /\ Len(First(list, 0)) = 0
  BY <1>1, FirstIs
<1> QED
  BY <1>2, <1>3

\* More packages behind do not change the first ones.
LEMMA FirstOfMore ==
    ASSUME NEW S, NEW list \in Seq(S), NEW p \in S, NEW j \in 0..Len(list)
    PROVE  First(Append(list, p), j) = First(list, j)
<1> DEFINE more == Append(list, p)
<1>1. /\ more \in Seq(S) /\ j \in 0..Len(more) /\ j \in Nat
      /\ \A i \in 1..Len(list) : more[i] = list[i]
  OBVIOUS
<1> HIDE DEF more
<1>2. /\ First(more, j) \in Seq(S) /\ Len(First(more, j)) = j
      /\ \A i \in 1..j : First(more, j)[i] = more[i]
  BY <1>1, FirstIs
<1>3. /\ First(list, j) \in Seq(S) /\ Len(First(list, j)) = j
      /\ \A i \in 1..j : First(list, j)[i] = list[i]
  BY FirstIs
<1>4. \A i \in 1..j : First(more, j)[i] = First(list, j)[i]
  BY <1>1, <1>2, <1>3
<1>5. First(more, j) = First(list, j)
  BY <1>1, <1>2, <1>3, <1>4, SeqEqual
<1> QED
  BY <1>5 DEF more

LEMMA StreamType ==
    ASSUME NEW w \in Parsers, NEW list \in Seq(AnyPackage)
    PROVE  \A j \in 0..Len(list) : /\ StreamOf(w, First(list, j)) \in Seq(Token)
                                   /\ Start(w, list, j) \in Nat
<1> DEFINE N == {n \in Nat : n <= Len(list) => StreamOf(w, First(list, n)) \in Seq(Token)}
<1>1. 0 \in N
  <2>1. StreamOf(w, First(list, 0)) = <<>>
    BY FirstOfAll, StreamOfNone
  <2>2. <<>> \in Seq(Token)
    OBVIOUS
  <2>3. StreamOf(w, First(list, 0)) \in Seq(Token)
    BY <2>1, <2>2
  <2> QED
    BY <2>3
<1>2. ASSUME NEW n \in Nat, n \in N PROVE n + 1 \in N
  <2> SUFFICES ASSUME n + 1 <= Len(list) PROVE StreamOf(w, First(list, n + 1)) \in Seq(Token)
    OBVIOUS
  <2>1. n \in 0..Len(list) /\ n < Len(list) /\ StreamOf(w, First(list, n)) \in Seq(Token)
    BY <1>2
  <2>2. /\ list[n + 1] \in AnyPackage /\ First(list, n) \in Seq(AnyPackage)
        /\ First(list, n + 1) = Append(First(list, n), list[n + 1])
    BY <2>1, FirstNext, FirstIs
  <2>3. StreamOf(w, First(list, n + 1)) = StreamOf(w, First(list, n)) \o PackageOf(w, list[n + 1])
    BY <2>2, StreamAppend
  <2>4. PackageOf(w, list[n + 1]) \in Seq(Token)
    BY <2>2, PackageType
  <2> QED
    BY <2>1, <2>3, <2>4, Cat
<1> HIDE DEF N
<1>3. \A n \in Nat : n \in N
  BY <1>1, <1>2, Induction
<1>4. ASSUME NEW j \in 0..Len(list)
      PROVE  StreamOf(w, First(list, j)) \in Seq(Token) /\ Start(w, list, j) \in Nat
  <2>1. j \in Nat /\ j <= Len(list)
    OBVIOUS
  <2>2. StreamOf(w, First(list, j)) \in Seq(Token)
    BY <1>3, <2>1 DEF N
  <2> QED
    BY <2>2 DEF Start
<1> QED
  BY <1>4

LEMMA StreamNext ==
    ASSUME NEW w \in Parsers, NEW list \in Seq(AnyPackage), NEW j \in 0..Len(list), j < Len(list)
    PROVE  /\ list[j + 1] \in AnyPackage /\ j + 1 \in 0..Len(list)
           /\ Start(w, list, j + 1) = Start(w, list, j) + Len(PackageOf(w, list[j + 1]))
           /\ \A i \in 1..Start(w, list, j) :
                 StreamOf(w, First(list, j + 1))[i] = StreamOf(w, First(list, j))[i]
           /\ \A i \in 1..Len(PackageOf(w, list[j + 1])) :
                 StreamOf(w, First(list, j + 1))[Start(w, list, j) + i] = PackageOf(w, list[j + 1])[i]
<1>1. /\ list[j + 1] \in AnyPackage /\ j + 1 \in 0..Len(list) /\ First(list, j) \in Seq(AnyPackage)
      /\ First(list, j + 1) = Append(First(list, j), list[j + 1])
  BY FirstNext, FirstIs
<1> DEFINE s == StreamOf(w, First(list, j))
           t == PackageOf(w, list[j + 1])
           u == StreamOf(w, First(list, j + 1))
<1>2. u = s \o t
  BY <1>1, StreamAppend
<1>3. s \in Seq(Token) /\ t \in Seq(Token)
  BY <1>1, StreamType, PackageType
<1>4. Start(w, list, j) = Len(s) /\ Start(w, list, j + 1) = Len(u)
  BY DEF Start
<1> HIDE DEF s, t, u
<1>5. /\ Len(u) = Len(s) + Len(t)
      /\ \A i \in 1..Len(s) : u[i] = s[i]
      /\ \A i \in 1..Len(t) : u[Len(s) + i] = t[i]
  BY <1>2, <1>3, Cat
<1> QED
  BY <1>1, <1>4, <1>5 DEF s, t, u

\* Packages start one after another, and what is written stays where it is.
LEMMA StreamGrows ==
    ASSUME NEW w \in Parsers, NEW list \in Seq(AnyPackage), NEW j \in 0..Len(list)
    PROVE  \A k \in 0..Len(list) : j <= k =>
              /\ Start(w, list, j) <= Start(w, list, k)
              /\ \A i \in 1..Start(w, list, j) :
                    StreamOf(w, First(list, k))[i] = StreamOf(w, First(list, j))[i]
<1> DEFINE Q(k) == /\ Start(w, list, j) <= Start(w, list, k)
                   /\ \A i \in 1..Start(w, list, j) :
                         StreamOf(w, First(list, k))[i] = StreamOf(w, First(list, j))[i]
           N == {n \in Nat : j <= n /\ n <= Len(list) => Q(n)}
<1>0. Start(w, list, j) \in Nat /\ j \in Nat
  BY StreamType
<1>1. 0 \in N
  <2>1. j <= 0 => j = 0
    BY <1>0
  <2> QED
    BY <1>0, <2>1
<1>2. ASSUME NEW n \in Nat, n \in N PROVE n + 1 \in N
  <2> SUFFICES ASSUME j <= n + 1, n + 1 <= Len(list) PROVE Q(n + 1)
    OBVIOUS
  <2>1. CASE j = n + 1
    BY <1>0, <2>1
  <2>2. CASE j # n + 1
    <3>1. j <= n /\ n < Len(list) /\ n \in 0..Len(list) /\ n + 1 \in 0..Len(list)
      BY <1>0, <2>2
    <3>2. Q(n)
      BY <1>2, <3>1
    <3>3. /\ Start(w, list, n) \in Nat
          /\ list[n + 1] \in AnyPackage
          /\ Start(w, list, n + 1) = Start(w, list, n) + Len(PackageOf(w, list[n + 1]))
          /\ \A i \in 1..Start(w, list, n) :
                 StreamOf(w, First(list, n + 1))[i] = StreamOf(w, First(list, n))[i]
      BY <3>1, StreamNext, StreamType
    <3>4. Len(PackageOf(w, list[n + 1])) \in Nat
      BY <3>3, PackageType
    <3>5. Start(w, list, j) <= Start(w, list, n + 1)
      BY <1>0, <3>2, <3>3, <3>4
    <3>6. ASSUME NEW i \in 1..Start(w, list, j)
          PROVE  StreamOf(w, First(list, n + 1))[i] = StreamOf(w, First(list, j))[i]
      <4>1. i \in 1..Start(w, list, n)
        BY <1>0, <3>2, <3>3
      <4> QED
        BY <3>2, <3>3, <4>1
    <3> QED
      BY <3>5, <3>6
  <2> QED
    BY <2>1, <2>2
<1> HIDE DEF N
<1>3. \A n \in Nat : n \in N
  BY <1>1, <1>2, Induction
<1> HIDE DEF Q
<1>4. ASSUME NEW k \in 0..Len(list), j <= k PROVE Q(k)
  <2>1. k \in Nat /\ k <= Len(list)
    OBVIOUS
  <2> QED
    BY <1>3, <1>4, <2>1 DEF N
<1> QED
  BY <1>4 DEF Q

\* The whole stream has each package where it starts.
LEMMA StreamAt ==
    ASSUME NEW w \in Parsers, NEW list \in Seq(AnyPackage), NEW j \in 0..Len(list), j < Len(list)
    PROVE  /\ list[j + 1] \in AnyPackage /\ j + 1 \in 0..Len(list)
           /\ Start(w, list, j) \in Nat /\ Start(w, list, j + 1) \in Nat
           /\ Start(w, list, j + 1) = Start(w, list, j) + Len(PackageOf(w, list[j + 1]))
           /\ Start(w, list, j + 1) <= Len(StreamOf(w, list))
           /\ \A i \in 1..Len(PackageOf(w, list[j + 1])) :
                 StreamOf(w, list)[Start(w, list, j) + i] = PackageOf(w, list[j + 1])[i]
<1> DEFINE n == Len(list)
           t == PackageOf(w, list[j + 1])
<1>1. n \in 0..n /\ n \in Nat /\ First(list, n) = list
  BY FirstOfAll
<1>2. /\ list[j + 1] \in AnyPackage /\ j + 1 \in 0..n
      /\ Start(w, list, j + 1) = Start(w, list, j) + Len(t)
      /\ \A i \in 1..Len(t) : StreamOf(w, First(list, j + 1))[Start(w, list, j) + i] = t[i]
  BY StreamNext
<1>3. /\ Start(w, list, j) \in Nat /\ Start(w, list, j + 1) \in Nat
  BY <1>2, StreamType
<1>4. Len(t) \in Nat
  BY <1>2, PackageType
<1>5. j + 1 <= n
  BY <1>1
<1> HIDE DEF n, t
<1>6. /\ Start(w, list, j + 1) <= Start(w, list, n)
      /\ \A i \in 1..Start(w, list, j + 1) :
            StreamOf(w, First(list, n))[i] = StreamOf(w, First(list, j + 1))[i]
  BY <1>1, <1>2, <1>5, StreamGrows DEF n
<1>7. Start(w, list, n) = Len(StreamOf(w, list))
  BY <1>1 DEF Start
<1>8. ASSUME NEW i \in 1..Len(t)
      PROVE  StreamOf(w, list)[Start(w, list, j) + i] = t[i]
  <2>1. Start(w, list, j) + i \in 1..Start(w, list, j + 1)
    BY <1>2, <1>3, <1>4
  <2> QED
    BY <1>1, <1>2, <1>6, <2>1
<1> QED
  BY <1>2, <1>3, <1>6, <1>7, <1>8 DEF t, n

\* The beginning and the end.
LEMMA StreamEnds ==
    ASSUME NEW w \in Parsers, NEW list \in Seq(AnyPackage)
    PROVE  /\ StreamOf(w, list) \in Seq(Token) /\ Len(StreamOf(w, list)) \in Nat
           /\ Start(w, list, 0) = 0 /\ Start(w, list, Len(list)) = Len(StreamOf(w, list))
<1>1. First(list, Len(list)) = list /\ First(list, 0) = <<>> /\ Len(list) \in 0..Len(list)
  BY FirstOfAll
<1>2. StreamOf(w, list) \in Seq(Token)
  BY <1>1, StreamType
<1>3. Len(StreamOf(w, <<>>)) = 0
  BY StreamOfNone
<1> QED
  BY <1>1, <1>2, <1>3 DEF Start

\* A later package starts later.
LEMMA StartLater ==
    ASSUME NEW w \in Parsers, NEW list \in Seq(AnyPackage), NEW j \in 0..Len(list),
           NEW k \in 0..Len(list), j < k
    PROVE  Start(w, list, j) + F(w) + 7 <= Start(w, list, k)
<1>0. j \in Nat /\ k \in Nat /\ Len(list) \in Nat
  OBVIOUS
<1>1. j < Len(list) /\ j + 1 <= k
  BY <1>0
<1>2. /\ list[j + 1] \in AnyPackage /\ j + 1 \in 0..Len(list)
      /\ Start(w, list, j) \in Nat /\ Start(w, list, j + 1) \in Nat
      /\ Start(w, list, j + 1) = Start(w, list, j) + Len(PackageOf(w, list[j + 1]))
  BY <1>1, StreamAt
<1>3. Len(PackageOf(w, list[j + 1])) \in Nat /\ Len(PackageOf(w, list[j + 1])) >= F(w) + 7
  BY <1>2, PackageType
<1>4. Start(w, list, k) \in Nat /\ Start(w, list, j + 1) <= Start(w, list, k)
  BY <1>1, <1>2, StreamGrows, StreamType
<1>5. F(w) \in Nat
  BY DEF F
<1> QED
  BY <1>2, <1>3, <1>4, <1>5

\* Every token of the stream is one of a package.
LEMMA Locate ==
    ASSUME NEW w \in Parsers, NEW list \in Seq(AnyPackage),
           NEW i \in 1..Len(StreamOf(w, list))
    PROVE  \E j \in 0..Len(list) : /\ j < Len(list)
                                   /\ Start(w, list, j) < i /\ i <= Start(w, list, j + 1)
<1> DEFINE n == Len(list)
           J == {j \in 0..n : i <= Start(w, list, j)}
<1>1. n \in 0..n /\ n \in Nat /\ i \in Nat /\ i > 0
  BY StreamEnds
<1>2. Start(w, list, 0) = 0 /\ Start(w, list, n) = Len(StreamOf(w, list))
  BY StreamEnds
<1> HIDE DEF n
<1>3. n \in J /\ J \subseteq Nat
  BY <1>1, <1>2
<1>4. PICK k \in J : \A y \in J : k <= y
  BY <1>3, Least
<1>5. k \in 0..n /\ k # 0 /\ i <= Start(w, list, k)
  BY <1>1, <1>2, <1>4
<1>6. k - 1 \in 0..n /\ k - 1 < n /\ (k - 1) + 1 = k /\ k - 1 \notin J
  BY <1>1, <1>4, <1>5
<1>7. Start(w, list, k - 1) \in Nat
  BY <1>6, StreamType DEF n
<1>8. Start(w, list, k - 1) < i
  BY <1>1, <1>6, <1>7
<1> QED
  BY <1>5, <1>6, <1>8 DEF n

\* The tokens t are those of the stream W from pos on, or the ones of the package q
\* behind its first c, as far as it goes.
Lies(t, W, pos) == \A i \in 1..Len(t) : t[i] = W[pos + i]
Begins(t, c, q) == \A i \in 1..Len(t) : c + i <= Len(q) => t[i] = q[c + i]

\* A buffer that begins c tokens behind the start of a package has the tokens of it.
LEMMA InBuffer ==
    ASSUME NEW w \in Parsers, NEW list \in Seq(AnyPackage), NEW j \in 0..Len(list), j < Len(list),
           NEW c \in Nat, NEW pos, pos = Start(w, list, j) + c, NEW buf, Len(buf) \in Nat,
           Lies(buf, StreamOf(w, list), pos)
    PROVE  Begins(buf, c, PackageOf(w, list[j + 1]))
<1> DEFINE b == Start(w, list, j)
           q == PackageOf(w, list[j + 1])
           W == StreamOf(w, list)
<1>1. b \in Nat /\ list[j + 1] \in AnyPackage /\ \A i \in 1..Len(q) : W[b + i] = q[i]
  BY StreamAt
<1>2. Len(q) \in Nat
  BY <1>1, PackageType
<1>3. pos = b + c /\ \A i \in 1..Len(buf) : buf[i] = W[pos + i]
  BY DEF Lies
<1> HIDE DEF b, q, W
<1>4. ASSUME NEW i \in 1..Len(buf), c + i <= Len(q) PROVE buf[i] = q[c + i]
  <2>1. c + i \in 1..Len(q) /\ b + (c + i) = (b + c) + i
    BY <1>1, <1>2, <1>4
  <2>2. W[b + (c + i)] = q[c + i]
    BY <1>1, <2>1
  <2> QED
    BY <1>3, <2>1, <2>2
<1> QED
  BY <1>4 DEF q, Begins

-----------------------------------------------------------------------------
(* What the parsers find in the buffer.                                    *)

At(t, i, pat) ==
    i + Len(pat) <= Len(t) + 1 /\ \A k \in 1..Len(pat) : t[i + k - 1] = pat[k]

LEMMA PrefixIs ==
    ASSUME NEW t \in Seq(Token), NEW pat \in Seq(Token), NEW i \in 1..Len(t)
    PROVE  IsPrefix(pat, SubSeq(t, i, Len(t))) <=> At(t, i, pat)
<1> DEFINE s == SubSeq(t, i, Len(t))
           n == Len(pat)
<1>1. /\ s \in Seq(Token) /\ Len(s) = Len(t) + 1 - i /\ n \in Nat /\ Len(t) \in Nat
      /\ \A k \in 1..Len(s) : s[k] = t[i + k - 1]
  OBVIOUS
<1>2. SubSeq(pat, 1, n) = pat
  OBVIOUS
<1> HIDE DEF s, n
<1>3. IsPrefix(pat, s) <=> n <= Len(s) /\ pat = SubSeq(s, 1, n)
  BY <1>1, <1>2 DEF IsPrefix, n
<1>4. ASSUME n <= Len(s)
      PROVE  pat = SubSeq(s, 1, n) <=> \A k \in 1..n : t[i + k - 1] = pat[k]
  <2> DEFINE u == SubSeq(s, 1, n)
  <2>1. u \in Seq(Token) /\ Len(u) = n /\ \A k \in 1..n : u[k] = s[k]
    BY <1>1, <1>4
  <2>2. \A k \in 1..n : k \in 1..Len(s) /\ u[k] = t[i + k - 1]
    BY <1>1, <1>4, <2>1
  <2> HIDE DEF u
  <2>3. pat = u <=> \A k \in 1..n : u[k] = pat[k]
    BY <2>1, SeqEqual DEF n
  <2> QED
    BY <2>2, <2>3 DEF u
<1>5. n <= Len(s) <=> i + n <= Len(t) + 1
  BY <1>1
<1>6. IsPrefix(pat, s) <=> At(t, i, pat)
  BY <1>3, <1>4, <1>5 DEF At, n
<1> QED
  BY <1>6 DEF s

\* find finds the first place, or none.
LEMMA FindFirst ==
    ASSUME NEW t \in Seq(Token), NEW pat \in Seq(Token), NEW n \in 1..Len(t),
           At(t, n, pat), \A i \in 1..Len(t) : i < n => ~At(t, i, pat)
    PROVE  Find(t, pat) = n
<1> DEFINE S == {i \in 1..Len(t) : IsPrefix(pat, SubSeq(t, i, Len(t)))}
<1>1. S = {i \in 1..Len(t) : At(t, i, pat)}
  BY PrefixIs
<1>2. S # {} /\ Find(t, pat) = Min(S)
  BY <1>1 DEF Find
<1> HIDE DEF S
<1>3. n \in S /\ \A y \in S : n <= y
  BY <1>1
<1>4. \A x \in S : (\A y \in S : x <= y) => x = n
  BY <1>1, <1>3
<1>5. Min(S) \in S /\ \A y \in S : Min(S) <= y
  BY <1>3, Zenon DEF Min
<1> QED
  BY <1>2, <1>4, <1>5

LEMMA FindNone ==
    ASSUME NEW t \in Seq(Token), NEW pat \in Seq(Token), \A i \in 1..Len(t) : ~At(t, i, pat)
    PROVE  Find(t, pat) = 0
<1>1. {i \in 1..Len(t) : IsPrefix(pat, SubSeq(t, i, Len(t)))} = {}
  BY PrefixIs
<1> QED
  BY <1>1 DEF Find

LEMMA Found ==
    ASSUME NEW t \in Seq(Token), NEW pat \in Seq(Token), Find(t, pat) # 0
    PROVE  Find(t, pat) \in 1..Len(t) /\ At(t, Find(t, pat), pat)
<1> DEFINE S == {i \in 1..Len(t) : IsPrefix(pat, SubSeq(t, i, Len(t)))}
<1>1. S = {i \in 1..Len(t) : At(t, i, pat)}
  BY PrefixIs
<1>2. S # {} /\ Find(t, pat) = Min(S)
  BY DEF Find
<1> HIDE DEF S
<1>3. S \subseteq Nat
  BY <1>1
<1>4. PICK x \in S : \A y \in S : x <= y
  BY <1>2, <1>3, Least
<1>5. Min(S) \in S
  BY <1>4, Zenon DEF Min
<1> QED
  BY <1>1, <1>2, <1>5

LEMMA AtCRLF ==
    ASSUME NEW t \in Seq(Token), NEW i \in 1..Len(t)
    PROVE  At(t, i, CRLF) <=> i < Len(t) /\ t[i] = T("CR") /\ t[i + 1] = T("LF")
<1> DEFINE c == CRLF
           CR == T("CR")
           LF == T("LF")
<1>1. Len(c) = 2 /\ c[1] = CR /\ c[2] = LF
  BY FixedTokens
<1> HIDE DEF c, CR, LF
<1>2. Len(t) \in Nat /\ i + 1 - 1 = i /\ i + 2 - 1 = i + 1
  OBVIOUS
<1>3. At(t, i, c) <=> i + 2 <= Len(t) + 1 /\ \A k \in {1, 2} : t[i + k - 1] = c[k]
  <2>1. 1..2 = {1, 2}
    OBVIOUS
  <2> QED
    BY <1>1, <2>1, Zenon DEF At
<1>4. At(t, i, c) <=> i < Len(t) /\ t[i] = CR /\ t[i + 1] = LF
  BY <1>1, <1>2, <1>3
<1> QED
  BY <1>4 DEF c, CR, LF

LEMMA AtHTTP11 ==
    ASSUME NEW t \in Seq(Token), NEW i \in 1..Len(t)
    PROVE  At(t, i, HTTP11) <=> i < Len(t) /\ t[i] = T("HTTP") /\ t[i + 1] = T("/1.1")
<1> DEFINE c == HTTP11
           http == T("HTTP")
           ver == T("/1.1")
<1>1. Len(c) = 2 /\ c[1] = http /\ c[2] = ver
  BY FixedTokens
<1> HIDE DEF c, http, ver
<1>2. Len(t) \in Nat /\ i + 1 - 1 = i /\ i + 2 - 1 = i + 1
  OBVIOUS
<1>3. At(t, i, c) <=> i + 2 <= Len(t) + 1 /\ \A k \in {1, 2} : t[i + k - 1] = c[k]
  <2>1. 1..2 = {1, 2}
    OBVIOUS
  <2> QED
    BY <1>1, <2>1, Zenon DEF At
<1>4. At(t, i, c) <=> i < Len(t) /\ t[i] = http /\ t[i + 1] = ver
  BY <1>1, <1>2, <1>3
<1> QED
  BY <1>4 DEF c, http, ver

Blank == CRLF \o CRLF

LEMMA AtBlank ==
    ASSUME NEW t \in Seq(Token), NEW i \in 1..Len(t)
    PROVE  /\ Blank \in Seq(Token)
           /\ At(t, i, Blank) <=> /\ i + 3 <= Len(t) /\ t[i] = T("CR") /\ t[i + 1] = T("LF")
                                  /\ t[i + 2] = T("CR") /\ t[i + 3] = T("LF")
<1> DEFINE c == CRLF
           d == Blank
           CR == T("CR")
           LF == T("LF")
<1>1. c \in Seq(Token) /\ Len(c) = 2 /\ c[1] = CR /\ c[2] = LF
  BY FixedTokens
<1>2. d = c \o c
  BY DEF Blank
<1> HIDE DEF c, d, CR, LF
<1>3. IsCat(d, c, 2, c, 2)
  BY <1>1, <1>2, CatIs
<1>4. d \in Seq(Token) /\ Len(d) = 4 /\ d[1] = CR /\ d[2] = LF /\ d[2 + 1] = CR /\ d[2 + 2] = LF
  BY <1>1, <1>3 DEF IsCat
<1>5. d[3] = CR /\ d[4] = LF
  BY <1>4
<1>6. Len(t) \in Nat /\ i + 1 - 1 = i /\ i + 2 - 1 = i + 1 /\ i + 3 - 1 = i + 2 /\ i + 4 - 1 = i + 3
  OBVIOUS
<1>7. At(t, i, d) <=> i + 4 <= Len(t) + 1 /\ \A k \in {1, 2, 3, 4} : t[i + k - 1] = d[k]
  <2>1. 1..4 = {1, 2, 3, 4}
    OBVIOUS
  <2> QED
    BY <1>4, <2>1, Zenon DEF At
<1>8. At(t, i, d) <=> /\ i + 3 <= Len(t) /\ t[i] = CR /\ t[i + 1] = LF
                      /\ t[i + 2] = CR /\ t[i + 3] = LF
  BY <1>4, <1>5, <1>6, <1>7
<1> QED
  BY <1>4, <1>8 DEF c, d, CR, LF

\* A buffer that begins with a package: its first line is found when all of it is there.
LEMMA FirstLineFound ==
    ASSUME NEW w \in Parsers, NEW p \in AnyPackage, NEW q, q = PackageOf(w, p),
           NEW t \in Seq(Token), Begins(t, 0, q)
    PROVE  /\ Len(t) >= F(w) + 2 => /\ Find(t, CRLF) = F(w) + 1
                                    /\ t[IF w = "request" THEN 2 ELSE 3][2] = p.line
           /\ Len(t) < F(w) + 2 => Find(t, CRLF) = 0
           /\ w = "request" /\ Len(t) >= 1 => t[1] = T("POST")
<1> DEFINE f == F(w)
           CR == T("CR")
           LF == T("LF")
<1>1. /\ f \in {3, 4} /\ Len(q) \in Nat /\ Len(q) >= f + 7 /\ Len(t) \in Nat
      /\ w = "request" => f = 4
      /\ w = "response" => f = 3
  <2>1. Len(q) \in Nat /\ Len(q) >= f + 7
    BY PackageType
  <2> QED
    BY <2>1 DEF F, Parsers
<1>0. \A i \in 1..Len(t) : i <= Len(q) => t[i] = q[i]
  <2>1. \A i \in 1..Len(t) : 0 + i = i
    OBVIOUS
  <2> QED
    BY <2>1 DEF Begins
<1>2. /\ w = "request" => q[1] = T("POST") /\ q[2] = <<"line", p.line>>
                          /\ q[3] = T("HTTP") /\ q[4] = T("/1.1")
      /\ w = "response" => q[1] = T("HTTP") /\ q[2] = T("/1.1") /\ q[3] = <<"line", p.line>>
  BY PackageTokens
<1>3. q[f + 1] = CR /\ q[f + 2] = LF
  BY PackageTokens
<1>4. T("POST") # CR /\ T("HTTP") # CR /\ T("/1.1") # CR /\ <<"line", p.line>> # CR
  BY DEF T
<1> HIDE DEF CR, LF, f
<1>5. ASSUME NEW i \in 1..f PROVE q[i] # CR
  <2>1. i \in {1, 2, 3, 4} /\ (f = 3 => i \in {1, 2, 3})
    BY <1>1
  <2> QED
    BY <1>1, <1>2, <1>4, <2>1 DEF Parsers
<1>6. ASSUME NEW i \in 1..Len(t), i <= f PROVE ~At(t, i, CRLF)
  <2>1. i \in 1..f /\ i <= Len(q)
    BY <1>1, <1>6
  <2>2. t[i] # CR
    BY <1>0, <1>5, <2>1
  <2> QED
    BY <2>2, AtCRLF DEF CR
<1>7. CRLF \in Seq(Token)
  BY FixedTokens
<1>8. ASSUME Len(t) >= f + 2
      PROVE  Find(t, CRLF) = f + 1 /\ t[IF w = "request" THEN 2 ELSE 3][2] = p.line
  <2>1. f + 1 \in 1..Len(t) /\ f + 2 \in 1..Len(t) /\ f + 1 < Len(t) /\ (f + 1) + 1 = f + 2
        /\ f + 1 <= Len(q) /\ f + 2 <= Len(q)
    BY <1>1, <1>8
  <2>2. t[f + 1] = CR /\ t[f + 2] = LF
    BY <1>0, <1>3, <2>1
  <2>3. At(t, f + 1, CRLF)
    BY <2>1, <2>2, AtCRLF DEF CR, LF
  <2>4. \A i \in 1..Len(t) : i < f + 1 => ~At(t, i, CRLF)
    BY <1>1, <1>6
  <2>5. Find(t, CRLF) = f + 1
    BY <1>7, <2>1, <2>3, <2>4, FindFirst
  <2>6. 2 \in 1..Len(t) /\ 3 \in 1..Len(t) /\ 2 <= Len(q) /\ 3 <= Len(q)
    BY <1>1, <1>8
  <2>7. t[2] = q[2] /\ t[3] = q[3]
    BY <1>0, <2>6
  <2>8. <<"line", p.line>>[2] = p.line
    OBVIOUS
  <2>9. t[IF w = "request" THEN 2 ELSE 3] = <<"line", p.line>>
    BY <1>2, <2>7 DEF Parsers
  <2> QED
    BY <2>5, <2>8, <2>9
<1>9. ASSUME Len(t) < f + 2 PROVE Find(t, CRLF) = 0
  <2>1. ASSUME NEW i \in 1..Len(t) PROVE ~At(t, i, CRLF)
    <3>1. CASE i <= f
      BY <1>6, <3>1
    <3>2. CASE ~(i <= f)
      <4>1. ~(i < Len(t))
        BY <1>1, <1>9, <3>2
      <4> QED
        BY <4>1, AtCRLF
    <3> QED
      BY <3>1, <3>2
  <2> QED
    BY <1>7, <2>1, FindNone
<1>10. ASSUME w = "request", Len(t) >= 1 PROVE t[1] = T("POST")
  <2>1. 1 \in 1..Len(t) /\ 1 <= Len(q)
    BY <1>1, <1>10
  <2> QED
    BY <1>0, <1>2, <1>10, <2>1
<1> QED
  BY <1>8, <1>9, <1>10 DEF f

\* The headers of a package, as DecodeHeader puts them in a list.
LinesOf(p) ==
    IF p.hdr = Nothing THEN <<<<"Content-Length", Len(p.body)>>>>
    ELSE <<<<"header", p.hdr>>, <<"Content-Length", Len(p.body)>>>>

\* The recursion of HeaderLines.
LinesOver(g, n, t) ==
    g = [i \in 0..n |-> IF i = 0 THEN <<>>
                        ELSE IF t[i] \in {CRLF[1], CRLF[2]} THEN g[i - 1]
                        ELSE Append(g[i - 1], t[i])]

LEMMA LinesExist ==
    ASSUME NEW t PROVE \A n \in Nat : \E g : LinesOver(g, n, t)
<1> DEFINE Ends == {CRLF[1], CRLF[2]}
           N == {n \in Nat : \E g : LinesOver(g, n, t)}
<1> HIDE DEF Ends
<1>1. 0 \in N
  <2> DEFINE g == [i \in 0..0 |-> <<>>]
  <2>1. g = [i \in 0..0 |-> IF i = 0 THEN <<>>
                            ELSE IF t[i] \in Ends THEN g[i - 1] ELSE Append(g[i - 1], t[i])]
    OBVIOUS
  <2> HIDE DEF g
  <2>2. LinesOver(g, 0, t)
    BY <2>1 DEF LinesOver, Ends
  <2> QED
    BY <2>2
<1>2. ASSUME NEW n \in Nat, n \in N PROVE n + 1 \in N
  <2>1. PICK g : LinesOver(g, n, t)
    BY <1>2
  <2> DEFINE G(i) == IF i = 0 THEN <<>>
                     ELSE IF t[i] \in Ends THEN g[i - 1] ELSE Append(g[i - 1], t[i])
             f == [i \in 0..n + 1 |-> G(i)]
  <2>2. \A i \in 0..n : g[i] = G(i)
    BY <2>1 DEF LinesOver, Ends
  <2>3. \A i \in 0..n + 1 : i # 0 => i - 1 \in 0..n /\ i - 1 \in 0..n + 1
    OBVIOUS
  <2>4. \A i \in 0..n + 1 : i # 0 => f[i - 1] = g[i - 1]
    <3> HIDE DEF G
    <3> QED
      BY <2>2, <2>3
  <2>5. f = [i \in 0..n + 1 |-> IF i = 0 THEN <<>>
                                ELSE IF t[i] \in Ends THEN f[i - 1] ELSE Append(f[i - 1], t[i])]
    <3>1. \A i \in 0..n + 1 : f[i] = G(i)
      OBVIOUS
    <3>2. ASSUME NEW i \in 0..n + 1
          PROVE  f[i] = IF i = 0 THEN <<>>
                        ELSE IF t[i] \in Ends THEN f[i - 1] ELSE Append(f[i - 1], t[i])
      <4> HIDE DEF f
      <4> QED
        BY <2>4, <3>1
    <3>3. f = [i \in 0..n + 1 |-> f[i]]
      OBVIOUS
    <3> HIDE DEF f
    <3> QED
      BY <3>2, <3>3
  <2> HIDE DEF f
  <2>6. LinesOver(f, n + 1, t)
    BY <2>5 DEF LinesOver, Ends
  <2> QED
    BY <2>6
<1> HIDE DEF N
<1>3. \A n \in Nat : n \in N
  BY <1>1, <1>2, Induction
<1> QED
  BY <1>3 DEF N

LEMMA LinesStep ==
    ASSUME NEW t \in Seq(Token)
    PROVE  \E g : /\ HeaderLines(t) = g[Len(t)]
                  /\ g[0] = <<>>
                  /\ \A i \in 1..Len(t) :
                        g[i] = IF t[i] \in {T("CR"), T("LF")} THEN g[i - 1]
                               ELSE Append(g[i - 1], t[i])
<1> DEFINE n == Len(t)
           g == CHOOSE f : LinesOver(f, n, t)
           CR == T("CR")
           LF == T("LF")
<1>1. n \in Nat
  OBVIOUS
<1>2. HeaderLines(t) = g[n]
  BY DEF HeaderLines, LinesOver
<1> HIDE DEF n
<1>3. LinesOver(g, n, t)
  BY <1>1, LinesExist
<1> HIDE DEF g
<1>4. CRLF[1] = CR /\ CRLF[2] = LF
  BY FixedTokens
<1> HIDE DEF CR, LF
<1>5. \A i \in 0..n : g[i] = IF i = 0 THEN <<>>
                             ELSE IF t[i] \in {CR, LF} THEN g[i - 1] ELSE Append(g[i - 1], t[i])
  BY <1>3, <1>4 DEF LinesOver
<1>6. g[0] = <<>>
  <2>1. 0 \in 0..n
    BY <1>1
  <2> QED
    BY <1>5, <2>1, Zenon
<1>7. \A i \in 1..n : g[i] = IF t[i] \in {CR, LF} THEN g[i - 1] ELSE Append(g[i - 1], t[i])
  BY <1>1, <1>5
<1> QED
  BY <1>2, <1>6, <1>7 DEF n, CR, LF

LEMMA Appended ==
    ASSUME NEW S, NEW s \in Seq(S), NEW b \in S
    PROVE  /\ Append(s, b) \in Seq(S) /\ Len(Append(s, b)) = Len(s) + 1
           /\ Append(s, b)[Len(s) + 1] = b
           /\ \A i \in 1..Len(s) : Append(s, b)[i] = s[i]
BY AppendProperties

LEMMA TwoLines ==
    ASSUME NEW a, NEW b PROVE Append(Append(<<>>, a), b) = <<a, b>>
<1>1. Append(<<>>, a) = <<a>>
  OBVIOUS
<1> DEFINE S == {a, b}
           s == <<a>>
           t == Append(s, b)
           u == <<a, b>>
<1>2. a \in S /\ b \in S
  OBVIOUS
<1> HIDE DEF S
<1>3. s \in Seq(S)
  BY <1>2
<1>4. Len(s) = 1 /\ s[1] = a
  OBVIOUS
<1>5. u \in Seq(S) /\ Len(u) = 2 /\ u[1] = a /\ u[2] = b
  BY <1>2
<1> HIDE DEF s, u
<1>6. /\ t \in Seq(S) /\ Len(t) = Len(s) + 1 /\ t[Len(s) + 1] = b
      /\ \A i \in 1..Len(s) : t[i] = s[i]
  BY <1>2, <1>3, Appended
<1> HIDE DEF t
<1>7. Len(t) = 2 /\ t[1] = a /\ t[2] = b
  BY <1>6, <1>4
<1>8. \A i \in 1..2 : t[i] = u[i]
  BY <1>5, <1>7
<1>9. t = u
  BY <1>5, <1>6, <1>7, <1>8, SeqEqual
<1> QED
  BY <1>1, <1>9 DEF s, t, u

\* Behind the first line: the headers are found when the blank line is there.
LEMMA HeaderFound ==
    ASSUME NEW w \in Parsers, NEW p \in AnyPackage, NEW q, q = PackageOf(w, p),
           NEW t \in Seq(Token), Begins(t, F(w) + 2, q)
    PROVE  /\ Len(t) >= Hd(p) + 5 => /\ Find(t, Blank) = Hd(p) + 2
                                     /\ HeaderLines(SubSeq(t, 1, Hd(p) + 1)) = LinesOf(p)
           /\ Len(t) < Hd(p) + 5 => Find(t, Blank) = 0
<1> DEFINE f == F(w)
           h == Hd(p)
           CR == T("CR")
           LF == T("LF")
           cl == <<"Content-Length", Len(p.body)>>
           hd == <<"header", p.hdr>>
<1>1. f \in {3, 4} /\ h \in {0, 3} /\ Len(q) \in Nat /\ Len(q) >= f + h + 7 /\ Len(t) \in Nat
  <2>1. Len(q) = f + h + 7 + Len(p.body) /\ f \in {3, 4} /\ h \in {0, 3}
    BY PackageTokens
  <2>2. Len(p.body) \in Nat
    BY BodyType
  <2>3. Len(t) \in Nat
    OBVIOUS
  <2>4. \A x \in {3, 4}, y \in {0, 3}, z \in Nat :
           x + y + 7 + z \in Nat /\ x + y + 7 + z >= x + y + 7
    OBVIOUS
  <2> HIDE DEF f, h
  <2>5. /\ f + h + 7 + Len(p.body) \in Nat
        /\ f + h + 7 + Len(p.body) >= f + h + 7
    BY <2>1, <2>2, <2>4, Zenon
  <2> QED
    BY <2>1, <2>3, <2>5, Zenon
<1>2. /\ h = 3 => q[f + 3] = hd /\ q[f + 4] = CR /\ q[f + 5] = LF
      /\ q[f + h + 3] = cl
      /\ q[f + h + 4] = CR /\ q[f + h + 5] = LF
      /\ q[f + h + 6] = CR /\ q[f + h + 7] = LF
  BY PackageTokens
<1>3. CR # LF /\ cl # CR /\ cl # LF /\ hd # CR /\ hd # LF
  BY DEF T
<1>4. LinesOf(p) = IF h = 0 THEN <<cl>> ELSE <<hd, cl>>
  BY DEF LinesOf, Hd
<1>5. cl \in Token /\ (h = 3 => hd \in Token) /\ CR \in Token /\ LF \in Token
  <2>1. cl \in Token
    BY BodyType, TokenIs DEF Text
  <2>2. h = 3 => hd \in Token
    <3>1. h = 3 => p.hdr \in Header
      BY DEF AnyPackage, Hd
    <3> QED
      BY <3>1, TokenIs DEF Text
  <2> QED
    BY <2>1, <2>2, FixedTokens DEF Text
<1>6. \A i \in 1..Len(t) : f + 2 + i <= Len(q) => t[i] = q[f + 2 + i]
  BY DEF Begins
<1> HIDE DEF f, h, CR, LF, cl, hd
\* The tokens in the buffer.
<1>7. \A i \in 1..Len(t) :
         /\ h = 0 /\ i = 1 => t[i] = cl
         /\ h = 0 /\ i = 2 => t[i] = CR
         /\ h = 0 /\ i = 3 => t[i] = LF
         /\ h = 0 /\ i = 4 => t[i] = CR
         /\ h = 0 /\ i = 5 => t[i] = LF
  <2> SUFFICES ASSUME NEW i \in 1..Len(t), h = 0, i <= 5
               PROVE  /\ i = 1 => t[i] = cl
                      /\ i = 2 => t[i] = CR
                      /\ i = 3 => t[i] = LF
                      /\ i = 4 => t[i] = CR
                      /\ i = 5 => t[i] = LF
    BY <1>1
  <2>1. t[i] = q[f + 2 + i]
    BY <1>1, <1>6
  <2>2. /\ i = 1 => f + 2 + i = f + h + 3
        /\ i = 2 => f + 2 + i = f + h + 4
        /\ i = 3 => f + 2 + i = f + h + 5
        /\ i = 4 => f + 2 + i = f + h + 6
        /\ i = 5 => f + 2 + i = f + h + 7
    BY <1>1
  <2> QED
    BY <1>2, <2>1, <2>2
<1>8. \A i \in 1..Len(t) :
         /\ h = 3 /\ i = 1 => t[i] = hd
         /\ h = 3 /\ i = 2 => t[i] = CR
         /\ h = 3 /\ i = 3 => t[i] = LF
         /\ h = 3 /\ i = 4 => t[i] = cl
         /\ h = 3 /\ i = 5 => t[i] = CR
         /\ h = 3 /\ i = 6 => t[i] = LF
         /\ h = 3 /\ i = 7 => t[i] = CR
         /\ h = 3 /\ i = 8 => t[i] = LF
  <2> SUFFICES ASSUME NEW i \in 1..Len(t), h = 3, i <= 8
               PROVE  /\ i = 1 => t[i] = hd
                      /\ i = 2 => t[i] = CR
                      /\ i = 3 => t[i] = LF
                      /\ i = 4 => t[i] = cl
                      /\ i = 5 => t[i] = CR
                      /\ i = 6 => t[i] = LF
                      /\ i = 7 => t[i] = CR
                      /\ i = 8 => t[i] = LF
    BY <1>1
  <2>1. t[i] = q[f + 2 + i]
    BY <1>1, <1>6
  <2>2. /\ i = 1 => f + 2 + i = f + 3
        /\ i = 2 => f + 2 + i = f + 4
        /\ i = 3 => f + 2 + i = f + 5
        /\ i = 4 => f + 2 + i = f + h + 3
        /\ i = 5 => f + 2 + i = f + h + 4
        /\ i = 6 => f + 2 + i = f + h + 5
        /\ i = 7 => f + 2 + i = f + h + 6
        /\ i = 8 => f + 2 + i = f + h + 7
    BY <1>1
  <2> QED
    BY <1>2, <2>1, <2>2
\* There is no blank line before the end of the last header.
<1>9. ASSUME NEW i \in 1..Len(t), i < h + 2 PROVE ~At(t, i, Blank)
  <2> SUFFICES ASSUME i + 3 <= Len(t), t[i] = CR, t[i + 2] = CR PROVE FALSE
    BY AtBlank DEF CR, LF
  <2>1. i + 2 \in 1..Len(t)
    BY <1>1
  <2>2. CASE h = 0
    <3>1. i = 1
      BY <1>1, <1>9, <2>2
    <3> QED
      BY <1>3, <1>7, <2>2, <3>1
  <2>3. CASE h = 3
    <3>1. i = 1 \/ i = 2 \/ i = 3 \/ i = 4
      BY <1>1, <1>9, <2>3
    <3>2. i = 2 => i + 2 = 4
      OBVIOUS
    <3> QED
      BY <1>3, <1>8, <2>1, <2>3, <3>1, <3>2
  <2> QED
    BY <1>1, <2>2, <2>3
<1>10. Blank \in Seq(Token)
  <2>1. CRLF \in Seq(Token)
    BY FixedTokens
  <2> QED
    BY <2>1, Cat DEF Blank
<1>11. ASSUME Len(t) < h + 5 PROVE Find(t, Blank) = 0
  <2>1. ASSUME NEW i \in 1..Len(t) PROVE ~At(t, i, Blank)
    <3>1. CASE i < h + 2
      BY <1>9, <3>1
    <3>2. CASE ~(i < h + 2)
      <4>1. ~(i + 3 <= Len(t))
        BY <1>1, <1>11, <3>2
      <4> QED
        BY <4>1, AtBlank
    <3> QED
      BY <3>1, <3>2
  <2> QED
    BY <1>10, <2>1, FindNone
<1>12. ASSUME Len(t) >= h + 5 PROVE Find(t, Blank) = h + 2
  <2>1. /\ h + 2 \in 1..Len(t) /\ h + 3 \in 1..Len(t) /\ h + 4 \in 1..Len(t) /\ h + 5 \in 1..Len(t)
        /\ (h + 2) + 3 <= Len(t) /\ (h + 2) + 1 = h + 3 /\ (h + 2) + 2 = h + 4 /\ (h + 2) + 3 = h + 5
    BY <1>1, <1>12
  <2>2. t[h + 2] = CR /\ t[h + 3] = LF /\ t[h + 4] = CR /\ t[h + 5] = LF
    <3>1. CASE h = 0
      <4>1. h + 2 = 2 /\ h + 3 = 3 /\ h + 4 = 4 /\ h + 5 = 5
        BY <3>1
      <4> QED
        BY <1>7, <2>1, <3>1, <4>1
    <3>2. CASE h = 3
      <4>1. h + 2 = 5 /\ h + 3 = 6 /\ h + 4 = 7 /\ h + 5 = 8
        BY <3>2
      <4> QED
        BY <1>8, <2>1, <3>2, <4>1
    <3> QED
      BY <1>1, <3>1, <3>2
  <2>3. At(t, h + 2, Blank)
    BY <2>1, <2>2, AtBlank DEF CR, LF
  <2>4. \A i \in 1..Len(t) : i < h + 2 => ~At(t, i, Blank)
    BY <1>9
  <2> QED
    BY <1>10, <2>1, <2>3, <2>4, FindFirst
<1>13. ASSUME Len(t) >= h + 5 PROVE HeaderLines(SubSeq(t, 1, h + 1)) = LinesOf(p)
  <2> DEFINE s == SubSeq(t, 1, h + 1)
  <2>1. s \in Seq(Token) /\ Len(s) = h + 1 /\ \A i \in 1..h + 1 : i \in 1..Len(t) /\ s[i] = t[i]
    BY <1>1, <1>13
  <2> HIDE DEF s
  <2>2. PICK g : /\ HeaderLines(s) = g[Len(s)] /\ g[0] = <<>>
                 /\ \A i \in 1..Len(s) : g[i] = IF s[i] \in {CR, LF} THEN g[i - 1]
                                                ELSE Append(g[i - 1], s[i])
    BY <2>1, LinesStep DEF CR, LF
  <2>3. CASE h = 0
    <3>1. Len(s) = 1 /\ 1 \in 1..Len(s) /\ 1 - 1 = 0 /\ s[1] = cl
      BY <1>7, <2>1, <2>3
    <3>2. g[1] = Append(g[0], cl)
      BY <1>3, <2>2, <3>1
    <3>3. Append(<<>>, cl) = <<cl>>
      OBVIOUS
    <3>4. HeaderLines(s) = <<cl>>
      BY <2>2, <3>1, <3>2, <3>3
    <3> QED
      BY <1>4, <2>3, <3>4 DEF s
  <2>4. CASE h = 3
    <3>1. /\ Len(s) = 4 /\ 1 \in 1..Len(s) /\ 2 \in 1..Len(s) /\ 3 \in 1..Len(s) /\ 4 \in 1..Len(s)
          /\ 1 - 1 = 0 /\ 2 - 1 = 1 /\ 3 - 1 = 2 /\ 4 - 1 = 3
      BY <2>1, <2>4
    <3>2. s[1] = hd /\ s[2] = CR /\ s[3] = LF /\ s[4] = cl
      BY <1>8, <2>1, <2>4, <3>1
    <3>3. g[1] = Append(g[0], hd)
      BY <1>3, <2>2, <3>1, <3>2
    <3>4. g[2] = g[1] /\ g[3] = g[2]
      BY <2>2, <3>1, <3>2
    <3>5. g[4] = Append(g[3], cl)
      BY <1>3, <2>2, <3>1, <3>2
    <3>6. Append(Append(<<>>, hd), cl) = <<hd, cl>>
      BY TwoLines
    <3>7. HeaderLines(s) = <<hd, cl>>
      BY <2>2, <3>1, <3>3, <3>4, <3>5, <3>6
    <3> QED
      BY <1>4, <2>4, <3>7 DEF s
  <2> QED
    BY <1>1, <2>3, <2>4
<1> QED
  BY <1>11, <1>12, <1>13 DEF h

\* Behind the blank line: the body.
LEMMA BodyFound ==
    ASSUME NEW w \in Parsers, NEW p \in AnyPackage, NEW q, q = PackageOf(w, p),
           NEW t \in Seq(Token), NEW c, c = F(w) + Hd(p) + 7,
           Begins(t, c, q), Len(p.body) <= Len(t)
    PROVE  SubSeq(t, 1, Len(p.body)) = p.body
<1> DEFINE n == Len(p.body)
           s == SubSeq(t, 1, n)
<1>1. /\ Len(q) = c + n /\ c \in Nat
      /\ \A i \in 1..n : q[c + i] = p.body[i]
  <2> DEFINE f == F(w)
             h == Hd(p)
  <2>1. /\ Len(q) = f + h + 7 + n /\ f \in {3, 4} /\ h \in {0, 3}
        /\ \A i \in 1..n : q[f + h + 7 + i] = p.body[i]
    BY PackageTokens
  <2>2. c = f + h + 7
    OBVIOUS
  <2> HIDE DEF f, h, n
  <2>3. c \in Nat
    BY <2>1, <2>2
  <2> QED
    BY <2>1, <2>2, <2>3
<1>2. n \in Nat /\ p.body \in Seq(Token) /\ Len(t) \in Nat /\ n <= Len(t)
  BY BodyType
<1>3. Len(p.body) = n
  OBVIOUS
<1> HIDE DEF n
<1>4. s \in Seq(Token) /\ Len(s) = n /\ \A i \in 1..n : s[i] = t[i] /\ i \in 1..Len(t)
  BY <1>2
<1>5. ASSUME NEW i \in 1..n PROVE s[i] = p.body[i]
  <2>1. c + i <= Len(q) /\ i \in 1..Len(t) /\ s[i] = t[i]
    BY <1>1, <1>2, <1>4
  <2> QED
    BY <1>1, <2>1 DEF Begins
<1> HIDE DEF s
<1>6. s = p.body
  BY <1>2, <1>3, <1>4, <1>5, SeqEqual
<1> QED
  BY <1>6 DEF s, n

\* What the handlers find in the headers of the package.
LEMMA HeadersFound ==
    ASSUME NEW p \in AnyPackage, m_Headers = LinesOf(p)
    PROVE  FindHeader("Content-Length", 0) = Len(p.body) /\ FindHeader("header", Nothing) = p.hdr
<1> DEFINE n == Len(p.body)
           S(name) == {i \in 1..Len(m_Headers) : m_Headers[i][1] = name}
<1> HIDE DEF n
<1>0. ASSUME NEW i \in Nat PROVE Min({i}) = i
  <2>1. i \in {i} /\ \A y \in {i} : i <= y
    OBVIOUS
  <2>2. Min({i}) \in {i}
    BY <2>1, Zenon DEF Min
  <2> QED
    BY <2>2
<1>1. CASE p.hdr = Nothing
  <2>1. m_Headers = <<<<"Content-Length", n>>>>
    BY <1>1 DEF LinesOf, n
  <2>2. S("Content-Length") = {1} /\ S("header") = {} /\ m_Headers[1][2] = n
    BY <2>1
  <2>3. Min(S("Content-Length")) = 1
    BY <1>0, <2>2
  <2>4. FindHeader("Content-Length", 0) = n
    BY <2>2, <2>3 DEF FindHeader
  <2>5. FindHeader("header", Nothing) = Nothing
    BY <2>2 DEF FindHeader
  <2> QED
    BY <1>1, <2>4, <2>5 DEF n
<1>2. CASE p.hdr # Nothing
  <2> DEFINE v == p.hdr
  <2>0. v = p.hdr
    OBVIOUS
  <2> HIDE DEF v
  <2>1. m_Headers = <<<<"header", v>>, <<"Content-Length", n>>>>
    BY <1>2, <2>0 DEF LinesOf, n
  <2>2. S("Content-Length") = {2} /\ S("header") = {1} /\ m_Headers[1][2] = v /\ m_Headers[2][2] = n
    BY <2>1
  <2>3. Min(S("Content-Length")) = 2 /\ Min(S("header")) = 1
    BY <1>0, <2>2
  <2>4. FindHeader("Content-Length", 0) = n
    BY <2>2, <2>3 DEF FindHeader
  <2>5. FindHeader("header", Nothing) = v
    BY <2>2, <2>3 DEF FindHeader
  <2> QED
    BY <2>0, <2>4, <2>5 DEF n
<1> QED
  BY <1>1, <1>2

-----------------------------------------------------------------------------
(* The inductive invariant.  The buffer and what is on its way are the     *)
(* last tokens of the stream, from pos on (Aligned); the parser is at      *)
(* package g + 1 of the list: its place in it is the one that its state    *)
(* says, and what it has noted of the package is what was sent (Placed).   *)
(* After a refused response the parser is anywhere behind the start of     *)
(* that package; where it finds "HTTP/1.1" again, another package starts.  *)

Types ==
    /\ parser \in Parsers /\ packages \in Seq(AnyPackage)
    /\ tokens \in Seq(Token) /\ m_strBuffer \in Seq(Token)
    /\ decoding \in BOOLEAN /\ refused \in BOOLEAN
    /\ m_nHttpBufferState \in {"HBS_READY", "HBS_HEADER", "HBS_BODY"}
    /\ handled \in Seq(AnyPackage)

Aligned(pos) ==
    /\ pos + Len(m_strBuffer) + Len(tokens) = Len(StreamOf(parser, packages))
    /\ \A i \in 1..Len(m_strBuffer) : m_strBuffer[i] = StreamOf(parser, packages)[pos + i]
    /\ \A i \in 1..Len(tokens) :
          tokens[i] = StreamOf(parser, packages)[pos + Len(m_strBuffer) + i]

\* What is handled is among the first g packages, in their order.
Ordered(g) ==
    \E order \in [1..Len(handled) -> 1..g] :
        /\ \A i, j \in 1..Len(handled) : i < j => order[i] < order[j]
        /\ \A i \in 1..Len(handled) : handled[i] = packages[order[i]]

Taken(g, pos) ==
    /\ Ordered(g)
    /\ ~refused => handled = First(packages, g)
    /\ parser = "request" => ~refused
    /\ pos >= Start(parser, packages, g)

Placed(g, pos) ==
    /\ m_nHttpBufferState = "HBS_READY" =>
          /\ ~refused => pos = Start(parser, packages, g)
          /\ m_Headers = <<>>
          /\ decoding => Len(m_strBuffer) > 0
    /\ m_nHttpBufferState = "HBS_HEADER" =>
          /\ g < Len(packages) /\ pos = Start(parser, packages, g) + (F(parser) + 2)
          /\ m_strLine = packages[g + 1].line /\ m_Headers = <<>>
    /\ m_nHttpBufferState = "HBS_BODY" =>
          /\ g < Len(packages)
          /\ pos = Start(parser, packages, g) + (F(parser) + Hd(packages[g + 1]) + 7)
          /\ m_strLine = packages[g + 1].line /\ m_Headers = LinesOf(packages[g + 1])

\* A parser that waits has not got all of the package.
Waiting(g, pos) ==
    ~decoding /\ ~refused /\ g < Len(packages) =>
        pos + Len(m_strBuffer) < Start(parser, packages, g + 1)

Inv ==
    /\ Types
    /\ \E g \in 0..Len(packages), pos \in Nat :
          Aligned(pos) /\ Taken(g, pos) /\ Placed(g, pos) /\ Waiting(g, pos)

LEMMA InvInit == HttpInit => Inv
<1> SUFFICES ASSUME HttpInit PROVE Inv
  OBVIOUS
<1>1. Types
  <2>1. <<>> \in Seq(AnyPackage) /\ <<>> \in Seq(Token)
    OBVIOUS
  <2> QED
    BY <2>1 DEF HttpInit, Types, Parsers
<1>2. StreamOf(parser, packages) = <<>> /\ packages = <<>> /\ Len(packages) = 0
  BY StreamOfNone DEF HttpInit
<1>3. Start(parser, packages, 0) = 0 /\ First(packages, 0) = <<>>
  BY <1>1, StreamEnds, FirstOfAll DEF Types
<1>4. Aligned(0)
  <2>1. m_strBuffer = <<>> /\ tokens = <<>> /\ Len(<<>>) = 0 /\ 0 + 0 + 0 = 0 /\ 1..0 = {}
    BY DEF HttpInit
  <2> QED
    BY <1>2, <2>1 DEF Aligned
<1>5. Taken(0, 0)
  <2>1. Ordered(0)
    <3>1. handled = <<>> /\ Len(handled) = 0 /\ 1..0 = {}
      BY DEF HttpInit
    <3> DEFINE order == [i \in 1..0 |-> 0]
    <3>2. order \in [1..Len(handled) -> 1..0]
      BY <3>1
    <3> QED
      BY <3>1, <3>2 DEF Ordered
  <2> QED
    BY <1>3, <2>1 DEF Taken, HttpInit
<1>6. Placed(0, 0)
  BY <1>3 DEF Placed, HttpInit
<1>7. Waiting(0, 0)
  BY <1>2 DEF Waiting
<1>8. 0 \in 0..Len(packages) /\ 0 \in Nat
  BY <1>2
<1> QED
  BY <1>1, <1>4, <1>5, <1>6, <1>7, <1>8 DEF Inv

\* SendHttpPackage: the stream and the list grow at their ends.
LEMMA SendKeeps == ASSUME Inv, SendHttpPackage PROVE Inv'
<1> DEFINE n == Len(packages)
           V == StreamOf(parser, packages)
<1>1. PICK p \in Packages : packages' = Append(packages, p) /\ tokens' = tokens \o Package(p)
  BY DEF SendHttpPackage
<1>2. /\ UNCHANGED <<parser, decoding, handled, refused>>
      /\ UNCHANGED <<m_nHttpBufferState, m_strBuffer, m_strLine, m_Headers>>
  BY DEF SendHttpPackage, parserVars
<1>3. p \in AnyPackage /\ Types
  BY PackagesAreAny DEF Inv
<1> DEFINE q == PackageOf(parser, p)
<1>4. q \in Seq(Token) /\ tokens' = tokens \o q /\ Len(q) \in Nat
  BY <1>1, <1>3, PackageIs, PackageType DEF Types
<1>5. /\ packages' \in Seq(AnyPackage) /\ n \in Nat /\ Len(packages') = n + 1
      /\ \A i \in 1..n : packages'[i] = packages[i]
  BY <1>1, <1>3 DEF Types
<1>6. StreamOf(parser, packages') = V \o q /\ V \in Seq(Token)
  BY <1>1, <1>3, StreamAppend, StreamEnds DEF Types
<1>7. \A j \in 0..n : /\ Start(parser, packages', j) = Start(parser, packages, j)
                      /\ First(packages', j) = First(packages, j)
  BY <1>1, <1>3, FirstOfMore DEF Types, Start
<1>8. PICK g \in 0..n, pos \in Nat :
         Aligned(pos) /\ Taken(g, pos) /\ Placed(g, pos) /\ Waiting(g, pos)
  BY DEF Inv
<1>9. tokens \in Seq(Token) /\ m_strBuffer \in Seq(Token) /\ Len(m_strBuffer) \in Nat
  BY <1>3 DEF Types
<1>10. Start(parser, packages, n) = Len(V)
  BY <1>3, StreamEnds DEF Types
<1>n. parser \in Parsers /\ g \in Nat /\ g <= n
  BY <1>3, <1>5 DEF Types
<1> HIDE DEF n, V, q
<1>11. Types'
  <2>1. tokens' \in Seq(Token)
    BY <1>4, <1>9, Cat
  <2> QED
    BY <1>2, <1>3, <1>5, <2>1 DEF Types
<1>12. Aligned(pos)'
  <2>1. /\ Len(V \o q) = Len(V) + Len(q)
        /\ \A i \in 1..Len(V) : (V \o q)[i] = V[i]
        /\ \A i \in 1..Len(q) : (V \o q)[Len(V) + i] = q[i]
    BY <1>4, <1>6, Cat
  <2>2. /\ Len(tokens') = Len(tokens) + Len(q)
        /\ \A i \in 1..Len(tokens) : tokens'[i] = tokens[i]
        /\ \A i \in 1..Len(q) : tokens'[Len(tokens) + i] = q[i]
    BY <1>4, <1>9, Cat
  <2> DEFINE U == V \o q
             k == Len(m_strBuffer)
             m == Len(tokens)
  <2>3. /\ pos + k + m = Len(V)
        /\ \A i \in 1..k : m_strBuffer[i] = V[pos + i]
        /\ \A i \in 1..m : tokens[i] = V[pos + k + i]
    BY <1>8 DEF Aligned, V
  <2>4. k \in Nat /\ m \in Nat /\ Len(V) \in Nat /\ Len(q) \in Nat
    BY <1>4, <1>6, <1>9
  <2> HIDE DEF U, k, m
  <2>n. Len(tokens') = m + Len(q) /\ Len(U) = Len(V) + Len(q)
    BY <2>1, <2>2, Zenon DEF U, m
  <2>5. pos + k + Len(tokens') = Len(U)
    <3>1. ASSUME NEW u \in Nat, NEW v \in Nat, NEW x \in Nat, NEW y \in Nat, NEW z \in Nat,
                 u + v + x = y
          PROVE  u + v + (x + z) = y + z
      BY <3>1
    <3>2. pos + k + m = Len(V)
      BY <2>3, Zenon
    <3>3. pos + k + (m + Len(q)) = Len(V) + Len(q)
      BY <2>4, <3>1, <3>2
    <3> QED
      BY <2>n, <3>3, Zenon
  <2>6. ASSUME NEW i \in 1..k PROVE m_strBuffer[i] = U[pos + i]
    <3>1. pos + i \in 1..Len(V)
      BY <2>3, <2>4
    <3> QED
      BY <2>1, <2>3, <3>1 DEF U
  <2>7. ASSUME NEW i \in 1..Len(tokens') PROVE tokens'[i] = U[pos + k + i]
    <3>1. CASE i <= m
      <4>1. i \in 1..m /\ pos + k + i \in 1..Len(V)
        BY <2>3, <2>4, <2>n, <3>1
      <4> QED
        BY <2>1, <2>2, <2>3, <4>1 DEF U, m
    <3>2. CASE ~(i <= m)
      <4>1. i - m \in 1..Len(q) /\ m + (i - m) = i /\ Len(V) + (i - m) = pos + k + i
        BY <2>3, <2>4, <2>n, <3>2
      <4>2. tokens'[m + (i - m)] = q[i - m] /\ U[Len(V) + (i - m)] = q[i - m]
        BY <2>1, <2>2, <4>1 DEF U, m
      <4> QED
        BY <4>1, <4>2
    <3> QED
      BY <3>1, <3>2
  <2>8. StreamOf(parser', packages') = U /\ m_strBuffer' = m_strBuffer
    BY <1>2, <1>6 DEF U
  <2> QED
    BY <2>5, <2>6, <2>7, <2>8 DEF Aligned, k
<1>13. Taken(g, pos)'
  <2>1. Ordered(g)'
    <3>1. PICK order \in [1..Len(handled) -> 1..g] :
            /\ \A i, j \in 1..Len(handled) : i < j => order[i] < order[j]
            /\ \A i \in 1..Len(handled) : handled[i] = packages[order[i]]
      BY <1>8 DEF Taken, Ordered
    <3>2. \A i \in 1..Len(handled) : order[i] \in 1..n
      BY <1>n, <1>5 DEF n
    <3>3. \A i \in 1..Len(handled) : handled[i] = packages'[order[i]]
      BY <1>5, <3>1, <3>2
    <3> QED
      BY <1>2, <3>1, <3>3 DEF Ordered
  <2> QED
    BY <1>2, <1>7, <1>8, <2>1 DEF Taken
<1>14. Placed(g, pos)'
  <2>1. g < n => packages'[g + 1] = packages[g + 1] /\ g < Len(packages')
    BY <1>n, <1>5
  <2>2. Start(parser, packages', g) = Start(parser, packages, g)
    BY <1>7
  <2> QED
    BY <1>2, <1>3, <1>8, <2>1, <2>2 DEF Placed, Types, n
<1>15. Waiting(g, pos)'
  <2> SUFFICES ASSUME ~decoding, ~refused
               PROVE  pos + Len(m_strBuffer) < Start(parser, packages', g + 1)
    BY <1>2 DEF Waiting
  <2>1. CASE g < n
    <3>1. g + 1 \in 0..n
      BY <1>n, <1>5, <2>1
    <3> QED
      BY <1>7, <1>8, <2>1, <3>1 DEF Waiting, n
  <2>2. CASE g = n
    <3>1. n \in 0..Len(packages') /\ n + 1 \in 0..Len(packages') /\ n < n + 1
      BY <1>5
    <3>2. Start(parser, packages', n) + F(parser) + 7 <= Start(parser, packages', n + 1)
      BY <1>n, <1>5, <3>1, StartLater
    <3>3. Start(parser, packages', n) = Len(V) /\ Len(V) \in Nat
      BY <1>5, <1>6, <1>7, <1>10
    <3>4. F(parser) \in Nat /\ Start(parser, packages', n + 1) \in Nat
      BY <1>n, <1>5, <3>1, StreamType DEF F
    <3>5. pos + Len(m_strBuffer) <= Len(V)
      <4>1. Len(tokens) \in Nat
        BY <1>9
      <4> QED
        BY <1>8, <1>9, <4>1 DEF Aligned, V
    <3> QED
      BY <1>9, <2>2, <3>2, <3>3, <3>4, <3>5
  <2> QED
    BY <1>n, <1>5, <2>1, <2>2
<1>16. g \in 0..Len(packages')
  BY <1>n, <1>5
<1> QED
  BY <1>11, <1>12, <1>13, <1>14, <1>15, <1>16 DEF Inv

\* OnRead: tokens move from the stream to the end of the buffer.
LEMMA ReadKeeps == ASSUME Inv, OnRead PROVE Inv'
<1>1. PICK n \in 1..Len(tokens) : /\ m_strBuffer' = m_strBuffer \o SubSeq(tokens, 1, n)
                                  /\ tokens' = SubSeq(tokens, n + 1, Len(tokens))
  BY DEF OnRead
<1>2. /\ UNCHANGED <<parser, packages, m_nHttpBufferState, m_strLine, m_Headers, handled, refused>>
      /\ decoding' = TRUE
  BY DEF OnRead
<1>3. Types
  BY DEF Inv
<1>4. PICK g \in 0..Len(packages), pos \in Nat : Aligned(pos) /\ Taken(g, pos) /\ Placed(g, pos)
  BY DEF Inv
<1> DEFINE V == StreamOf(parser, packages)
           k == Len(m_strBuffer)
           m == Len(tokens)
           u == SubSeq(tokens, 1, n)
<1>5. tokens \in Seq(Token) /\ m_strBuffer \in Seq(Token) /\ k \in Nat /\ m \in Nat /\ n \in 1..m
  BY <1>3 DEF Types
<1>6. /\ pos + k + m = Len(V)
      /\ \A i \in 1..k : m_strBuffer[i] = V[pos + i]
      /\ \A i \in 1..m : tokens[i] = V[pos + k + i]
  BY <1>4 DEF Aligned
<1>7. u \in Seq(Token) /\ Len(u) = n /\ \A i \in 1..n : u[i] = tokens[i]
  BY <1>5
<1>8. /\ tokens' \in Seq(Token) /\ Len(tokens') = m - n
      /\ \A i \in 1..m - n : tokens'[i] = tokens[n + i]
  BY <1>1, <1>5
<1>9. m_strBuffer' = m_strBuffer \o u
  BY <1>1
<1> HIDE DEF u
<1>10. /\ m_strBuffer' \in Seq(Token) /\ Len(m_strBuffer') = k + n
       /\ \A i \in 1..k : m_strBuffer'[i] = m_strBuffer[i]
       /\ \A i \in 1..n : m_strBuffer'[k + i] = u[i]
  <2>1. Len(m_strBuffer) = k
    OBVIOUS
  <2> HIDE DEF k
  <2>2. IsCat(m_strBuffer', m_strBuffer, k, u, n)
    BY <1>5, <1>7, <1>9, <2>1, CatIs
  <2> QED
    BY <2>2 DEF IsCat
<1> HIDE DEF V, k, m
<1>11. Types'
  BY <1>2, <1>3, <1>8, <1>10 DEF Types
<1>12. Aligned(pos)'
  <2>1. pos + (k + n) + (m - n) = Len(V)
    <3>1. \A x, y, z \in Nat : \A v \in 1..z : x + (y + v) + (z - v) = x + y + z
      OBVIOUS
    <3>2. pos + (k + n) + (m - n) = pos + k + m
      BY <1>5, <3>1
    <3> QED
      BY <1>6, <3>2
  <2>2. ASSUME NEW i \in 1..k + n PROVE m_strBuffer'[i] = V[pos + i]
    <3>1. CASE i <= k
      <4>1. i \in 1..k
        BY <1>5, <3>1
      <4> QED
        BY <1>6, <1>10, <4>1
    <3>2. CASE ~(i <= k)
      <4>1. i - k \in 1..n /\ i - k \in 1..m /\ k + (i - k) = i /\ pos + k + (i - k) = pos + i
        BY <1>5, <3>2
      <4>2. m_strBuffer'[k + (i - k)] = tokens[i - k]
        BY <1>7, <1>10, <4>1
      <4>3. tokens[i - k] = V[pos + k + (i - k)]
        BY <1>6, <4>1
      <4> QED
        BY <4>1, <4>2, <4>3
    <3> QED
      BY <3>1, <3>2
  <2>3. ASSUME NEW i \in 1..m - n PROVE tokens'[i] = V[pos + (k + n) + i]
    <3>1. n + i \in 1..m /\ pos + k + (n + i) = pos + (k + n) + i
      BY <1>5
    <3> QED
      BY <1>6, <1>8, <3>1
  <2>4. StreamOf(parser', packages') = V
    BY <1>2 DEF V
  <2> QED
    BY <1>8, <1>10, <2>1, <2>2, <2>3, <2>4 DEF Aligned
<1>13. Taken(g, pos)'
  BY <1>2, <1>4 DEF Taken, Ordered
<1>14. Placed(g, pos)'
  <2>1. Len(m_strBuffer') > 0
    BY <1>5, <1>10
  <2> QED
    BY <1>2, <1>3, <1>4, <2>1 DEF Placed, Types
<1>15. Waiting(g, pos)'
  BY <1>2 DEF Waiting
<1>16. g \in 0..Len(packages')
  BY <1>2
<1> QED
  BY <1>11, <1>12, <1>13, <1>14, <1>15, <1>16 DEF Inv

LEMMA Erased ==
    ASSUME NEW t \in Seq(Token), NEW k \in 0..Len(t)
    PROVE  /\ Erase(t, k) \in Seq(Token) /\ Len(Erase(t, k)) = Len(t) - k
           /\ \A i \in 1..Len(t) - k : Erase(t, k)[i] = t[k + i]
BY DEF Erase

\* When tokens are erased from the buffer it begins that much further on in the stream.
LEMMA EraseAligns ==
    ASSUME NEW pos \in Nat, Types, Aligned(pos), NEW k \in 0..Len(m_strBuffer),
           m_strBuffer' = Erase(m_strBuffer, k), UNCHANGED <<parser, packages, tokens>>,
           NEW next, next = pos + k
    PROVE  Aligned(next)' /\ m_strBuffer' \in Seq(Token) /\ Len(m_strBuffer') = Len(m_strBuffer) - k
<1> DEFINE V == StreamOf(parser, packages)
           n == Len(m_strBuffer)
           m == Len(tokens)
<1>1. /\ pos + n + m = Len(V)
      /\ \A i \in 1..n : m_strBuffer[i] = V[pos + i]
      /\ \A i \in 1..m : tokens[i] = V[pos + n + i]
  BY DEF Aligned
<1>2. n \in Nat /\ m \in Nat /\ k \in 0..n /\ m_strBuffer \in Seq(Token)
  BY DEF Types
<1>3. /\ m_strBuffer' \in Seq(Token) /\ Len(m_strBuffer') = n - k
      /\ \A i \in 1..n - k : m_strBuffer'[i] = m_strBuffer[k + i]
  BY <1>2, Erased
<1>4. StreamOf(parser', packages') = V /\ Len(tokens') = m /\ tokens' = tokens
  OBVIOUS
<1> HIDE DEF V, n, m
<1>5. (pos + k) + (n - k) + m = Len(V)
  BY <1>1, <1>2
<1>6. ASSUME NEW i \in 1..n - k PROVE m_strBuffer'[i] = V[(pos + k) + i]
  <2>1. k + i \in 1..n /\ pos + (k + i) = (pos + k) + i
    BY <1>2
  <2> QED
    BY <1>1, <1>3, <2>1
<1>7. ASSUME NEW i \in 1..m PROVE tokens[i] = V[(pos + k) + (n - k) + i]
  <2>1. (pos + k) + (n - k) + i = pos + n + i
    BY <1>2
  <2> QED
    BY <1>1, <2>1
<1> QED
  BY <1>3, <1>4, <1>5, <1>6, <1>7 DEF Aligned, n

\* The buffer begins c tokens behind the start of the package q.
LEMMA BufferHas ==
    ASSUME Types, NEW j \in 0..Len(packages), j < Len(packages), NEW c \in Nat, NEW pos,
           pos = Start(parser, packages, j) + c, Aligned(pos), NEW q, q = PackageOf(parser, packages[j + 1])
    PROVE  Begins(m_strBuffer, c, q)
<1>1. parser \in Parsers /\ packages \in Seq(AnyPackage) /\ Len(m_strBuffer) \in Nat
  BY DEF Types
<1>2. Lies(m_strBuffer, StreamOf(parser, packages), pos)
  BY DEF Aligned, Lies
<1> QED
  BY <1>1, <1>2, InBuffer

\* A parser that has not got all of the package may wait.
LEMMA WaitKeeps ==
    ASSUME Types, Wait, UNCHANGED <<parser, packages, tokens, refused>>,
           NEW g \in 0..Len(packages), NEW pos \in Nat,
           Aligned(pos), Taken(g, pos), Placed(g, pos),
           ~refused /\ g < Len(packages) => pos + Len(m_strBuffer) < Start(parser, packages, g + 1)
    PROVE  Inv'
<1>1. /\ UNCHANGED <<parser, packages, tokens, refused, m_nHttpBufferState, m_strBuffer,
                     m_strLine, m_Headers, handled>>
      /\ decoding' = FALSE
  BY DEF Wait, parserVars
<1>2. Types'
  BY <1>1 DEF Types
<1>3. Aligned(pos)'
  BY <1>1 DEF Aligned
<1>4. Taken(g, pos)'
  BY <1>1 DEF Taken, Ordered
<1>5. Placed(g, pos)'
  BY <1>1 DEF Placed, Types
<1>6. Waiting(g, pos)'
  BY <1>1 DEF Waiting
<1>7. g \in 0..Len(packages')
  BY <1>1
<1> QED
  BY <1>2, <1>3, <1>4, <1>5, <1>6, <1>7 DEF Inv

\* In a response "HTTP" is where it starts and nowhere else.
LEMMA OnlyStart ==
    ASSUME NEW w \in Parsers, NEW p \in AnyPackage, NEW q, q = PackageOf(w, p),
           NEW d \in 1..Len(q), q[d] = T("HTTP")
    PROVE  w = "response" => d = 1
<1> DEFINE n == Len(p.body)
           h == Hd(p)
           f == F(w)
<1>1. /\ Len(q) = f + h + 7 + Len(p.body) /\ h \in {0, 3}
      /\ w = "response" => f = 3 /\ q[2] = T("/1.1") /\ q[3] = <<"line", p.line>>
      /\ q[f + 1] = T("CR") /\ q[f + 2] = T("LF")
      /\ h = 3 => q[f + 3] = <<"header", p.hdr>> /\ q[f + 4] = T("CR") /\ q[f + 5] = T("LF")
      /\ q[f + h + 3] = <<"Content-Length", Len(p.body)>>
      /\ q[f + h + 4] = T("CR") /\ q[f + h + 5] = T("LF")
      /\ q[f + h + 6] = T("CR") /\ q[f + h + 7] = T("LF")
      /\ \A i \in 1..Len(p.body) : q[f + h + 7 + i] = p.body[i]
  <2>1. /\ Len(q) = f + h + 7 + Len(p.body) /\ h \in {0, 3}
    BY PackageTokens
  <2>2. w = "response" => q[2] = T("/1.1") /\ q[3] = <<"line", p.line>>
    BY PackageTokens
  <2>3. w = "response" => f = 3
    BY DEF F
  <2>4. /\ q[f + 1] = T("CR") /\ q[f + 2] = T("LF")
        /\ h = 3 => q[f + 3] = <<"header", p.hdr>> /\ q[f + 4] = T("CR") /\ q[f + 5] = T("LF")
    BY PackageTokens
  <2>5. /\ q[f + h + 3] = <<"Content-Length", Len(p.body)>>
        /\ q[f + h + 4] = T("CR") /\ q[f + h + 5] = T("LF")
        /\ q[f + h + 6] = T("CR") /\ q[f + h + 7] = T("LF")
    BY PackageTokens
  <2>6. \A i \in 1..Len(p.body) : q[f + h + 7 + i] = p.body[i]
    BY PackageTokens
  <2> HIDE DEF f, h
  <2> QED
    BY <2>1, <2>2, <2>3, <2>4, <2>5, <2>6, Zenon
<1> HIDE DEF f
<1> SUFFICES ASSUME w = "response" PROVE d = 1
  OBVIOUS
<1>f. f = 3
  BY <1>1
<1>2. /\ Len(q) = 3 + h + 7 + n /\ h \in {0, 3}
      /\ q[2] = T("/1.1") /\ q[3] = <<"line", p.line>>
      /\ q[3 + 1] = T("CR") /\ q[3 + 2] = T("LF")
      /\ h = 3 => q[3 + 3] = <<"header", p.hdr>> /\ q[3 + 4] = T("CR") /\ q[3 + 5] = T("LF")
      /\ q[3 + h + 3] = <<"Content-Length", n>>
      /\ q[3 + h + 4] = T("CR") /\ q[3 + h + 5] = T("LF")
      /\ q[3 + h + 6] = T("CR") /\ q[3 + h + 7] = T("LF")
      /\ \A i \in 1..n : q[3 + h + 7 + i] = p.body[i]
  BY <1>f, <1>1, Zenon
<1>3. n \in Nat /\ \A i \in 1..n : p.body[i] = <<"body", i>>
  BY BodyType
<1>4. /\ T("HTTP") # T("/1.1") /\ T("HTTP") # <<"line", p.line>> /\ T("HTTP") # T("CR")
      /\ T("HTTP") # T("LF") /\ T("HTTP") # <<"header", p.hdr>>
      /\ T("HTTP") # <<"Content-Length", n>> /\ \A i \in 1..n : T("HTTP") # <<"body", i>>
  BY DEF T
<1> HIDE DEF n, h
<1>5. \A i \in 1..n : q[3 + h + 7 + i] # T("HTTP")
  BY <1>2, <1>3, <1>4
<1>6. CASE d > 3 + h + 7
  <2>1. d - (3 + h + 7) \in 1..n /\ 3 + h + 7 + (d - (3 + h + 7)) = d
    BY <1>2, <1>3, <1>6
  <2> QED
    BY <1>5, <2>1
<1>7. CASE ~(d > 3 + h + 7)
  <2>1. CASE h = 0
    <3>1. d \in {1, 2, 3, 4, 5, 6, 7, 8, 9, 10}
      BY <1>2, <1>3, <1>7, <2>1
    <3>2. 3 + 1 = 4 /\ 3 + 2 = 5 /\ 3 + h + 3 = 6 /\ 3 + h + 4 = 7 /\ 3 + h + 5 = 8
          /\ 3 + h + 6 = 9 /\ 3 + h + 7 = 10
      BY <2>1
    <3>3. /\ q[4] = T("CR") /\ q[5] = T("LF") /\ q[6] = <<"Content-Length", n>>
          /\ q[7] = T("CR") /\ q[8] = T("LF") /\ q[9] = T("CR") /\ q[10] = T("LF")
      BY <1>2, <3>2, Zenon
    <3>4. q[2] = T("/1.1") /\ q[3] = <<"line", p.line>>
      BY <1>2
    <3> QED
      BY <1>4, <3>1, <3>3, <3>4, Zenon
  <2>2. CASE h = 3
    <3>1. d \in {1, 2, 3, 4, 5, 6, 7, 8, 9, 10, 11, 12, 13}
      BY <1>2, <1>3, <1>7, <2>2
    <3>2. /\ 3 + 1 = 4 /\ 3 + 2 = 5 /\ 3 + 3 = 6 /\ 3 + 4 = 7 /\ 3 + 5 = 8
          /\ 3 + h + 3 = 9 /\ 3 + h + 4 = 10 /\ 3 + h + 5 = 11
          /\ 3 + h + 6 = 12 /\ 3 + h + 7 = 13
      BY <2>2
    <3>3. /\ q[4] = T("CR") /\ q[5] = T("LF")
          /\ q[9] = <<"Content-Length", n>>
          /\ q[10] = T("CR") /\ q[11] = T("LF") /\ q[12] = T("CR") /\ q[13] = T("LF")
      BY <1>2, <3>2, Zenon
    <3>4. q[6] = <<"header", p.hdr>> /\ q[7] = T("CR") /\ q[8] = T("LF")
      BY <1>2, <2>2, <3>2, Zenon
    <3>5. q[2] = T("/1.1") /\ q[3] = <<"line", p.line>>
      BY <1>2
    <3> QED
      BY <1>4, <3>1, <3>3, <3>4, <3>5, Zenon
  <2> QED
    BY <1>2, <2>1, <2>2
<1> QED
  BY <1>6, <1>7

\* A first line that is not refused is that of a package: the one that comes next, or
\* after a refused response a later one.
LEMMA StartFound ==
    ASSUME Types, NEW g \in 0..Len(packages), NEW pos \in Nat,
           Aligned(pos), Taken(g, pos), Placed(g, pos),
           decoding, m_nHttpBufferState = "HBS_READY", ~NoFirstLine
    PROVE  \E j \in 0..Len(packages) : /\ g <= j /\ j < Len(packages) /\ pos = Start(parser, packages, j)
                                       /\ ~refused => j = g
<1> DEFINE V == StreamOf(parser, packages)
           n == Len(m_strBuffer)
<1>1. /\ n \in Nat /\ n > 0 /\ Len(tokens) \in Nat /\ m_strBuffer \in Seq(Token)
      /\ parser \in Parsers /\ packages \in Seq(AnyPackage) /\ Len(packages) \in Nat /\ g \in Nat
  BY DEF Types, Placed
<1>2. pos + n + Len(tokens) = Len(V) /\ \A i \in 1..n : m_strBuffer[i] = V[pos + i]
  BY DEF Aligned
<1>3. Len(V) \in Nat /\ Start(parser, packages, Len(packages)) = Len(V) /\ Start(parser, packages, g) \in Nat
  BY <1>1, StreamEnds, StreamType
<1> HIDE DEF V, n
<1>4. pos < Len(V) /\ pos + 1 \in 1..Len(V) /\ 1 \in 1..n
  BY <1>1, <1>2, <1>3
<1>5. CASE ~refused
  <2>1. pos = Start(parser, packages, g)
    BY <1>5 DEF Placed
  <2>2. g # Len(packages)
    BY <1>3, <1>4, <2>1
  <2>3. g < Len(packages) /\ g <= g
    BY <1>1, <2>2
  <2> QED
    BY <2>1, <2>3
<1>6. CASE refused
  <2>1. parser = "response"
    BY <1>1, <1>6 DEF Taken, Parsers
  <2>2. Find(m_strBuffer, HTTP11) = 1
    BY <2>1 DEF NoFirstLine
  <2>3. At(m_strBuffer, 1, HTTP11)
    <3>1. HTTP11 \in Seq(Token) /\ Find(m_strBuffer, HTTP11) # 0
      BY <2>2, FixedTokens
    <3> QED
      BY <1>1, <2>2, <3>1, Found
  <2>4. m_strBuffer[1] = T("HTTP")
    BY <1>1, <1>4, <2>3, AtHTTP11 DEF n
  <2>5. V[pos + 1] = T("HTTP")
    BY <1>2, <1>4, <2>4
  <2>6. PICK j \in 0..Len(packages) : /\ j < Len(packages) /\ Start(parser, packages, j) < pos + 1
                                      /\ pos + 1 <= Start(parser, packages, j + 1)
    BY <1>1, <1>4, Locate DEF V
  <2> DEFINE b == Start(parser, packages, j)
             q == PackageOf(parser, packages[j + 1])
             d == pos + 1 - b
  <2>7. /\ packages[j + 1] \in AnyPackage /\ b \in Nat /\ Start(parser, packages, j + 1) = b + Len(q)
        /\ \A i \in 1..Len(q) : V[b + i] = q[i]
    BY <1>1, <2>6, StreamAt DEF V
  <2>8. Len(q) \in Nat
    BY <1>1, <2>7, PackageType
  <2>9. b < pos + 1 /\ pos + 1 <= b + Len(q)
    BY <2>6, <2>7
  <2>10. q = PackageOf(parser, packages[j + 1])
    OBVIOUS
  <2> HIDE DEF b, q
  <2>11. d \in 1..Len(q) /\ b + d = pos + 1
    BY <2>7, <2>8, <2>9
  <2>12. q[d] = T("HTTP")
    BY <2>5, <2>7, <2>11
  <2> HIDE DEF d
  <2>13. d = 1
    BY <1>1, <2>1, <2>7, <2>10, <2>11, <2>12, OnlyStart
  <2>14. pos = b
    BY <2>7, <2>11, <2>13
  <2>15. g <= j
    <3> SUFFICES ASSUME ~(g <= j) PROVE FALSE
      OBVIOUS
    <3>1. j < g /\ j \in Nat
      BY <1>1
    <3>2. b + F(parser) + 7 <= Start(parser, packages, g)
      BY <1>1, <3>1, StartLater DEF b
    <3>3. F(parser) \in Nat /\ pos >= Start(parser, packages, g)
      BY DEF F, Taken
    <3> QED
      BY <1>3, <2>7, <2>14, <3>2, <3>3
  <2> QED
    BY <1>6, <2>6, <2>14, <2>15 DEF b
<1> QED
  BY <1>5, <1>6

\* What is among the first packages is among more of them.
LEMMA OrderedMore ==
    ASSUME NEW g \in Nat, NEW j \in Nat, g <= j, Ordered(g) PROVE Ordered(j)
<1>1. PICK order \in [1..Len(handled) -> 1..g] :
        /\ \A i, k \in 1..Len(handled) : i < k => order[i] < order[k]
        /\ \A i \in 1..Len(handled) : handled[i] = packages[order[i]]
  BY DEF Ordered
<1>2. 1..g \subseteq 1..j
  OBVIOUS
<1>3. order \in [1..Len(handled) -> 1..j]
  BY <1>2
<1> QED
  BY <1>1, <1>3 DEF Ordered

LEMMA FirstLineKeeps == ASSUME Inv, DecodeFirstLine PROVE Inv'
<1> DEFINE at == Find(m_strBuffer, CRLF)
<1>0. PICK f : f = F(parser)
  OBVIOUS
<1>1. decoding /\ m_nHttpBufferState = "HBS_READY" /\ ~NoFirstLine
      /\ UNCHANGED <<parser, packages, tokens, refused>>
  BY DEF DecodeFirstLine
<1>2. IF at = 0 THEN Wait
      ELSE /\ m_strLine' = m_strBuffer[IF parser = "request" THEN 2 ELSE 3][2]
           /\ m_nHttpBufferState' = "HBS_HEADER"
           /\ m_strBuffer' = Erase(m_strBuffer, at + 1)
           /\ UNCHANGED <<decoding, m_Headers, handled>>
  BY DEF DecodeFirstLine
<1>3. Types
  BY DEF Inv
<1>4. PICK g \in 0..Len(packages), pos \in Nat :
         Aligned(pos) /\ Taken(g, pos) /\ Placed(g, pos)
  BY DEF Inv
<1>5. PICK j \in 0..Len(packages) : /\ g <= j /\ j < Len(packages) /\ pos = Start(parser, packages, j)
                                    /\ ~refused => j = g
  BY <1>1, <1>3, <1>4, StartFound
<1>p. PICK p : p = packages[j + 1]
  OBVIOUS
<1>q. PICK q : q = PackageOf(parser, p)
  OBVIOUS
<1> DEFINE n == Len(m_strBuffer)
<1>6. /\ m_strBuffer \in Seq(Token) /\ n \in Nat /\ parser \in Parsers
      /\ packages \in Seq(AnyPackage) /\ g \in Nat /\ j \in Nat /\ Len(packages) \in Nat
  BY <1>3 DEF Types
<1>7. /\ p \in AnyPackage /\ pos \in Nat /\ Start(parser, packages, j + 1) = pos + Len(q)
      /\ j + 1 \in 0..Len(packages)
  BY <1>p, <1>q, <1>5, <1>6, StreamAt
<1>8. Len(q) \in Nat /\ Len(q) >= f + 7
  BY <1>0, <1>q, <1>6, <1>7, PackageType
<1>9. f \in {3, 4}
  BY <1>0 DEF F
<1>10. Begins(m_strBuffer, 0, q)
  <2>1. 0 \in Nat /\ pos = Start(parser, packages, j) + 0
    BY <1>5, <1>7
  <2> QED
    BY <1>p, <1>q, <1>3, <1>4, <1>5, <2>1, BufferHas
<1>11. /\ n >= f + 2 => /\ at = f + 1
                        /\ m_strBuffer[IF parser = "request" THEN 2 ELSE 3][2] = p.line
       /\ n < f + 2 => at = 0
  BY <1>0, <1>q, <1>6, <1>7, <1>10, FirstLineFound
<1>12. p.line = packages[j + 1].line
  BY <1>p
<1> HIDE DEF at, n
<1>13. CASE n < f + 2
  <2>1. Wait
    BY <1>2, <1>11, <1>13
  <2>2. ASSUME ~refused PROVE pos + n < Start(parser, packages, g + 1)
    BY <1>5, <1>6, <1>7, <1>8, <1>9, <1>13, <2>2
  <2> QED
    BY <1>1, <1>3, <1>4, <2>1, <2>2, WaitKeeps DEF n
<1>14. CASE ~(n < f + 2)
  <2>1. /\ at = f + 1 /\ at # 0 /\ at + 1 = f + 2 /\ f + 2 \in 0..n
        /\ m_strBuffer[IF parser = "request" THEN 2 ELSE 3][2] = p.line
    BY <1>6, <1>9, <1>11, <1>14
  <2>2. /\ m_strLine' = p.line /\ m_nHttpBufferState' = "HBS_HEADER"
        /\ m_strBuffer' = Erase(m_strBuffer, f + 2)
        /\ UNCHANGED <<decoding, m_Headers, handled>>
    BY <1>2, <2>1
  <2>n. PICK next \in Nat : next = pos + (f + 2)
    BY <1>9
  <2>3. Aligned(next)' /\ m_strBuffer' \in Seq(Token)
    BY <1>1, <1>3, <1>4, <2>1, <2>2, <2>n, EraseAligns DEF n
  <2>4. Types'
    BY <1>1, <1>3, <2>2, <2>3 DEF Types
  <2>5. Taken(j, next)'
    <3>1. Ordered(j)
      BY <1>4, <1>5, <1>6, OrderedMore DEF Taken
    <3>2. Ordered(j)'
      BY <1>1, <2>2, <3>1 DEF Ordered
    <3>3. next >= Start(parser, packages, j)
      BY <1>5, <1>9, <2>n
    <3> QED
      BY <1>1, <1>4, <1>5, <2>2, <3>2, <3>3 DEF Taken
  <2>6. Placed(j, next)'
    <3>1. m_Headers = <<>>
      BY <1>1, <1>4 DEF Placed
    <3> QED
      BY <1>0, <1>1, <1>5, <1>12, <2>n, <2>2, <3>1 DEF Placed
  <2>7. Waiting(j, next)'
    BY <1>1, <2>2 DEF Waiting
  <2>8. j \in 0..Len(packages')
    BY <1>1
  <2> QED
    BY <2>3, <2>4, <2>5, <2>6, <2>7, <2>8 DEF Inv
<1> QED
  BY <1>13, <1>14

LEMMA RefuseKeeps == ASSUME Inv, RefuseFirstLine PROVE Inv'
<1>1. /\ decoding /\ m_nHttpBufferState = "HBS_READY" /\ NoFirstLine
      /\ UNCHANGED <<parser, packages, tokens, handled>>
      /\ refused' = TRUE
      /\ m_nHttpBufferState' = "HBS_READY" /\ m_strBuffer' = <<>> /\ m_Headers' = <<>>
      /\ decoding' = FALSE
  BY DEF RefuseFirstLine, Clear
<1>2. Types
  BY DEF Inv
<1>3. PICK g \in 0..Len(packages), pos \in Nat : Aligned(pos) /\ Taken(g, pos) /\ Placed(g, pos)
  BY DEF Inv
<1> DEFINE n == Len(m_strBuffer)
           V == StreamOf(parser, packages)
<1>4. /\ m_strBuffer \in Seq(Token) /\ n \in Nat /\ n > 0 /\ parser \in Parsers
      /\ packages \in Seq(AnyPackage) /\ g \in Nat /\ Len(packages) \in Nat /\ Len(tokens) \in Nat
  BY <1>1, <1>2, <1>3 DEF Types, Placed
\* A request has the method that the handler knows.
<1>5. parser # "request"
  <2> SUFFICES ASSUME parser = "request" PROVE FALSE
    OBVIOUS
  <2>1. ~refused /\ pos = Start(parser, packages, g)
    BY <1>1, <1>3 DEF Taken, Placed
  <2>2. m_strBuffer[1] # T("POST")
    BY <1>1 DEF NoFirstLine
  <2>3. pos + n + Len(tokens) = Len(V) /\ \A i \in 1..n : m_strBuffer[i] = V[pos + i]
    BY <1>3 DEF Aligned
  <2>4. Start(parser, packages, Len(packages)) = Len(V)
    BY <1>4, StreamEnds
  <2>5. g < Len(packages)
    <3>1. g # Len(packages)
      <4> HIDE DEF n, V
      <4> QED
        BY <1>4, <2>1, <2>3, <2>4
    <3> QED
      BY <1>4, <3>1
  <2>q. PICK q : q = PackageOf(parser, packages[g + 1])
    OBVIOUS
  <2>6. packages[g + 1] \in AnyPackage
    BY <1>4, <2>5
  <2>7. 0 \in Nat /\ pos = Start(parser, packages, g) + 0
    BY <2>1
  <2>8. Begins(m_strBuffer, 0, q)
    BY <1>2, <1>3, <2>q, <2>5, <2>7, BufferHas
  <2>9. m_strBuffer[1] = T("POST")
    <3>1. n >= 1
      BY <1>4
    <3> QED
      BY <1>4, <2>q, <2>6, <2>8, <3>1, FirstLineFound
  <2> QED
    BY <2>2, <2>9
<1>n. PICK k \in Nat, next \in Nat : k = n /\ next = pos + k
  BY <1>4
<1>6. Aligned(next)'
  <2>1. k \in 0..n /\ Erase(m_strBuffer, k) = <<>>
    BY <1>4, <1>n DEF Erase
  <2> QED
    BY <1>n, <1>1, <1>2, <1>3, <2>1, EraseAligns
<1>7. Types'
  <2>1. <<>> \in Seq(Token)
    OBVIOUS
  <2> QED
    BY <1>1, <1>2, <2>1 DEF Types
<1>8. Taken(g, next)'
  <2>1. Ordered(g)'
    BY <1>1, <1>3 DEF Taken, Ordered
  <2>2. Start(parser, packages, g) \in Nat /\ pos >= Start(parser, packages, g)
    BY <1>3, <1>4, StreamType DEF Taken
  <2>3. next >= Start(parser, packages, g)
    BY <1>n, <2>2
  <2> QED
    BY <1>1, <1>5, <2>1, <2>3 DEF Taken
<1>9. Placed(g, next)'
  BY <1>1 DEF Placed
<1>10. Waiting(g, next)'
  BY <1>1 DEF Waiting
<1>11. g \in 0..Len(packages')
  BY <1>1
<1> QED
  BY <1>6, <1>7, <1>8, <1>9, <1>10, <1>11 DEF Inv

LEMMA HeaderKeeps == ASSUME Inv, DecodeHttpHeader PROVE Inv'
<1>1. /\ decoding /\ m_nHttpBufferState = "HBS_HEADER"
      /\ UNCHANGED <<parser, packages, tokens, refused>>
  BY DEF DecodeHttpHeader
<1>2. IF Find(m_strBuffer, Blank) = 0 THEN Wait
      ELSE /\ m_Headers' = m_Headers
                           \o HeaderLines(SubSeq(m_strBuffer, 1, Find(m_strBuffer, Blank) - 1))
           /\ m_nHttpBufferState' = "HBS_BODY"
           /\ m_strBuffer' = Erase(m_strBuffer, Find(m_strBuffer, Blank) + 3)
           /\ UNCHANGED <<decoding, m_strLine, handled>>
  BY DEF DecodeHttpHeader, Blank
<1>3. Types
  BY DEF Inv
<1>4. PICK g \in 0..Len(packages), pos \in Nat :
         Aligned(pos) /\ Taken(g, pos) /\ Placed(g, pos)
  BY DEF Inv
<1>5. PICK p, f, h, q : /\ p = packages[g + 1] /\ f = F(parser) /\ h = Hd(p)
                        /\ q = PackageOf(parser, p)
  OBVIOUS
<1>6. /\ g < Len(packages) /\ pos = Start(parser, packages, g) + (f + 2)
      /\ m_strLine = p.line /\ m_Headers = <<>>
  BY <1>1, <1>4, <1>5 DEF Placed
<1> DEFINE n == Len(m_strBuffer)
           at == Find(m_strBuffer, Blank)
<1>7. /\ m_strBuffer \in Seq(Token) /\ n \in Nat /\ parser \in Parsers
      /\ packages \in Seq(AnyPackage) /\ g \in Nat /\ Len(packages) \in Nat
  BY <1>3 DEF Types
<1>8. /\ p \in AnyPackage /\ Start(parser, packages, g) \in Nat
      /\ Start(parser, packages, g + 1) = Start(parser, packages, g) + Len(q)
  BY <1>5, <1>6, <1>7, StreamAt
<1>9. f \in {3, 4} /\ h \in {0, 3} /\ Len(q) \in Nat /\ Len(q) >= f + h + 7
  <2>1. f \in {3, 4} /\ h \in {0, 3}
    BY <1>5 DEF F, Hd
  <2>2. Len(q) = f + h + 7 + Len(p.body) /\ Len(p.body) \in Nat
    BY <1>5, <1>7, <1>8, PackageType, BodyType
  <2>3. \A x \in {3, 4}, y \in {0, 3}, z \in Nat :
           x + y + 7 + z \in Nat /\ x + y + 7 + z >= x + y + 7
    OBVIOUS
  <2>4. /\ f + h + 7 + Len(p.body) \in Nat
        /\ f + h + 7 + Len(p.body) >= f + h + 7
    BY <2>1, <2>2, <2>3, Zenon
  <2> QED
    BY <2>1, <2>2, <2>4, Zenon
<1>10. Begins(m_strBuffer, f + 2, q)
  <2>1. f + 2 \in Nat
    BY <1>9
  <2> QED
    BY <1>3, <1>4, <1>5, <1>6, <2>1, BufferHas
<1>11. /\ n >= h + 5 => /\ at = h + 2
                        /\ HeaderLines(SubSeq(m_strBuffer, 1, h + 1)) = LinesOf(p)
       /\ n < h + 5 => at = 0
  BY <1>5, <1>7, <1>8, <1>10, HeaderFound
<1> HIDE DEF n, at
<1>12. CASE n < h + 5
  <2>1. Wait
    BY <1>2, <1>11, <1>12 DEF at
  <2>2. pos + n < Start(parser, packages, g + 1)
    BY <1>6, <1>7, <1>8, <1>9, <1>12
  <2> QED
    BY <1>1, <1>3, <1>4, <2>1, <2>2, WaitKeeps DEF n
<1>13. CASE ~(n < h + 5)
  <2>1. at = h + 2 /\ at # 0 /\ at + 3 = h + 5 /\ at - 1 = h + 1 /\ h + 5 \in 0..n
    <3>1. \A x \in {0, 3}, y \in Nat :
             ~(y < x + 5) => /\ y >= x + 5 /\ x + 2 # 0 /\ (x + 2) + 3 = x + 5
                             /\ (x + 2) - 1 = x + 1 /\ x + 5 \in 0..y
      OBVIOUS
    <3>2. /\ n >= h + 5 /\ h + 2 # 0 /\ (h + 2) + 3 = h + 5
          /\ (h + 2) - 1 = h + 1 /\ h + 5 \in 0..n
      BY <1>7, <1>9, <1>13, <3>1, Zenon
    <3>3. at = h + 2
      BY <1>11, <3>2, Zenon
    <3> QED
      BY <3>2, <3>3, Zenon
  <2>2. HeaderLines(SubSeq(m_strBuffer, 1, h + 1)) = LinesOf(p)
    BY <1>7, <1>9, <1>11, <1>13
  <2>3. /\ m_Headers' = <<>> \o LinesOf(p) /\ m_nHttpBufferState' = "HBS_BODY"
        /\ m_strBuffer' = Erase(m_strBuffer, h + 5)
        /\ UNCHANGED <<decoding, m_strLine, handled>>
    BY <1>2, <1>6, <2>1, <2>2 DEF at
  <2>4. m_Headers' = LinesOf(p)
    <3>1. LinesOf(p) \in Seq({<<"header", p.hdr>>, <<"Content-Length", Len(p.body)>>})
      <4>1. \A x, y : <<y>> \in Seq({x, y}) /\ <<x, y>> \in Seq({x, y})
        OBVIOUS
      <4> QED
        BY <4>1, Zenon DEF LinesOf
    <3> QED
      BY <2>3, <3>1, ConcatEmptySeq
  <2>5. PICK next \in Nat : next = pos + (h + 5)
    BY <1>9
  <2>6. Aligned(next)' /\ m_strBuffer' \in Seq(Token)
    BY <1>1, <1>3, <1>4, <2>1, <2>3, <2>5, EraseAligns DEF n
  <2>7. Types'
    BY <1>1, <1>3, <2>3, <2>6 DEF Types
  <2>8. next = Start(parser, packages, g) + (f + h + 7)
    BY <1>6, <1>8, <1>9, <2>5
  <2>9. Taken(g, next)'
    <3>1. Ordered(g)'
      BY <1>1, <1>4, <2>3 DEF Taken, Ordered
    <3>2. next >= Start(parser, packages, g)
      BY <1>8, <1>9, <2>8
    <3> QED
      BY <1>1, <1>4, <2>3, <3>1, <3>2 DEF Taken
  <2>10. Placed(g, next)'
    BY <1>1, <1>5, <1>6, <2>3, <2>4, <2>8 DEF Placed
  <2>11. Waiting(g, next)'
    BY <1>1, <2>3 DEF Waiting
  <2>12. g \in 0..Len(packages')
    BY <1>1
  <2> QED
    BY <2>6, <2>7, <2>9, <2>10, <2>11, <2>12 DEF Inv
<1> QED
  BY <1>12, <1>13

LEMMA BodyKeeps == ASSUME Inv, DecodeBody PROVE Inv'
<1>1. /\ decoding /\ m_nHttpBufferState = "HBS_BODY"
      /\ UNCHANGED <<parser, packages, tokens, refused>>
  BY DEF DecodeBody
<1>2. Types
  BY DEF Inv
<1>3. PICK g \in 0..Len(packages), pos \in Nat :
         Aligned(pos) /\ Taken(g, pos) /\ Placed(g, pos)
  BY DEF Inv
<1>4. PICK p, f, h, q, m : /\ p = packages[g + 1] /\ f = F(parser) /\ h = Hd(p)
                           /\ q = PackageOf(parser, p) /\ m = Len(p.body)
  OBVIOUS
<1>5. /\ g < Len(packages) /\ pos = Start(parser, packages, g) + (f + h + 7)
      /\ m_strLine = p.line /\ m_Headers = LinesOf(p)
  BY <1>1, <1>3, <1>4 DEF Placed
<1> DEFINE n == Len(m_strBuffer)
<1>6. /\ m_strBuffer \in Seq(Token) /\ n \in Nat /\ parser \in Parsers
      /\ packages \in Seq(AnyPackage) /\ g \in Nat /\ Len(packages) \in Nat /\ handled \in Seq(AnyPackage)
  BY <1>2 DEF Types
<1>7. /\ p \in AnyPackage /\ Start(parser, packages, g) \in Nat /\ g + 1 \in 0..Len(packages)
      /\ Start(parser, packages, g + 1) = Start(parser, packages, g) + Len(q)
  BY <1>4, <1>5, <1>6, StreamAt
<1>8. f \in {3, 4} /\ h \in {0, 3} /\ m \in Nat /\ Len(q) = f + h + 7 + m
  <2>1. f \in {3, 4} /\ h \in {0, 3}
    BY <1>4 DEF F, Hd
  <2> QED
    BY <1>4, <1>6, <1>7, <2>1, PackageType, BodyType
<1>9. FindHeader("Content-Length", 0) = m /\ FindHeader("header", Nothing) = p.hdr
  BY <1>4, <1>5, <1>7, HeadersFound
<1>10. IF ~(m <= n) THEN Wait
       ELSE /\ handled' = Append(handled, [line |-> m_strLine, hdr |-> p.hdr,
                                           body |-> SubSeq(m_strBuffer, 1, m)])
            /\ Clear(Erase(m_strBuffer, m))
  BY <1>9 DEF DecodeBody, BodyIsThere
<1>11. Begins(m_strBuffer, f + h + 7, q)
  <2>1. f + h + 7 \in Nat
    BY <1>8
  <2> QED
    BY <1>2, <1>3, <1>4, <1>5, <2>1, BufferHas
<1>12. Start(parser, packages, g + 1) = pos + m /\ pos + m \in Nat
  BY <1>5, <1>7, <1>8
<1> HIDE DEF n
<1>13. CASE ~(m <= n)
  <2>1. Wait
    BY <1>10, <1>13
  <2>2. pos + n < Start(parser, packages, g + 1)
    BY <1>6, <1>8, <1>12, <1>13
  <2> QED
    BY <1>1, <1>2, <1>3, <2>1, <2>2, WaitKeeps DEF n
<1>14. CASE m <= n
  <2>1. SubSeq(m_strBuffer, 1, m) = p.body
    <3>1. PICK c : c = F(parser) + Hd(p) + 7
      OBVIOUS
    <3>2. Begins(m_strBuffer, c, q)
      BY <1>4, <1>11, <3>1
    <3> QED
      BY <1>4, <1>6, <1>7, <1>14, <3>1, <3>2, BodyFound DEF n
  <2>2. p = [line |-> p.line, hdr |-> p.hdr, body |-> p.body]
    BY <1>7 DEF AnyPackage
  <2>3. handled' = Append(handled, p)
    BY <1>5, <1>10, <1>14, <2>1, <2>2
  <2>4. /\ m_strBuffer' = Erase(m_strBuffer, m) /\ m_nHttpBufferState' = "HBS_READY"
        /\ m_Headers' = <<>> /\ decoding' = (Erase(m_strBuffer, m) # <<>>)
    BY <1>10, <1>14 DEF Clear
  <2>5. PICK next \in Nat : next = pos + m
    BY <1>12
  <2>6. Aligned(next)' /\ m_strBuffer' \in Seq(Token)
    <3>1. m \in 0..n
      BY <1>6, <1>8, <1>14
    <3> QED
      BY <1>1, <1>2, <1>3, <2>4, <2>5, <3>1, EraseAligns DEF n
  <2>7. Types'
    <3>1. handled' \in Seq(AnyPackage)
      BY <1>6, <1>7, <2>3
    <3>2. decoding' \in BOOLEAN
      BY <2>4
    <3> QED
      BY <1>1, <1>2, <2>4, <2>6, <3>1, <3>2 DEF Types
  <2>8. next = Start(parser, packages, g + 1)
    BY <1>12, <2>5
  <2>9. Taken(g + 1, next)'
    <3>1. Ordered(g + 1)'
      <4>1. PICK order \in [1..Len(handled) -> 1..g] :
              /\ \A i, j \in 1..Len(handled) : i < j => order[i] < order[j]
              /\ \A i \in 1..Len(handled) : handled[i] = packages[order[i]]
        BY <1>3 DEF Taken, Ordered
      <4>2. PICK k \in Nat : k = Len(handled)
        BY <1>6
      <4>3. /\ Len(handled') = k + 1 /\ handled'[k + 1] = p
            /\ \A i \in 1..k : handled'[i] = handled[i]
        BY <1>6, <1>7, <2>3, <4>2
      <4> DEFINE more == [i \in 1..k + 1 |-> IF i <= k THEN order[i] ELSE g + 1]
      <4>4. \A i \in 1..k : order[i] \in 1..g
        BY <4>1, <4>2
      <4>5. more \in [1..k + 1 -> 1..g + 1]
        BY <1>6, <4>2, <4>4
      <4>6. ASSUME NEW i \in 1..k + 1, NEW j \in 1..k + 1, i < j PROVE more[i] < more[j]
        <5>1. i <= k /\ i \in 1..k
          BY <4>2, <4>6
        <5>2. more[i] = order[i] /\ order[i] \in 1..g
          BY <4>4, <5>1
        <5>3. CASE j <= k
          <6>1. j \in 1..k /\ more[j] = order[j]
            BY <4>2, <5>3
          <6> QED
            BY <4>1, <4>2, <4>6, <5>1, <5>2, <6>1
        <5>4. CASE ~(j <= k)
          <6>1. more[j] = g + 1
            BY <5>4
          <6> QED
            BY <1>6, <5>2, <6>1
        <5> QED
          BY <5>3, <5>4
      <4>7. ASSUME NEW i \in 1..k + 1 PROVE handled'[i] = packages[more[i]]
        <5>1. CASE i <= k
          <6>1. i \in 1..k /\ more[i] = order[i]
            BY <4>2, <5>1
          <6> QED
            BY <4>1, <4>2, <4>3, <6>1
        <5>2. CASE ~(i <= k)
          <6>1. i = k + 1 /\ more[i] = g + 1
            BY <4>2, <5>2
          <6> QED
            BY <1>4, <4>3, <6>1
        <5> QED
          BY <5>1, <5>2
      <4> HIDE DEF more
      <4> QED
        BY <1>1, <4>3, <4>5, <4>6, <4>7 DEF Ordered
    <3>2. ASSUME ~refused PROVE handled' = First(packages, g + 1)
      <4>1. handled = First(packages, g)
        BY <1>3, <3>2 DEF Taken
      <4>2. First(packages, g + 1) = Append(First(packages, g), packages[g + 1])
        BY <1>5, <1>6, FirstNext
      <4> QED
        BY <1>4, <2>3, <4>1, <4>2
    <3>3. next >= Start(parser, packages, g + 1)
      BY <2>8
    <3>4. parser = "request" => ~refused
      BY <1>3 DEF Taken
    <3> QED
      BY <1>1, <3>1, <3>2, <3>3, <3>4 DEF Taken
  <2>10. Placed(g + 1, next)'
    <3>1. decoding' => Len(m_strBuffer') > 0
      <4>1. decoding' => m_strBuffer' # <<>>
        BY <2>4
      <4>2. m_strBuffer' # <<>> => Len(m_strBuffer') > 0
        BY <2>6, EmptySeq
      <4> QED
        BY <4>1, <4>2
    <3> QED
      BY <1>1, <2>4, <2>8, <3>1 DEF Placed
  <2>11. Waiting(g + 1, next)'
    <3> SUFFICES ASSUME ~decoding', g + 1 < Len(packages)
                 PROVE  next + Len(m_strBuffer') < Start(parser, packages, (g + 1) + 1)
      BY <1>1 DEF Waiting
    <3>1. Len(m_strBuffer') = 0
      BY <2>4
    <3>2. (g + 1) + 1 \in 0..Len(packages) /\ g + 1 < (g + 1) + 1
      BY <1>6
    <3>3. Start(parser, packages, g + 1) + F(parser) + 7 <= Start(parser, packages, (g + 1) + 1)
      BY <1>6, <1>7, <3>2, StartLater
    <3>4. Start(parser, packages, (g + 1) + 1) \in Nat
      BY <1>6, <3>2, StreamType
    <3>5. F(parser) \in Nat
      BY DEF F
    <3>6. next + F(parser) + 7 <= Start(parser, packages, (g + 1) + 1)
      BY <2>8, <3>3
    <3>7. next < Start(parser, packages, (g + 1) + 1)
      BY <3>4, <3>5, <3>6
    <3> QED
      BY <3>1, <3>7
  <2>12. g + 1 \in 0..Len(packages')
    BY <1>1, <1>7
  <2> QED
    BY <2>6, <2>7, <2>9, <2>10, <2>11, <2>12 DEF Inv
<1> QED
  BY <1>13, <1>14

LEMMA InvNext == Inv /\ [HttpNext]_httpVars => Inv'
<1> SUFFICES ASSUME Inv, [HttpNext]_httpVars PROVE Inv'
  OBVIOUS
<1>1. CASE SendHttpPackage
  BY <1>1, SendKeeps
<1>2. CASE OnRead
  BY <1>2, ReadKeeps
<1>3. CASE DecodeFirstLine
  BY <1>3, FirstLineKeeps
<1>4. CASE RefuseFirstLine
  BY <1>4, RefuseKeeps
<1>5. CASE DecodeHttpHeader
  BY <1>5, HeaderKeeps
<1>6. CASE DecodeBody
  BY <1>6, BodyKeeps
<1>7. CASE UNCHANGED httpVars
  <2>1. UNCHANGED <<parser, packages, tokens, decoding, m_nHttpBufferState, m_strBuffer,
                    m_strLine, m_Headers, handled, refused>>
    BY <1>7 DEF httpVars, parserVars
  <2>2. PICK g \in 0..Len(packages), pos \in Nat :
           Aligned(pos) /\ Taken(g, pos) /\ Placed(g, pos) /\ Waiting(g, pos)
    BY DEF Inv
  <2>3. Types'
    BY <2>1 DEF Inv, Types
  <2>4. Aligned(pos)' /\ Waiting(g, pos)' /\ g \in 0..Len(packages')
    BY <2>1, <2>2 DEF Aligned, Waiting
  <2>5. Taken(g, pos)'
    BY <2>1, <2>2 DEF Taken, Ordered
  <2>6. Placed(g, pos)'
    BY <2>1, <2>2 DEF Placed
  <2> QED
    BY <2>3, <2>4, <2>5, <2>6 DEF Inv
<1> QED
  BY <1>1, <1>2, <1>3, <1>4, <1>5, <1>6, <1>7 DEF HttpNext

LEMMA InvHolds == HttpSpec => []Inv
BY InvInit, InvNext, PTL DEF HttpSpec

-----------------------------------------------------------------------------
\* What has been used of the package that is arriving leads to where the buffer begins.
LEMMA UsedIs ==
    ASSUME Types, ~refused, NEW g \in 0..Len(packages), NEW pos \in Nat, Taken(g, pos), Placed(g, pos)
    PROVE  Len(Stream(handled)) + Used = pos
<1>1. /\ packages \in Seq(AnyPackage) /\ parser \in Parsers /\ handled = First(packages, g)
      /\ g \in Nat /\ Len(packages) \in Nat
  BY DEF Types, Taken
<1>2. PICK b : b = Start(parser, packages, g)
  OBVIOUS
<1>3. Len(Stream(handled)) = b /\ b \in Nat
  BY <1>1, <1>2, StreamIs, StreamType DEF Start
<1>4. Len(handled) = g
  BY <1>1, FirstIs
<1>5. CASE m_nHttpBufferState = "HBS_READY"
  <2>1. Used = 0 /\ pos = b
    BY <1>2, <1>5 DEF Used, Placed
  <2> QED
    BY <1>3, <2>1
<1>6. CASE m_nHttpBufferState = "HBS_HEADER"
  <2>1. PICK p, f : p = packages[g + 1] /\ f = F(parser)
    OBVIOUS
  <2>2. g < Len(packages) /\ pos = b + (f + 2)
    BY <1>2, <1>6, <2>1 DEF Placed
  <2>3. p \in AnyPackage /\ f \in Nat
    BY <1>1, <2>1, <2>2 DEF F
  <2>4. Used = Len(FirstLine(p) \o CRLF)
    BY <1>4, <1>6, <2>1 DEF Used
  <2>5. FirstLine(p) = FirstLineOf(parser, p)
    BY DEF FirstLine, FirstLineOf
  <2>6. FirstLine(p) \in Seq(Token) /\ Len(FirstLine(p)) = f
    BY <1>1, <2>1, <2>3, <2>5, FirstLineTokens
  <2>7. CRLF \in Seq(Token) /\ Len(CRLF) = 2
    BY FixedTokens
  <2>8. Len(FirstLine(p) \o CRLF) = f + 2
    <3>1. IsCat(FirstLine(p) \o CRLF, FirstLine(p), f, CRLF, 2)
      BY <2>6, <2>7, CatIs
    <3> QED
      BY <3>1 DEF IsCat
  <2> QED
    BY <1>3, <2>2, <2>4, <2>8
<1>7. CASE m_nHttpBufferState = "HBS_BODY"
  <2>1. PICK p, f, h, m : p = packages[g + 1] /\ f = F(parser) /\ h = Hd(p) /\ m = Len(p.body)
    OBVIOUS
  <2>2. g < Len(packages) /\ pos = b + (f + h + 7)
    BY <1>2, <1>7, <2>1 DEF Placed
  <2>3. p \in AnyPackage /\ f \in Nat /\ h \in Nat
    BY <1>1, <2>1, <2>2 DEF F, Hd
  <2>4. Used = Len(Package(p)) - m
    BY <1>4, <1>7, <2>1 DEF Used
  <2>5. Len(Package(p)) = f + h + 7 + m /\ m \in Nat
    BY <1>1, <2>1, <2>3, PackageIs, PackageType, BodyType
  <2>6. \A x, y, z \in Nat : (x + y + 7 + z) - z = x + y + 7
    OBVIOUS
  <2>7. Used = f + h + 7
    BY <2>3, <2>4, <2>5, <2>6
  <2> QED
    BY <1>3, <2>2, <2>7
<1> QED
  BY <1>5, <1>6, <1>7 DEF Types

\* However the stream is cut, and at every step of the parser: as long as no first line
\* has been refused, the buffer is what has been delivered and not been used, and there
\* are no headers but those of the package that is arriving.
THEOREM NoTokenIsLost == HttpSpec => []NothingLostInBuffer
<1>1. ASSUME Inv PROVE NothingLostInBuffer
  <2>1. Types
    BY <1>1 DEF Inv
  <2>2. PICK g \in 0..Len(packages), pos \in Nat :
           Aligned(pos) /\ Taken(g, pos) /\ Placed(g, pos)
    BY <1>1 DEF Inv
  <2>3. m_nHttpBufferState # "HBS_BODY" => m_Headers = <<>>
    BY <2>1, <2>2 DEF Types, Placed
  <2>4. ASSUME ~refused
        PROVE  m_strBuffer \o tokens = Erase(Stream(packages), Len(Stream(handled)) + Used)
    <3>1. Len(Stream(handled)) + Used = pos
      BY <2>1, <2>2, <2>4, UsedIs
    <3> DEFINE V == StreamOf(parser, packages)
               k == Len(m_strBuffer)
               m == Len(tokens)
               s == m_strBuffer \o tokens
               t == Erase(V, pos)
    <3>2. Stream(packages) = V
      BY StreamIs
    <3>3. V \in Seq(Token) /\ Len(V) \in Nat
      BY <2>1, StreamEnds DEF Types
    <3>4. /\ pos + k + m = Len(V)
          /\ \A i \in 1..k : m_strBuffer[i] = V[pos + i]
          /\ \A i \in 1..m : tokens[i] = V[pos + k + i]
      BY <2>2 DEF Aligned
    <3>5. /\ m_strBuffer \in Seq(Token) /\ tokens \in Seq(Token) /\ k \in Nat /\ m \in Nat
          /\ Len(m_strBuffer) = k /\ Len(tokens) = m
      BY <2>1 DEF Types
    <3> HIDE DEF V, k, m
    <3>6. IsCat(s, m_strBuffer, k, tokens, m)
      BY <3>5, CatIs
    <3>7. pos \in 0..Len(V) /\ Len(V) - pos = k + m
      BY <3>3, <3>4, <3>5
    <3>8. t \in Seq(Token) /\ Len(t) = k + m /\ \A i \in 1..k + m : t[i] = V[pos + i]
      BY <3>3, <3>7, Erased
    <3> HIDE DEF s, t
    <3>9. ASSUME NEW i \in 1..k + m PROVE s[i] = t[i]
      <4>1. CASE i <= k
        <5>1. i \in 1..k
          BY <3>5, <4>1
        <5> QED
          BY <3>4, <3>6, <3>8, <5>1 DEF IsCat
      <4>2. CASE ~(i <= k)
        <5>1. i - k \in 1..m /\ k + (i - k) = i /\ pos + k + (i - k) = pos + i
          BY <3>5, <4>2
        <5>2. s[k + (i - k)] = tokens[i - k]
          BY <3>6, <5>1 DEF IsCat
        <5>3. tokens[i - k] = V[pos + k + (i - k)]
          BY <3>4, <5>1
        <5> QED
          BY <3>8, <5>1, <5>2, <5>3
      <4> QED
        BY <4>1, <4>2
    <3>10. s \in Seq(Token) /\ Len(s) = k + m
      BY <3>6 DEF IsCat
    <3>11. s = t
      BY <3>5, <3>8, <3>9, <3>10, SeqEqual
    <3> QED
      BY <3>1, <3>2, <3>11 DEF s, t
  <2> QED
    BY <2>3, <2>4 DEF NothingLostInBuffer
<1> QED
  BY <1>1, InvHolds, PTL

\* Whatever is refused, what OnHttpRequest or OnHttpResponse is called with was sent:
\* whole packages, none twice, in the order in which they were sent.
THEOREM NothingIsMadeUp == HttpSpec => []HandledWereSent
<1>1. ASSUME Inv PROVE HandledWereSent
  <2>1. PICK g \in 0..Len(packages) : Ordered(g)
    BY <1>1 DEF Inv, Taken
  <2>2. Len(packages) \in Nat
    BY <1>1 DEF Inv, Types
  <2>3. PICK order \in [1..Len(handled) -> 1..g] :
           /\ \A i, j \in 1..Len(handled) : i < j => order[i] < order[j]
           /\ \A i \in 1..Len(handled) : handled[i] = packages[order[i]]
    BY <2>1 DEF Ordered
  <2>4. 1..g \subseteq 1..Len(packages)
    BY <2>2
  <2>5. order \in [1..Len(handled) -> 1..Len(packages)]
    BY <2>4
  <2> QED
    BY <2>3, <2>5 DEF HandledWereSent
<1> QED
  BY <1>1, InvHolds, PTL

\* When the parser waits for more, it has handled every package that has arrived whole:
\* requests always, responses as long as none has been refused.
THEOREM ArrivedIsHandled == HttpSpec => []HandledWhenArrived
<1>1. ASSUME Inv PROVE HandledWhenArrived
  <2> SUFFICES ASSUME ~decoding, parser = "response" => ~refused
               PROVE  handled = SubSeq(packages, 1, Arrived)
    BY DEF HandledWhenArrived
  <2>1. Types
    BY <1>1 DEF Inv
  <2>2. PICK g \in 0..Len(packages), pos \in Nat : Aligned(pos) /\ Taken(g, pos) /\ Waiting(g, pos)
    BY <1>1 DEF Inv
  <2>3. ~refused
    BY <2>1, <2>2 DEF Taken, Types, Parsers
  <2>4. handled = First(packages, g)
    BY <2>2, <2>3 DEF Taken
  <2> DEFINE V == StreamOf(parser, packages)
             d == pos + Len(m_strBuffer)
             S == {k \in 0..Len(packages) : Len(Stream(SubSeq(packages, 1, k))) <= Delivered}
  <2>5. /\ parser \in Parsers /\ packages \in Seq(AnyPackage) /\ Len(packages) \in Nat /\ g \in Nat
        /\ Len(m_strBuffer) \in Nat /\ Len(tokens) \in Nat
    BY <2>1 DEF Types
  <2>6. pos + Len(m_strBuffer) + Len(tokens) = Len(V)
    BY <2>2 DEF Aligned
  <2>7. Delivered = d /\ d \in Nat
    <3>1. Delivered = Len(V) - Len(tokens)
      BY StreamIs DEF Delivered
    <3>2. \A x, y, z \in Nat : (x + y + z) - z = x + y /\ x + y \in Nat
      OBVIOUS
    <3> QED
      BY <2>5, <2>6, <3>1, <3>2
  <2>8. \A k \in 0..Len(packages) : /\ Len(Stream(SubSeq(packages, 1, k))) = Start(parser, packages, k)
                                    /\ Start(parser, packages, k) \in Nat
    BY <2>5, StreamIs, StreamType DEF Start, First
  <2>9. S = {k \in 0..Len(packages) : Start(parser, packages, k) <= d}
    BY <2>7, <2>8
  <2>10. Start(parser, packages, g) <= d
    BY <2>2, <2>5, <2>8 DEF Taken
  <2>11. ASSUME NEW k \in 0..Len(packages), Start(parser, packages, k) <= d PROVE k <= g
    <3> SUFFICES ASSUME ~(k <= g) PROVE FALSE
      OBVIOUS
    <3>1. g < Len(packages) /\ g + 1 <= k /\ g + 1 \in 0..Len(packages)
      BY <2>5
    <3>2. d < Start(parser, packages, g + 1)
      BY <2>2, <2>3, <3>1 DEF Waiting
    <3>3. Start(parser, packages, g + 1) <= Start(parser, packages, k)
      BY <2>5, <3>1, StreamGrows
    <3>4. Start(parser, packages, g + 1) \in Nat /\ Start(parser, packages, k) \in Nat
      BY <2>8, <3>1
    <3> HIDE DEF d
    <3> QED
      BY <2>7, <2>11, <3>2, <3>3, <3>4
  <2> HIDE DEF S, d
  <2>12. g \in S /\ \A y \in S : g >= y
    BY <2>5, <2>9, <2>10, <2>11
  <2>13. Max(S) \in S /\ \A y \in S : Max(S) >= y
    BY <2>12, Zenon DEF Max
  <2>14. Max(S) = g
    BY <2>5, <2>9, <2>12, <2>13
  <2>15. Arrived = g
    BY <2>14 DEF Arrived, S
  <2> QED
    BY <2>4, <2>15 DEF First
<1> QED
  BY <1>1, InvHolds, PTL
=============================================================================
