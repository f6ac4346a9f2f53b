------------------------- MODULE CommandStreamProofs ------------------------
(***************************************************************************)
(* What DecodeBuffer does with a stream that is cut into chunks: proofs of *)
(* TypeOK, StreamConserved and ReceivedAsSent of CommandStream.            *)
(***************************************************************************)
EXTENDS CommandStream, SequenceTheorems, NaturalsInduction, WellFoundedInduction, TLAPS

\* A command as the receiver may put one together.
Command == [code : Nat, data : Seq(Nat)]

\* Every set of natural numbers but the empty one has a least element.
LEMMA Least ==
    ASSUME NEW T, T \subseteq Nat, T # {}
    PROVE  \E x \in T : \A y \in T : x <= y
<1> DEFINE R == OpToRel(<, Nat)
<1>1. IsWellFoundedOn(R, Nat)
  BY NatLessThanWellFounded, Zenon
<1> HIDE DEF R
<1>2. PICK x \in T : \A y \in T : ~(<<y, x>> \in R)
  BY <1>1, WFMin, Zenon
<1>3. \A y \in T : ~(<<y, x>> \in R) => x <= y
  BY DEF R, OpToRel
<1> QED
  BY <1>2, <1>3

\* Induction: a set that has 0 and, with a number, the next one, has all.
LEMMA Induction ==
    ASSUME NEW S, 0 \in S, \A n \in Nat : n \in S => n + 1 \in S
    PROVE  \A n \in Nat : n \in S
<1> SUFFICES ASSUME NEW m \in Nat, m \notin S PROVE FALSE
  OBVIOUS
<1> DEFINE T == {n \in Nat : n \notin S}
<1>1. PICK x \in T : \A y \in T : x <= y
  <2>1. T \subseteq Nat /\ T # {}
    OBVIOUS
  <2> HIDE DEF T
  <2> QED
    BY <2>1, Least
<1>2. x \in Nat \ {0} /\ x - 1 \in Nat /\ x - 1 \notin T
  BY <1>1
<1>3. x - 1 \in S
  BY <1>2
<1>4. (x - 1) + 1 \in S
  BY <1>2, <1>3
<1> QED
  BY <1>2, <1>4

LEMMA Concats ==
    ASSUME NEW s \in Seq(Nat), NEW t \in Seq(Nat)
    PROVE  s \o t \in Seq(Nat) /\ Len(s \o t) = Len(s) + Len(t)
BY ConcatProperties

LEMMA Regroup ==
    ASSUME NEW s \in Seq(Nat), NEW t \in Seq(Nat), NEW u \in Seq(Nat)
    PROVE  (s \o t) \o u = s \o (t \o u)
BY ConcatAssociative

-----------------------------------------------------------------------------
(* The words of a list of commands.                                        *)

LEMMA SentIsCommand == CommandData \subseteq Command
<1> SUFFICES ASSUME NEW cmd \in CommandData PROVE cmd \in Command
  OBVIOUS
<1>1. PICK n \in 0..MaxContent : cmd.data \in [1..n -> Word]
  BY DEF CommandData
<1>2. Word \subseteq Nat /\ n \in Nat
  BY CommandStreamAssumption
<1>3. cmd.data \in Seq(Nat)
  <2>1. \A i \in 1..n : cmd.data[i] \in Nat
    BY <1>1, <1>2
  <2>2. cmd.data \in [1..n -> Nat]
    BY <1>1, <2>1
  <2> QED
    BY <1>2, <2>2, SeqDef
<1>4. cmd = [code |-> cmd.code, data |-> cmd.data] /\ cmd.code \in Nat
  BY CommandStreamAssumption DEF CommandData
<1> QED
  BY <1>3, <1>4 DEF Command

LEMMA SentIsShort ==
    ASSUME NEW cmd \in CommandData PROVE Len(cmd.data) <= MaxContent /\ cmd.code # 0
<1>1. PICK n \in 0..MaxContent : cmd.data \in [1..n -> Word]
  BY DEF CommandData
<1>2. n \in Nat /\ n <= MaxContent /\ cmd.data \in Seq(Word) /\ Len(cmd.data) = n
  BY <1>1, CommandStreamAssumption
<1> QED
  BY <1>2, CommandStreamAssumption DEF CommandData

LEMMA MakeStreamType ==
    ASSUME NEW cmd \in Command
    PROVE  /\ MakeStream(cmd) \in Seq(Nat)
           /\ Len(MakeStream(cmd)) = 2 + Len(cmd.data)
<1>1. cmd.data \in Seq(Nat) /\ <<cmd.code, Len(cmd.data)>> \in Seq(Nat)
  BY DEF Command
<1> QED
  BY <1>1, ConcatProperties DEF MakeStream

\* The recursion that FoldLeft is defined by.
FoldsOver(f, S, cmds) ==
    f = [s \in SUBSET S |->
            IF s = {} THEN <<>> ELSE f[s \ {Max(s)}] \o MakeStream(cmds[Max(s)])]

LEMMA StreamsAreFold ==
    ASSUME NEW cmds
    PROVE  MakeStreams(cmds) = (CHOOSE f : FoldsOver(f, DOMAIN cmds, cmds))[DOMAIN cmds]
BY DEF MakeStreams, FoldLeft, MapThenFoldSet, FoldsOver

LEMMA MaxOfRange ==
    ASSUME NEW k \in Nat, NEW s \in SUBSET (1..k + 1), k + 1 \in s
    PROVE  Max(s) = k + 1
<1>1. \A y \in s : k + 1 >= y
  OBVIOUS
<1>2. \A x \in s : (\A y \in s : x >= y) => x = k + 1
  OBVIOUS
<1>3. \E x \in s : \A y \in s : x >= y
  BY <1>1
<1>4. Max(s) \in s /\ \A y \in s : Max(s) >= y
  BY <1>3, Zenon DEF Max
<1> QED
  BY <1>2, <1>4

LEMMA FoldExists ==
    ASSUME NEW cmds
    PROVE  \A n \in Nat : \E f : FoldsOver(f, 1..n, cmds)
<1> DEFINE N == {n \in Nat : \E f : FoldsOver(f, 1..n, cmds)}
<1>1. 0 \in N
  <2> DEFINE f == [s \in SUBSET (1..0) |-> <<>>]
  <2>1. \A s \in SUBSET (1..0) : s = {}
    OBVIOUS
  <2>2. f = [s \in SUBSET (1..0) |->
              IF s = {} THEN <<>> ELSE f[s \ {Max(s)}] \o MakeStream(cmds[Max(s)])]
    BY <2>1
  <2> QED
    BY <2>2 DEF FoldsOver
<1>2. ASSUME NEW n \in Nat, n \in N PROVE n + 1 \in N
  <2>1. PICK g : FoldsOver(g, 1..n, cmds)
    BY <1>2
  <2> DEFINE f == [s \in SUBSET (1..n + 1) |->
                     IF n + 1 \in s THEN g[s \ {n + 1}] \o MakeStream(cmds[n + 1]) ELSE g[s]]
  <2>2. \A s \in SUBSET (1..n + 1) : /\ s \ {n + 1} \in SUBSET (1..n)
                                     /\ n + 1 \notin s => s \in SUBSET (1..n)
    OBVIOUS
  <2>3. \A s \in SUBSET (1..n) : s \in SUBSET (1..n + 1) /\ n + 1 \notin s
    OBVIOUS
  <2>4. ASSUME NEW s \in SUBSET (1..n + 1)
        PROVE  f[s] = IF s = {} THEN <<>> ELSE f[s \ {Max(s)}] \o MakeStream(cmds[Max(s)])
    <3>1. CASE n + 1 \in s
      <4>1. Max(s) = n + 1
        BY <3>1, MaxOfRange
      <4>2. f[s \ {n + 1}] = g[s \ {n + 1}]
        BY <2>2, <2>3
      <4>3. f[s] = g[s \ {n + 1}] \o MakeStream(cmds[n + 1])
        BY <3>1
      <4> QED
        BY <3>1, <4>1, <4>2, <4>3
    <3>2. CASE n + 1 \notin s
      <4>1. s \in SUBSET (1..n) /\ s \ {Max(s)} \in SUBSET (1..n)
        BY <2>2, <3>2
      <4>2. f[s] = g[s] /\ f[s \ {Max(s)}] = g[s \ {Max(s)}]
        BY <2>3, <4>1
      <4>3. g[s] = IF s = {} THEN <<>> ELSE g[s \ {Max(s)}] \o MakeStream(cmds[Max(s)])
        BY <2>1, <4>1 DEF FoldsOver
      <4> QED
        BY <4>2, <4>3
    <3> QED
      BY <3>1, <3>2
  <2>5. f = [s \in SUBSET (1..n + 1) |-> f[s]]
    OBVIOUS
  <2> HIDE DEF f
  <2>6. FoldsOver(f, 1..n + 1, cmds)
    BY <2>4, <2>5 DEF FoldsOver
  <2> QED
    BY <2>6
<1> HIDE DEF N
<1>3. \A n \in Nat : n \in N
  BY <1>1, <1>2, Induction
<1> QED
  BY <1>3 DEF N

\* The words of the first so many commands.
Writes(f, cmds) ==
    /\ f[0] = <<>>
    /\ \A i \in 1..Len(cmds) : f[i] = f[i - 1] \o MakeStream(cmds[i])

LEMMA StreamsWrite ==
    ASSUME NEW S, NEW cmds \in Seq(S)
    PROVE  \E f : Writes(f, cmds) /\ MakeStreams(cmds) = f[Len(cmds)]
<1> DEFINE n == Len(cmds)
           g == CHOOSE f : FoldsOver(f, 1..n, cmds)
           f == [i \in 0..n |-> g[1..i]]
<1>1. n \in Nat /\ DOMAIN cmds = 1..n
  OBVIOUS
<1> HIDE DEF n
<1>2. \E h : FoldsOver(h, 1..n, cmds)
  BY <1>1, FoldExists
<1>3. FoldsOver(g, 1..n, cmds)
  BY <1>2
<1>4. MakeStreams(cmds) = g[1..n]
  BY <1>1, StreamsAreFold
<1> HIDE DEF g
<1>5. \A s \in SUBSET (1..n) :
        g[s] = IF s = {} THEN <<>> ELSE g[s \ {Max(s)}] \o MakeStream(cmds[Max(s)])
  BY <1>3 DEF FoldsOver
<1>6. f[0] = <<>>
  <2>1. 1..0 = {} /\ {} \in SUBSET (1..n) /\ 0 \in 0..n
    BY <1>1
  <2>2. f[0] = g[{}]
    BY <2>1
  <2> QED
    BY <1>5, <2>1, <2>2
<1>7. ASSUME NEW i \in 1..n PROVE f[i] = f[i - 1] \o MakeStream(cmds[i])
  <2>1. i - 1 \in Nat /\ i - 1 \in 0..n /\ i \in 0..n /\ (i - 1) + 1 = i
    BY <1>1
  <2>2. 1..i \in SUBSET (1..n) /\ i \in 1..i /\ 1..i # {} /\ (1..i) \ {i} = 1..i - 1
    BY <1>1
  <2>3. Max(1..i) = i
    BY <2>1, <2>2, MaxOfRange
  <2>4. g[1..i] = g[1..i - 1] \o MakeStream(cmds[i])
    BY <1>5, <2>2, <2>3
  <2> QED
    BY <2>1, <2>4
<1>8. f[n] = g[1..n]
  BY <1>1
<1> HIDE DEF f
<1> QED
  BY <1>4, <1>6, <1>7, <1>8 DEF Writes, n

\* What has been written is determined by the commands up to there.
LEMMA WritesSame ==
    ASSUME NEW cmds, NEW more, Len(cmds) \in Nat, Len(more) \in Nat,
           Len(cmds) <= Len(more), \A i \in 1..Len(cmds) : cmds[i] = more[i],
           NEW f, Writes(f, cmds), NEW g, Writes(g, more)
    PROVE  f[Len(cmds)] = g[Len(cmds)]
<1> DEFINE N == {n \in Nat : n <= Len(cmds) => f[n] = g[n]}
<1>1. 0 \in N
  BY DEF Writes
<1>2. ASSUME NEW n \in Nat, n \in N PROVE n + 1 \in N
  <2> SUFFICES ASSUME n + 1 <= Len(cmds) PROVE f[n + 1] = g[n + 1]
    OBVIOUS
  <2>1. n + 1 \in 1..Len(cmds) /\ n + 1 \in 1..Len(more) /\ (n + 1) - 1 = n /\ f[n] = g[n]
    BY <1>2
  <2> QED
    BY <2>1 DEF Writes
<1> HIDE DEF N
<1>3. Len(cmds) \in N
  BY <1>1, <1>2, Induction
<1> QED
  BY <1>3 DEF N

LEMMA StreamsOfNone == MakeStreams(<<>>) = <<>>
<1>1. <<>> \in Seq({}) /\ Len(<<>>) = 0
  OBVIOUS
<1>2. PICK f : Writes(f, <<>>) /\ MakeStreams(<<>>) = f[Len(<<>>)]
  BY <1>1, StreamsWrite
<1> QED
  BY <1>1, <1>2 DEF Writes

LEMMA StreamsAppend ==
    ASSUME NEW S, NEW cmds \in Seq(S), NEW m \in S
    PROVE  MakeStreams(Append(cmds, m)) = MakeStreams(cmds) \o MakeStream(m)
<1> DEFINE more == Append(cmds, m)
<1>1. more \in Seq(S) /\ Len(cmds) \in Nat /\ Len(more) = Len(cmds) + 1 /\ more[Len(cmds) + 1] = m
      /\ \A i \in 1..Len(cmds) : cmds[i] = more[i]
  OBVIOUS
<1> HIDE DEF more
<1>2. PICK f : Writes(f, cmds) /\ MakeStreams(cmds) = f[Len(cmds)]
  BY StreamsWrite
<1>3. PICK g : Writes(g, more) /\ MakeStreams(more) = g[Len(more)]
  BY <1>1, StreamsWrite
<1>4. f[Len(cmds)] = g[Len(cmds)]
  <2>1. Len(more) \in Nat /\ Len(cmds) <= Len(more)
    BY <1>1
  <2> QED
    BY <1>1, <1>2, <1>3, <2>1, WritesSame
<1>5. Len(more) \in 1..Len(more) /\ Len(more) - 1 = Len(cmds)
  BY <1>1
<1>6. g[Len(more)] = g[Len(cmds)] \o MakeStream(m)
  BY <1>1, <1>3, <1>5 DEF Writes
<1>7. MakeStreams(more) = MakeStreams(cmds) \o MakeStream(m)
  BY <1>2, <1>3, <1>4, <1>6
<1> QED
  BY <1>7 DEF more

LEMMA StreamsType ==
    ASSUME NEW cmds \in Seq(Command) PROVE MakeStreams(cmds) \in Seq(Nat)
<1> DEFINE N == {n \in Nat : \A s \in Seq(Command) : Len(s) = n => MakeStreams(s) \in Seq(Nat)}
<1>1. 0 \in N
  <2>1. \A s \in Seq(Command) : Len(s) = 0 => s = <<>>
    OBVIOUS
  <2> QED
    BY <2>1, StreamsOfNone
<1>2. ASSUME NEW n \in Nat, n \in N PROVE n + 1 \in N
  <2> SUFFICES ASSUME NEW s \in Seq(Command), Len(s) = n + 1 PROVE MakeStreams(s) \in Seq(Nat)
    OBVIOUS
  <2>1. s # <<>>
    OBVIOUS
  <2>2. PICK t \in Seq(Command), e \in Command : s = Append(t, e)
    BY <2>1, SequenceEmptyOrAppend
  <2>3. Len(t) = n
    BY <2>2
  <2>4. MakeStreams(t) \in Seq(Nat)
    BY <1>2, <2>3
  <2>5. MakeStreams(s) = MakeStreams(t) \o MakeStream(e)
    BY <2>2, StreamsAppend
  <2> QED
    BY <2>4, <2>5, MakeStreamType, ConcatProperties
<1> HIDE DEF N
<1>3. Len(cmds) \in N
  BY <1>1, <1>2, Induction
<1> QED
  BY <1>3 DEF N

LEMMA StreamsConcat ==
    ASSUME NEW s \in Seq(Command), NEW t \in Seq(Command)
    PROVE  MakeStreams(s \o t) = MakeStreams(s) \o MakeStreams(t)
<1> DEFINE N == {n \in Nat : \A u \in Seq(Command) :
                    Len(u) = n => MakeStreams(s \o u) = MakeStreams(s) \o MakeStreams(u)}
<1>0. MakeStreams(s) \in Seq(Nat)
  BY StreamsType
<1>1. 0 \in N
  <2>1. \A u \in Seq(Command) : Len(u) = 0 => u = <<>>
    OBVIOUS
  <2>2. s \o <<>> = s /\ MakeStreams(s) \o <<>> = MakeStreams(s)
    BY <1>0, ConcatEmptySeq
  <2> QED
    BY <2>1, <2>2, StreamsOfNone
<1>2. ASSUME NEW n \in Nat, n \in N PROVE n + 1 \in N
  <2> SUFFICES ASSUME NEW u \in Seq(Command), Len(u) = n + 1
               PROVE  MakeStreams(s \o u) = MakeStreams(s) \o MakeStreams(u)
    OBVIOUS
  <2>1. u # <<>>
    OBVIOUS
  <2>2. PICK v \in Seq(Command), e \in Command : u = Append(v, e)
    BY <2>1, SequenceEmptyOrAppend
  <2>3. Len(v) = n
    BY <2>2
  <2>4. MakeStreams(s \o v) = MakeStreams(s) \o MakeStreams(v)
    BY <1>2, <2>3
  <2>5. MakeStreams(u) = MakeStreams(v) \o MakeStream(e)
    BY <2>2, StreamsAppend
  <2>6. s \o v \in Seq(Command) /\ s \o u = Append(s \o v, e)
    <3>1. s \o v \in Seq(Command) /\ <<e>> \in Seq(Command)
      BY ConcatProperties
    <3>2. u = v \o <<e>> /\ Append(s \o v, e) = (s \o v) \o <<e>>
      BY <2>2, <3>1, AppendIsConcat
    <3> QED
      BY <3>1, <3>2, ConcatAssociative
  <2>7. MakeStreams(s \o u) = (MakeStreams(s) \o MakeStreams(v)) \o MakeStream(e)
    BY <2>4, <2>6, StreamsAppend
  <2>8. MakeStreams(v) \in Seq(Nat) /\ MakeStream(e) \in Seq(Nat)
    BY StreamsType, MakeStreamType
  <2>9. (MakeStreams(s) \o MakeStreams(v)) \o MakeStream(e) = MakeStreams(s) \o (MakeStreams(v) \o MakeStream(e))
    BY <1>0, <2>8, Regroup
  <2> QED
    BY <2>5, <2>7, <2>9
<1> HIDE DEF N
<1>3. Len(t) \in N
  BY <1>1, <1>2, Induction
<1> QED
  BY <1>3 DEF N

\* The words of the first command come first, its header at the very beginning.
LEMMA StreamsFirst ==
    ASSUME NEW cmds \in Seq(Command), cmds # <<>>
    PROVE  /\ MakeStreams(cmds) = MakeStream(Head(cmds)) \o MakeStreams(Tail(cmds))
           /\ MakeStreams(cmds) = <<Head(cmds).code, Len(Head(cmds).data)>>
                                    \o (Head(cmds).data \o MakeStreams(Tail(cmds)))
<1> DEFINE one == <<Head(cmds)>>
<1>1. Head(cmds) \in Command /\ Tail(cmds) \in Seq(Command) /\ one \in Seq(Command)
  BY HeadTailProperties
<1>2. cmds = one \o Tail(cmds)
  <2>1. 1 \in 1..Len(cmds) /\ Len(cmds) \in 1..Len(cmds)
    OBVIOUS
  <2>2. SubSeq(cmds, 1, Len(cmds)) = <<cmds[1]>> \o SubSeq(cmds, 1 + 1, Len(cmds))
    BY <2>1, SubSeqRecursiveFirst
  <2> QED
    BY <2>2, SubSeqFull, TailIsSubSeq
<1>3. one = Append(<<>>, Head(cmds)) /\ <<>> \in Seq(Command)
  OBVIOUS
<1>4. MakeStreams(one) = MakeStreams(<<>>) \o MakeStream(Head(cmds))
  BY <1>1, <1>3, StreamsAppend
<1>5. MakeStream(Head(cmds)) \in Seq(Nat)
  BY <1>1, MakeStreamType
<1>6. MakeStreams(one) = MakeStream(Head(cmds))
  BY <1>4, <1>5, StreamsOfNone, ConcatEmptySeq
<1>7. MakeStreams(cmds) = MakeStream(Head(cmds)) \o MakeStreams(Tail(cmds))
  <2> HIDE DEF one
  <2> QED
    BY <1>1, <1>2, <1>6, StreamsConcat
<1>8. Head(cmds).code \in Nat /\ Head(cmds).data \in Seq(Nat) /\ MakeStreams(Tail(cmds)) \in Seq(Nat)
  BY <1>1, StreamsType DEF Command
<1>9. ASSUME NEW code \in Nat, NEW data \in Seq(Nat), NEW others \in Seq(Nat)
      PROVE  (<<code, Len(data)>> \o data) \o others = <<code, Len(data)>> \o (data \o others)
  <2>1. <<code, Len(data)>> \in Seq(Nat)
    OBVIOUS
  <2> QED
    BY <2>1, Regroup
<1>10. (<<Head(cmds).code, Len(Head(cmds).data)>> \o Head(cmds).data) \o MakeStreams(Tail(cmds))
         = <<Head(cmds).code, Len(Head(cmds).data)>> \o (Head(cmds).data \o MakeStreams(Tail(cmds)))
  BY <1>8, <1>9
<1> QED
  BY <1>7, <1>10, Zenon DEF MakeStream

-----------------------------------------------------------------------------
(* DecodeBuffer puts content together.                                     *)

LEMMA SplitAtLength ==
    ASSUME NEW s \in Seq(Nat), NEW t \in Seq(Nat), NEW u \in Seq(Nat), NEW v \in Seq(Nat),
           s \o t = u \o v, Len(s) = Len(u)
    PROVE  s = u /\ t = v
<1>1. \A i \in 1..Len(s) : (s \o t)[i] = s[i] /\ (u \o v)[i] = u[i]
  BY ConcatProperties
<1>2. s = u
  BY <1>1, SeqEqual
<1> QED
  BY <1>2, ConcatSimplifications

LEMMA Cut ==
    ASSUME NEW words \in Seq(Nat), NEW n \in 0..Len(words)
    PROVE  /\ SubSeq(words, 1, n) \in Seq(Nat) /\ Len(SubSeq(words, 1, n)) = n
           /\ SubSeq(words, n + 1, Len(words)) \in Seq(Nat)
           /\ Len(SubSeq(words, n + 1, Len(words))) = Len(words) - n
           /\ words = SubSeq(words, 1, n) \o SubSeq(words, n + 1, Len(words))
<1>1. Len(words) \in Nat /\ \A i \in 1..Len(words) : words[i] \in Nat
  OBVIOUS
<1>2. n \in Int /\ n + 1 \in Int /\ Len(words) \in Int /\ 1 \in Int
      /\ (\A i \in 1..n : words[i] \in Nat) /\ (\A i \in n + 1..Len(words) : words[i] \in Nat)
  BY <1>1
<1>3. SubSeq(words, 1, n) \in Seq(Nat) /\ Len(SubSeq(words, 1, n)) = n
  BY <1>2, SubSeqProperties
<1>4. /\ SubSeq(words, n + 1, Len(words)) \in Seq(Nat)
      /\ Len(SubSeq(words, n + 1, Len(words))) = Len(words) - n
  BY <1>2, SubSeqProperties
<1>5. 1 \in 1..Len(words) + 1 /\ n \in 1 - 1..Len(words) /\ Len(words) \in n..Len(words)
  BY <1>1
<1>6. SubSeq(words, 1, n) \o SubSeq(words, n + 1, Len(words)) = SubSeq(words, 1, Len(words))
  BY <1>5, ConcatAdjacentSubSeq
<1> QED
  BY <1>3, <1>4, <1>6, SubSeqFull

\* Concatenation under a name, which keeps the provers from looking into it.
Cat(s, t) == s \o t

LEMMA CatLaws ==
    /\ \A s, t \in Seq(Nat) : Cat(s, t) \in Seq(Nat) /\ Len(Cat(s, t)) = Len(s) + Len(t)
    /\ \A s, t, u \in Seq(Nat) : Cat(Cat(s, t), u) = Cat(s, Cat(t, u))
    /\ \A s \in Seq(Nat) : Cat(s, <<>>) = s /\ Cat(<<>>, s) = s
<1>1. \A s, t \in Seq(Nat) : Cat(s, t) \in Seq(Nat) /\ Len(Cat(s, t)) = Len(s) + Len(t)
  BY Concats DEF Cat
<1>2. \A s, t, u \in Seq(Nat) : Cat(Cat(s, t), u) = Cat(s, Cat(t, u))
  BY Regroup DEF Cat
<1>3. \A s \in Seq(Nat) : Cat(s, <<>>) = s /\ Cat(<<>>, s) = s
  BY ConcatEmptySeq DEF Cat
<1> QED
  BY <1>1, <1>2, <1>3, Zenon

LEMMA CatIs ==
    ASSUME NEW s \in Seq(Nat), NEW t \in Seq(Nat)
    PROVE  Cat(s, t) \in Seq(Nat) /\ Len(Cat(s, t)) = Len(s) + Len(t)
BY CatLaws

LEMMA CatAssoc ==
    ASSUME NEW s \in Seq(Nat), NEW t \in Seq(Nat), NEW u \in Seq(Nat)
    PROVE  Cat(Cat(s, t), u) = Cat(s, Cat(t, u))
BY CatLaws

LEMMA CatAssocTwice ==
    ASSUME NEW s \in Seq(Nat), NEW t \in Seq(Nat), NEW u \in Seq(Nat), NEW v \in Seq(Nat)
    PROVE  Cat(Cat(Cat(s, t), u), v) = Cat(s, Cat(t, Cat(u, v)))
<1>1. Cat(s, t) \in Seq(Nat) /\ Cat(u, v) \in Seq(Nat)
  BY CatIs
<1>2. Cat(Cat(Cat(s, t), u), v) = Cat(Cat(s, t), Cat(u, v))
  BY <1>1, CatAssoc
<1>3. Cat(Cat(s, t), Cat(u, v)) = Cat(s, Cat(t, Cat(u, v)))
  BY <1>1, CatAssoc
<1> QED
  BY <1>2, <1>3

LEMMA CatSplit ==
    ASSUME NEW s \in Seq(Nat), NEW t \in Seq(Nat), NEW u \in Seq(Nat), NEW v \in Seq(Nat),
           Cat(s, t) = Cat(u, v), Len(s) = Len(u)
    PROVE  s = u /\ t = v
BY SplitAtLength DEF Cat

\* content are the words of a command's content and others those that follow it;
\* of these, data is in m_Command, words is in the chunk and later is to come.
CollectLaw(data, words, later, content, others) ==
    Cat(data, Cat(words, later)) = Cat(content, others) /\ Len(data) <= Len(content) =>
        LET got  == ReadStringUTF8(words, Len(content) - Len(data))
            left == SubSeq(words, Len(got) + 1, Len(words))
        IN  /\ got \in Seq(Nat) /\ left \in Seq(Nat)
            /\ Len(data \o got) = Len(content) => data \o got = content /\ Cat(left, later) = others
            /\ Len(data \o got) # Len(content) => got = words

LEMMA Collects ==
    \A data, words, later, content, others \in Seq(Nat) :
        CollectLaw(data, words, later, content, others)
<1> SUFFICES ASSUME NEW data \in Seq(Nat), NEW words \in Seq(Nat), NEW later \in Seq(Nat),
                    NEW content \in Seq(Nat), NEW others \in Seq(Nat)
             PROVE  CollectLaw(data, words, later, content, others)
  OBVIOUS
<1> SUFFICES ASSUME Cat(data, Cat(words, later)) = Cat(content, others), Len(data) <= Len(content)
             PROVE  LET got  == ReadStringUTF8(words, Len(content) - Len(data))
                        left == SubSeq(words, Len(got) + 1, Len(words))
                    IN  /\ got \in Seq(Nat) /\ left \in Seq(Nat)
                        /\ Len(data \o got) = Len(content) =>
                             data \o got = content /\ Cat(left, later) = others
                        /\ Len(data \o got) # Len(content) => got = words
  BY Zenon DEF CollectLaw
<1> DEFINE n == IF Len(content) - Len(data) < Len(words) THEN Len(content) - Len(data) ELSE Len(words)
           got  == SubSeq(words, 1, n)
           left == SubSeq(words, n + 1, Len(words))
<1>1. Len(words) \in Nat /\ Len(content) \in Nat /\ Len(data) \in Nat
  OBVIOUS
<1>2. n \in 0..Len(words) /\ n <= Len(content) - Len(data)
      /\ (n = Len(content) - Len(data) \/ n = Len(words))
  BY <1>1
<1>3. ReadStringUTF8(words, Len(content) - Len(data)) = got
  BY DEF ReadStringUTF8
<1> HIDE DEF n
<1>4. got \in Seq(Nat) /\ Len(got) = n /\ left \in Seq(Nat) /\ words = got \o left
  BY <1>2, Cut, Zenon
<1>5. n = Len(words) => got = words
  BY SubSeqFull, Zenon
<1> HIDE DEF got, left
<1>6. words = Cat(got, left) /\ data \o got = Cat(data, got)
  BY <1>4, Zenon DEF Cat
<1>7. Len(Cat(data, got)) = Len(data) + n
  BY <1>4, CatLaws
<1>8. Cat(Cat(data, got), Cat(left, later)) = Cat(content, others)
  <2>1. Cat(words, later) = Cat(got, Cat(left, later)) /\ Cat(left, later) \in Seq(Nat)
    BY <1>4, <1>6, CatLaws
  <2> QED
    BY <1>4, <2>1, CatLaws
<1>9. ASSUME Len(Cat(data, got)) = Len(content)
      PROVE  Cat(data, got) = content /\ Cat(left, later) = others
  <2>1. Cat(data, got) \in Seq(Nat) /\ Cat(left, later) \in Seq(Nat)
    BY <1>4, CatLaws
  <2> QED
    BY <1>8, <1>9, <2>1, CatSplit
<1>10. ASSUME Len(Cat(data, got)) # Len(content) PROVE got = words
  BY <1>1, <1>2, <1>5, <1>7, <1>10
<1>11. left = SubSeq(words, Len(got) + 1, Len(words))
  BY <1>4, Zenon DEF left
<1> QED
  BY <1>3, <1>4, <1>6, <1>9, <1>10, <1>11, Zenon

LEMMA Reads ==
    ASSUME NEW words \in Seq(Nat), NEW n \in Nat
    PROVE  LET got == ReadStringUTF8(words, n)
           IN  /\ got \in Seq(Nat) /\ Len(got) <= n
               /\ SubSeq(words, Len(got) + 1, Len(words)) \in Seq(Nat)
<1> DEFINE m == IF n < Len(words) THEN n ELSE Len(words)
<1>1. Len(words) \in Nat
  OBVIOUS
<1>2. m \in 0..Len(words) /\ m <= n
  BY <1>1
<1>3. ReadStringUTF8(words, n) = SubSeq(words, 1, m)
  BY DEF ReadStringUTF8
<1> HIDE DEF m
<1>4. /\ SubSeq(words, 1, m) \in Seq(Nat) /\ Len(SubSeq(words, 1, m)) = m
      /\ SubSeq(words, m + 1, Len(words)) \in Seq(Nat)
  BY <1>2, Cut, Zenon
<1> QED
  BY <1>2, <1>3, <1>4

-----------------------------------------------------------------------------
(* Types.                                                                  *)

PartOfCommand == [code : Nat, length : Nat, data : Seq(Nat)]

\* Types in full; a command never has more content than its header says, so that
\* what is still to be read of it is a natural number.
TypeInv ==
    /\ sent \in [Conn -> Seq(CommandData)] /\ stream \in [Conn -> Seq(Nat)]
    /\ received \in [Conn -> Seq(Command)]
    /\ reading \in Conn \cup {None} /\ buf \in Seq(Nat)
    /\ m_Command \in PartOfCommand /\ Len(m_Command.data) <= m_Command.length
    /\ reading = None <=> buf = <<>>

LEMMA TypeInit == Init => TypeInv
<1> SUFFICES ASSUME Init PROVE TypeInv
  OBVIOUS
<1>1. NoCommand \in PartOfCommand /\ NoCommand.data = <<>> /\ NoCommand.length = 0
  BY DEF NoCommand, PartOfCommand, RDCC_INVALID
<1>2. <<>> \in Seq(CommandData) /\ <<>> \in Seq(Nat) /\ <<>> \in Seq(Command) /\ Len(<<>>) = 0
  OBVIOUS
<1>3. sent \in [Conn -> Seq(CommandData)] /\ stream \in [Conn -> Seq(Nat)]
      /\ received \in [Conn -> Seq(Command)]
  BY <1>2 DEF Init
<1> QED
  BY <1>1, <1>2, <1>3 DEF Init, TypeInv

LEMMA CollectType ==
    ASSUME TypeInv, reading \in Conn, NEW cmd \in PartOfCommand, Len(cmd.data) <= cmd.length,
           NEW words \in Seq(Nat), Collect(cmd, words), UNCHANGED <<sent, stream>>
    PROVE  TypeInv'
<1> DEFINE got == ReadStringUTF8(words, cmd.length - Len(cmd.data))
           left == SubSeq(words, Len(got) + 1, Len(words))
           whole == [cmd EXCEPT !.data = cmd.data \o got]
<1>1. cmd.code \in Nat /\ cmd.length \in Nat /\ cmd.data \in Seq(Nat) /\ Len(cmd.data) \in Nat
  BY DEF PartOfCommand
<1>2. cmd.length - Len(cmd.data) \in Nat
  BY <1>1
<1>3. got \in Seq(Nat) /\ Len(got) <= cmd.length - Len(cmd.data) /\ left \in Seq(Nat)
  BY <1>2, Reads, Zenon
<1>4. IF Len(whole.data) = cmd.length THEN HandOver(whole, left) ELSE GiveUp(whole)
  BY DEF Collect
<1> HIDE DEF got, left
<1>5. cmd.data \o got \in Seq(Nat) /\ Len(cmd.data \o got) = Len(cmd.data) + Len(got)
  BY <1>1, <1>3, Concats
<1>6. /\ whole \in PartOfCommand /\ whole.code = cmd.code /\ whole.length = cmd.length
      /\ whole.data = cmd.data \o got /\ Len(whole.data) <= whole.length
  <2>1. Len(cmd.data \o got) <= cmd.length
    BY <1>1, <1>3, <1>5
  <2> HIDE <1>3
  <2> QED
    BY <1>5, <2>1 DEF PartOfCommand
<1> HIDE DEF whole
<1>7. sent' \in [Conn -> Seq(CommandData)] /\ stream' \in [Conn -> Seq(Nat)]
  BY DEF TypeInv
<1>8. None \notin Conn /\ <<>> \in Seq(Nat)
  BY CommandStreamAssumption
<1>9. CASE HandOver(whole, left)
  <2> DEFINE new == [code |-> whole.code, data |-> whole.data]
  <2>1. new \in Command
    BY <1>6 DEF PartOfCommand, Command
  <2> HIDE DEF new
  <2>2. received' = [received EXCEPT ![reading] = Append(received[reading], new)]
    BY <1>9 DEF HandOver, new
  <2>3. received' \in [Conn -> Seq(Command)]
    BY <2>1, <2>2 DEF TypeInv
  <2>4. NoCommand \in PartOfCommand /\ Len(NoCommand.data) <= NoCommand.length
    BY DEF NoCommand, PartOfCommand, RDCC_INVALID
  <2>5. m_Command' = NoCommand /\ buf' = left /\ reading' = IF left = <<>> THEN None ELSE reading
    BY <1>9 DEF HandOver
  <2>6. reading' \in Conn \cup {None} /\ (reading' = None <=> buf' = <<>>)
    BY <1>8, <2>5
  <2> QED
    BY <1>3, <1>7, <2>3, <2>4, <2>5, <2>6 DEF TypeInv
<1>10. CASE GiveUp(whole)
  <2>1. m_Command' = whole /\ buf' = <<>> /\ reading' = None /\ received' = received
    BY <1>10 DEF GiveUp
  <2>2. received' \in [Conn -> Seq(Command)]
    BY <2>1 DEF TypeInv
  <2> QED
    BY <1>6, <1>7, <1>8, <2>1, <2>2 DEF TypeInv
<1> QED
  BY <1>4, <1>9, <1>10

\* The header at the beginning of a chunk.
LEMMA HeaderType ==
    ASSUME TypeInv, Len(buf) >= 2
    PROVE  /\ [code |-> buf[1], length |-> buf[2], data |-> <<>>] \in PartOfCommand
           /\ SubSeq(buf, 3, Len(buf)) \in Seq(Nat)
           /\ buf = <<buf[1], buf[2]>> \o SubSeq(buf, 3, Len(buf))
<1>1. buf \in Seq(Nat) /\ Len(buf) \in Nat /\ 2 \in 0..Len(buf)
  BY DEF TypeInv
<1>2. buf[1] \in Nat /\ buf[2] \in Nat
  BY <1>1
<1>3. SubSeq(buf, 3, Len(buf)) \in Seq(Nat) /\ buf = SubSeq(buf, 1, 2) \o SubSeq(buf, 3, Len(buf))
  <2>1. SubSeq(buf, 2 + 1, Len(buf)) \in Seq(Nat) /\ buf = SubSeq(buf, 1, 2) \o SubSeq(buf, 2 + 1, Len(buf))
    BY <1>1, Cut, Zenon
  <2> QED
    BY <2>1
<1>4. SubSeq(buf, 1, 2) = <<buf[1], buf[2]>>
  <2>1. SubSeq(buf, 1, 2) \in Seq(Nat) /\ Len(SubSeq(buf, 1, 2)) = 2
    BY <1>1, Cut, Zenon
  <2>2. SubSeq(buf, 1, 2)[1] = buf[1] /\ SubSeq(buf, 1, 2)[2] = buf[2]
    BY <1>1
  <2>3. <<buf[1], buf[2]>> \in Seq(Nat)
    BY <1>2
  <2> QED
    <3> DEFINE s == SubSeq(buf, 1, 2)
               t == <<buf[1], buf[2]>>
    <3>1. \A i \in 1..2 : s[i] = t[i]
      BY <2>2
    <3>2. s \in Seq(Nat) /\ t \in Seq(Nat) /\ Len(s) = 2 /\ Len(t) = 2
      BY <2>1, <2>3
    <3> HIDE DEF s, t
    <3>3. s = t
      BY <3>1, <3>2, SeqEqual
    <3> QED
      BY <3>3 DEF s, t
<1> QED
  BY <1>2, <1>3, <1>4 DEF PartOfCommand

LEMMA TypeNext == TypeInv /\ [Next]_vars => TypeInv'
<1> SUFFICES ASSUME TypeInv, [Next]_vars PROVE TypeInv'
  OBVIOUS
<1>1. ASSUME NEW c \in Conn, Send(c) PROVE TypeInv'
  <2>1. PICK cmd \in CommandData : /\ sent' = [sent EXCEPT ![c] = Append(@, cmd)]
                                   /\ stream' = [stream EXCEPT ![c] = @ \o MakeStream(cmd)]
    BY <1>1 DEF Send
  <2>2. UNCHANGED <<reading, buf, m_Command, received>>
    BY <1>1 DEF Send
  <2>3. cmd \in Command
    BY SentIsCommand
  <2>4. MakeStream(cmd) \in Seq(Nat) /\ stream[c] \in Seq(Nat)
    BY <2>3, MakeStreamType DEF TypeInv
  <2>5. stream[c] \o MakeStream(cmd) \in Seq(Nat)
    BY <2>4, Concats
  <2>6. stream' \in [Conn -> Seq(Nat)]
    BY <2>1, <2>5 DEF TypeInv
  <2>7. sent' \in [Conn -> Seq(CommandData)]
    BY <2>1 DEF TypeInv
  <2> QED
    BY <2>2, <2>6, <2>7 DEF TypeInv
<1>2. ASSUME NEW c \in Conn, conn_readcb(c) PROVE TypeInv'
  <2>1. PICK n \in 1..Len(stream[c]) : /\ buf' = SubSeq(stream[c], 1, n)
                                       /\ stream' = [stream EXCEPT ![c] = SubSeq(@, n + 1, Len(@))]
    BY <1>2 DEF conn_readcb
  <2>2. stream[c] \in Seq(Nat) /\ n \in 0..Len(stream[c]) /\ n # 0
    BY DEF TypeInv
  <2>3. /\ SubSeq(stream[c], 1, n) \in Seq(Nat) /\ Len(SubSeq(stream[c], 1, n)) = n
        /\ SubSeq(stream[c], n + 1, Len(stream[c])) \in Seq(Nat)
    BY <2>2, Cut, Zenon
  <2>4. buf' \in Seq(Nat) /\ buf' # <<>>
    BY <2>1, <2>2, <2>3
  <2>5. stream' \in [Conn -> Seq(Nat)]
    BY <2>1, <2>3 DEF TypeInv
  <2>6. reading' = c /\ UNCHANGED <<sent, m_Command, received>> /\ None \notin Conn
    BY <1>2, CommandStreamAssumption DEF conn_readcb
  <2> QED
    BY <2>4, <2>5, <2>6 DEF TypeInv
<1>3. CASE DecodeHeader
  <2>1. reading \in Conn /\ UNCHANGED <<sent, stream>>
    BY <1>3 DEF DecodeHeader, TypeInv
  <2>2. CASE Len(buf) < 2 \/ buf[1] = RDCC_INVALID \/ buf[2] > CMD_ITEM_SIZE_MAX
    <3>1. m_Command' = m_Command /\ buf' = <<>> /\ reading' = None /\ received' = received
      BY <1>3, <2>2 DEF DecodeHeader, GiveUp
    <3> QED
      BY <2>1, <3>1 DEF TypeInv
  <2>3. CASE ~(Len(buf) < 2 \/ buf[1] = RDCC_INVALID \/ buf[2] > CMD_ITEM_SIZE_MAX)
    <3> DEFINE cmd == [code |-> buf[1], length |-> buf[2], data |-> <<>>]
               words == SubSeq(buf, 3, Len(buf))
    <3>1. Collect(cmd, words)
      BY <1>3, <2>3 DEF DecodeHeader
    <3>2. Len(buf) >= 2
      BY <2>3 DEF TypeInv
    <3>3. cmd \in PartOfCommand /\ words \in Seq(Nat)
      BY <3>2, HeaderType
    <3>4. Len(cmd.data) <= cmd.length
      BY <3>3 DEF PartOfCommand
    <3> HIDE DEF cmd, words
    <3> QED
      BY <2>1, <3>1, <3>3, <3>4, CollectType
  <2> QED
    BY <2>2, <2>3
<1>4. CASE DecodeContent
  <2>1. /\ reading \in Conn /\ UNCHANGED <<sent, stream>> /\ Collect(m_Command, buf)
        /\ m_Command \in PartOfCommand /\ Len(m_Command.data) <= m_Command.length /\ buf \in Seq(Nat)
    BY <1>4 DEF DecodeContent, TypeInv
  <2> QED
    BY <2>1, CollectType
<1>5. CASE UNCHANGED vars
  BY <1>5 DEF vars, TypeInv
<1> QED
  BY <1>1, <1>2, <1>3, <1>4, <1>5 DEF Next

LEMMA TypeInvariant == Spec => []TypeInv
<1>1. TypeInv /\ [Next]_vars => TypeInv'
  BY TypeNext
<1> QED
  BY <1>1, TypeInit, PTL DEF Spec

\* Every variable keeps its type and conn_readcb returns only with an empty chunk,
\* for any number of connections and any cuts: DecodeBuffer never asks for less
\* than nothing of a command's content.
THEOREM StreamTypeCorrect == Spec => []TypeOK
<1>1. TypeInv => TypeOK
  BY DEF TypeInv, TypeOK, PartOfCommand
<1> QED
  BY <1>1, TypeInvariant, PTL

-----------------------------------------------------------------------------
(* What is sent arrives, for a receiver with one connection and chunks that *)
(* do not end in a header.                                                 *)

\* The receiver has one connection, no chunk ends within a header, and no command is
\* longer than the receiver takes.
WholeHeaders ==
    /\ \A c, d \in Conn : c = d
    /\ ~SplitHeaders
    /\ MaxContent <= CMD_ITEM_SIZE_MAX

\* The words that are not handed over are the words of the commands that are not
\* handed over.
Linked(c) ==
    /\ received[c] \in Seq(CommandData)
    /\ \E rest \in Seq(CommandData) :
        /\ sent[c] = received[c] \o rest
        /\ Cat(Begun, Cat(buf, stream[c])) = MakeStreams(rest)

StreamInv == TypeInv /\ \A c \in Conn : Linked(c) /\ ~EndsInHeader(c, 0)

LEMMA BegunType == TypeInv => Begun \in Seq(Nat)
<1> SUFFICES ASSUME TypeInv PROVE Begun \in Seq(Nat)
  OBVIOUS
<1>1. m_Command.code \in Nat /\ m_Command.length \in Nat /\ m_Command.data \in Seq(Nat)
  BY DEF TypeInv, PartOfCommand
<1>2. <<m_Command.code, m_Command.length>> \in Seq(Nat) /\ <<>> \in Seq(Nat)
  BY <1>1
<1> QED
  BY <1>1, <1>2, Concats DEF Begun

LEMMA SeqOfCommands ==
    ASSUME NEW s \in Seq(CommandData) PROVE s \in Seq(Command)
BY SentIsCommand, SeqMonotonic

LEMMA LinkInit == Init => \A c \in Conn : Linked(c) /\ ~EndsInHeader(c, 0)
<1> SUFFICES ASSUME Init, NEW c \in Conn PROVE Linked(c) /\ ~EndsInHeader(c, 0)
  OBVIOUS
<1>1. /\ sent[c] = <<>> /\ stream[c] = <<>> /\ received[c] = <<>> /\ buf = <<>> /\ Begun = <<>>
  BY DEF Init, Begun, NoCommand
<1>2. <<>> \in Seq(CommandData) /\ <<>> \in Seq(Nat) /\ Len(<<>>) = 0
  OBVIOUS
<1>3. ~EndsInHeader(c, 0)
  BY <1>1, <1>2 DEF EndsInHeader
<1>4. Cat(<<>>, Cat(<<>>, <<>>)) = MakeStreams(<<>>)
  BY <1>2, CatLaws, StreamsOfNone
<1>5. <<>> = <<>> \o <<>>
  BY <1>2, ConcatEmptySeq
<1> QED
  BY <1>1, <1>2, <1>3, <1>4, <1>5, Zenon DEF Linked

LEMMA AppendSuffix ==
    ASSUME NEW s \in Seq(CommandData), NEW e \in CommandData, NEW i \in 1..Len(s)
    PROVE  SubSeq(Append(s, e), i, Len(Append(s, e))) = Append(SubSeq(s, i, Len(s)), e)
<1> DEFINE t == Append(s, e)
           u == SubSeq(s, i, Len(s))
           v == SubSeq(t, i, Len(t))
           w == Append(u, e)
<1>1. Len(s) \in Nat /\ t \in Seq(CommandData) /\ Len(t) = Len(s) + 1 /\ t[Len(s) + 1] = e
      /\ \A j \in 1..Len(s) : t[j] = s[j]
  BY AppendProperties
<1> HIDE DEF t
<1>2. i \in Int /\ Len(s) \in Int /\ Len(t) \in Int /\ (\A j \in i..Len(s) : s[j] \in CommandData)
      /\ \A j \in i..Len(t) : t[j] \in CommandData
  BY <1>1
<1>3. u \in Seq(CommandData) /\ Len(u) = Len(s) - i + 1 /\ \A j \in 1..Len(s) - i + 1 : u[j] = s[i + j - 1]
  BY <1>1, <1>2, SubSeqProperties
<1>4. v \in Seq(CommandData) /\ Len(v) = Len(t) - i + 1 /\ \A j \in 1..Len(t) - i + 1 : v[j] = t[i + j - 1]
  BY <1>1, <1>2, SubSeqProperties
<1> HIDE DEF u, v
<1>5. w \in Seq(CommandData) /\ Len(w) = Len(u) + 1 /\ w[Len(u) + 1] = e /\ \A j \in 1..Len(u) : w[j] = u[j]
  BY <1>3, AppendProperties
<1> HIDE DEF w
<1>6. Len(v) = Len(w)
  BY <1>1, <1>3, <1>4, <1>5
<1>7. ASSUME NEW j \in 1..Len(v) PROVE v[j] = w[j]
  <2>1. j \in 1..Len(u) \/ j = Len(u) + 1
    <3>1. Len(u) \in Nat
      BY <1>3
    <3>2. j \in 1..Len(u) + 1
      BY <1>5, <1>6
    <3> QED
      BY <3>1, <3>2
  <2>2. CASE j \in 1..Len(u)
    <3>1. i + j - 1 \in 1..Len(s) /\ j \in 1..Len(s) - i + 1 /\ j \in 1..Len(t) - i + 1
      BY <1>1, <1>3, <2>2
    <3> QED
      BY <1>1, <1>3, <1>4, <1>5, <2>2, <3>1
  <2>3. CASE j = Len(u) + 1
    <3>1. i + j - 1 = Len(s) + 1 /\ j \in 1..Len(t) - i + 1
      BY <1>1, <1>3, <2>3
    <3> QED
      BY <1>1, <1>4, <1>5, <2>3, <3>1
  <2> QED
    BY <2>1, <2>2, <2>3
<1>8. v = w
  BY <1>4, <1>5, <1>6, <1>7, SeqEqual
<1> QED
  BY <1>8 DEF t, u, v, w

LEMMA AppendLast ==
    ASSUME NEW s \in Seq(CommandData), NEW e \in CommandData
    PROVE  SubSeq(Append(s, e), Len(s) + 1, Len(Append(s, e))) = Append(<<>>, e)
<1> DEFINE t == Append(s, e)
           u == SubSeq(t, Len(t), Len(t))
<1>1. t \in Seq(CommandData) /\ Len(s) \in Nat /\ Len(t) = Len(s) + 1 /\ t[Len(t)] = e
  BY AppendProperties
<1> HIDE DEF t
<1>2. Len(t) \in 1..Len(t) /\ Len(t) \in Len(t)..Len(t)
  BY <1>1
<1>3. u = <<t[Len(t)]>> \o SubSeq(t, Len(t) + 1, Len(t))
  BY <1>1, <1>2, SubSeqRecursiveFirst
<1>4. SubSeq(t, Len(t) + 1, Len(t)) = <<>>
  BY <1>1, SubSeqEmpty
<1>5. u = <<e>>
  <2>1. <<e>> \in Seq(CommandData)
    OBVIOUS
  <2>2. <<e>> \o <<>> = <<e>>
    BY <2>1, ConcatEmptySeq
  <2> QED
    BY <1>1, <1>3, <1>4, <2>2, Zenon
<1> QED
  BY <1>1, <1>5 DEF t

LEMMA AppendRest ==
    ASSUME NEW s \in Seq(CommandData), NEW t \in Seq(CommandData), NEW e \in CommandData
    PROVE  Append(s \o t, e) = s \o Append(t, e)
<1>1. s \o t \in Seq(CommandData) /\ <<e>> \in Seq(CommandData)
  BY ConcatProperties
<1>2. Append(s \o t, e) = (s \o t) \o <<e>> /\ Append(t, e) = t \o <<e>>
  BY <1>1, AppendIsConcat
<1>3. (s \o t) \o <<e>> = s \o (t \o <<e>>)
  BY <1>1, ConcatAssociative
<1> QED
  BY <1>2, <1>3, Zenon

LEMMA LinkSend ==
    ASSUME StreamInv, NEW c \in Conn, Send(c) PROVE Linked(c)' /\ ~EndsInHeader(c, 0)'
<1>1. PICK cmd \in CommandData : /\ sent' = [sent EXCEPT ![c] = Append(@, cmd)]
                                 /\ stream' = [stream EXCEPT ![c] = @ \o MakeStream(cmd)]
  BY DEF Send
<1>2. UNCHANGED <<reading, buf, m_Command, received>>
  BY DEF Send
<1>3. sent[c] \in Seq(CommandData) /\ stream[c] \in Seq(Nat) /\ buf \in Seq(Nat) /\ Begun \in Seq(Nat)
  BY BegunType DEF StreamInv, TypeInv
<1>4. sent'[c] = Append(sent[c], cmd) /\ stream'[c] = Cat(stream[c], MakeStream(cmd)) /\ Begun' = Begun
  BY <1>1, <1>2 DEF StreamInv, TypeInv, Begun, Cat
<1>5. cmd \in Command /\ MakeStream(cmd) \in Seq(Nat) /\ Len(MakeStream(cmd)) \in Nat
  BY SentIsCommand, MakeStreamType
<1>6. Linked(c)'
  <2>1. PICK rest \in Seq(CommandData) : /\ sent[c] = received[c] \o rest
                                         /\ Cat(Begun, Cat(buf, stream[c])) = MakeStreams(rest)
    BY DEF StreamInv, Linked
  <2>2. received[c] \in Seq(CommandData)
    BY DEF StreamInv, Linked
  <2> DEFINE more == Append(rest, cmd)
  <2>3. more \in Seq(CommandData)
    OBVIOUS
  <2>4. sent'[c] = received[c] \o more
    <3>1. Append(received[c] \o rest, cmd) = received[c] \o Append(rest, cmd)
      BY <2>2, AppendRest, Zenon
    <3> QED
      BY <1>4, <2>1, <3>1, Zenon
  <2>5. MakeStreams(more) = Cat(MakeStreams(rest), MakeStream(cmd))
    BY StreamsAppend DEF Cat
  <2> HIDE DEF more
  <2>6. Cat(Begun, Cat(buf, Cat(stream[c], MakeStream(cmd)))) = MakeStreams(more)
    <3>1. Cat(buf, stream[c]) \in Seq(Nat)
      BY <1>3, CatLaws
    <3>2. Cat(buf, Cat(stream[c], MakeStream(cmd))) = Cat(Cat(buf, stream[c]), MakeStream(cmd))
      BY <1>3, <1>5, CatLaws
    <3>3. Cat(Begun, Cat(Cat(buf, stream[c]), MakeStream(cmd)))
            = Cat(Cat(Begun, Cat(buf, stream[c])), MakeStream(cmd))
      BY <1>3, <1>5, <3>1, CatLaws
    <3> QED
      BY <2>1, <2>5, <3>2, <3>3, Zenon
  <2> QED
    BY <1>2, <1>4, <2>2, <2>3, <2>4, <2>6 DEF Linked
<1>7. ASSUME NEW i \in 1..Len(sent'[c]),
             Len(stream'[c]) - 0 = Len(MakeStreams(SubSeq(sent'[c], i, Len(sent'[c])))) - 1
      PROVE  FALSE
  <2>1. Len(stream'[c]) = Len(stream[c]) + Len(MakeStream(cmd)) /\ Len(stream[c]) \in Nat
    <3>1. Len(stream[c]) \in Nat /\ stream'[c] = Cat(stream[c], MakeStream(cmd))
      BY <1>3, <1>4
    <3>2. Len(Cat(stream[c], MakeStream(cmd))) = Len(stream[c]) + Len(MakeStream(cmd))
      BY <1>3, <1>5, CatLaws, Zenon
    <3> QED
      BY <3>1, <3>2, Zenon
  <2>2. Len(sent[c]) \in Nat /\ (i \in 1..Len(sent[c]) \/ i = Len(sent[c]) + 1)
        /\ Len(sent'[c]) = Len(sent[c]) + 1
    BY <1>3, <1>4
  <2>3. CASE i \in 1..Len(sent[c])
    <3> DEFINE u == SubSeq(sent[c], i, Len(sent[c]))
    <3>1. SubSeq(sent'[c], i, Len(sent'[c])) = Append(u, cmd)
      BY <1>3, <1>4, <2>3, AppendSuffix
    <3>2. u \in Seq(CommandData)
      BY <1>3, <2>3
    <3> HIDE DEF u
    <3>3. MakeStreams(Append(u, cmd)) = Cat(MakeStreams(u), MakeStream(cmd)) /\ MakeStreams(u) \in Seq(Nat)
      BY <3>2, StreamsAppend, SeqOfCommands, StreamsType DEF Cat
    <3>4. Len(MakeStreams(Append(u, cmd))) = Len(MakeStreams(u)) + Len(MakeStream(cmd))
          /\ Len(MakeStreams(u)) \in Nat
      BY <1>5, <3>3, CatLaws
    <3>5. Len(stream[c]) - 0 = Len(MakeStreams(u)) - 1
      BY <1>5, <1>7, <2>1, <3>1, <3>4
    <3> QED
      BY <2>3, <3>5 DEF u, StreamInv, EndsInHeader
  <2>4. CASE i = Len(sent[c]) + 1
    <3>1. SubSeq(sent'[c], i, Len(sent'[c])) = Append(<<>>, cmd)
      BY <1>3, <1>4, <2>4, AppendLast, Zenon
    <3>2. MakeStreams(Append(<<>>, cmd)) = Cat(<<>>, MakeStream(cmd))
      <4>1. <<>> \in Seq(CommandData)
        OBVIOUS
      <4> QED
        BY <4>1, StreamsAppend, StreamsOfNone DEF Cat
    <3>3. Len(MakeStreams(Append(<<>>, cmd))) = Len(MakeStream(cmd))
      BY <1>5, <3>2, CatLaws
    <3> QED
      BY <1>5, <1>7, <2>1, <3>1, <3>3
  <2> QED
    BY <2>2, <2>3, <2>4
<1>8. ~EndsInHeader(c, 0)'
  BY <1>7 DEF EndsInHeader
<1> QED
  BY <1>6, <1>8

LEMMA LinkRead ==
    ASSUME WholeHeaders, StreamInv, NEW c \in Conn, conn_readcb(c)
    PROVE  Linked(c)' /\ ~EndsInHeader(c, 0)'
<1>1. PICK n \in 1..Len(stream[c]) : /\ ~EndsInHeader(c, n)
                                     /\ buf' = SubSeq(stream[c], 1, n)
                                     /\ stream' = [stream EXCEPT ![c] = SubSeq(@, n + 1, Len(@))]
  BY DEF conn_readcb, WholeHeaders
<1>2. buf = <<>> /\ UNCHANGED <<sent, m_Command, received>> /\ Begun' = Begun
  BY DEF conn_readcb, StreamInv, TypeInv, Begun
<1>3. stream[c] \in Seq(Nat) /\ n \in 0..Len(stream[c])
      /\ stream'[c] = SubSeq(stream[c], n + 1, Len(stream[c]))
  BY <1>1 DEF StreamInv, TypeInv
<1>4. stream[c] = Cat(buf', stream'[c]) /\ Len(stream'[c]) = Len(stream[c]) - n
  BY <1>1, <1>3, Cut DEF Cat
<1>5. Cat(buf, stream[c]) = stream[c]
  BY <1>2, <1>3, CatLaws
<1>6. Linked(c)'
  <2>1. received'[c] \in Seq(CommandData)
    BY <1>2 DEF StreamInv, Linked
  <2>2. PICK rest \in Seq(CommandData) : /\ sent[c] = received[c] \o rest
                                         /\ Cat(Begun, Cat(buf, stream[c])) = MakeStreams(rest)
    BY DEF StreamInv, Linked
  <2>3. sent'[c] = received'[c] \o rest /\ Cat(Begun', Cat(buf', stream'[c])) = MakeStreams(rest)
    BY <1>2, <1>4, <1>5, <2>2
  <2> QED
    BY <2>1, <2>3 DEF Linked
<1>7. ~EndsInHeader(c, 0)'
  <2>1. Len(stream'[c]) - 0 = Len(stream[c]) - n
    BY <1>3, <1>4
  <2> QED
    BY <1>1, <1>2, <2>1 DEF EndsInHeader
<1> QED
  BY <1>6, <1>7

LEMMA HeadMoves ==
    ASSUME NEW s \in Seq(CommandData), NEW t \in Seq(CommandData), t # <<>>
    PROVE  s \o t = Append(s, Head(t)) \o Tail(t)
<1>1. Head(t) \in CommandData /\ Tail(t) \in Seq(CommandData) /\ <<Head(t)>> \in Seq(CommandData)
  OBVIOUS
<1>2. t = <<Head(t)>> \o Tail(t)
  <2>1. 1 \in 1..Len(t) /\ Len(t) \in 1..Len(t) /\ Head(t) = t[1]
    OBVIOUS
  <2>2. SubSeq(t, 1, Len(t)) = <<t[1]>> \o SubSeq(t, 1 + 1, Len(t))
    BY <2>1, SubSeqRecursiveFirst
  <2> QED
    BY <2>1, <2>2, SubSeqFull, TailIsSubSeq
<1>3. Append(s, Head(t)) = s \o <<Head(t)>>
  BY <1>1, AppendIsConcat
<1> DEFINE h == <<Head(t)>>
           r == Tail(t)
<1>4. h \in Seq(CommandData) /\ r \in Seq(CommandData)
  BY <1>1
<1> HIDE DEF h, r
<1>5. (s \o h) \o r = s \o (h \o r)
  BY <1>4, ConcatAssociative
<1> QED
  BY <1>2, <1>3, <1>5, Zenon DEF h, r

LEMMA SuffixOfConcat ==
    ASSUME NEW s \in Seq(CommandData), NEW t \in Seq(CommandData), t # <<>>
    PROVE  /\ Len(s) + 1 \in 1..Len(s \o t)
           /\ t = SubSeq(s \o t, Len(s) + 1, Len(s \o t))
<1>1. Len(s) \in Nat /\ Len(t) \in Nat \ {0}
  BY EmptySeq
<1>2. Len(s \o t) = Len(s) + Len(t)
  BY ConcatProperties
<1>3. Len(s) + 1 \in Len(s) + 1..Len(s) + Len(t) /\ Len(s) + Len(t) \in Len(s) + 1..Len(s) + Len(t)
  BY <1>1
<1>4. SubSeq(s \o t, Len(s) + 1, Len(s) + Len(t)) = SubSeq(t, (Len(s) + 1) - Len(s), (Len(s) + Len(t)) - Len(s))
  BY <1>3, SubSeqOfConcat2
<1>5. (Len(s) + 1) - Len(s) = 1 /\ (Len(s) + Len(t)) - Len(s) = Len(t)
  BY <1>1
<1>6. SubSeq(s \o t, Len(s) + 1, Len(s) + Len(t)) = t
  BY <1>4, <1>5, SubSeqFull
<1> QED
  BY <1>1, <1>2, <1>6

\* A command is collected that is the first of those not handed over.
LEMMA LinkCollect ==
    ASSUME StreamInv, NEW c \in Conn, reading = c, UNCHANGED <<sent, stream>>,
           NEW rest \in Seq(CommandData), sent[c] = received[c] \o rest, rest # <<>>,
           NEW cmd \in PartOfCommand, NEW words \in Seq(Nat), Collect(cmd, words),
           cmd.code = Head(rest).code, cmd.length = Len(Head(rest).data),
           Len(cmd.data) <= cmd.length,
           Cat(cmd.data, Cat(words, stream[c])) = Cat(Head(rest).data, MakeStreams(Tail(rest)))
    PROVE  Linked(c)'
<1> DEFINE got == ReadStringUTF8(words, cmd.length - Len(cmd.data))
           left == SubSeq(words, Len(got) + 1, Len(words))
           whole == [cmd EXCEPT !.data = cmd.data \o got]
           first == Head(rest)
           others == MakeStreams(Tail(rest))
<1>1. IF Len(whole.data) = cmd.length THEN HandOver(whole, left) ELSE GiveUp(whole)
  BY DEF Collect
<1>2. first \in CommandData /\ first \in Command /\ Tail(rest) \in Seq(CommandData)
  BY SentIsCommand
<1>3. first.data \in Seq(Nat) /\ others \in Seq(Nat) /\ stream[c] \in Seq(Nat) /\ cmd.data \in Seq(Nat)
  BY <1>2, SeqOfCommands, StreamsType DEF Command, StreamInv, TypeInv, PartOfCommand
<1>4. /\ got \in Seq(Nat) /\ left \in Seq(Nat)
      /\ Len(cmd.data \o got) = cmd.length =>
           cmd.data \o got = first.data /\ Cat(left, stream[c]) = others
      /\ Len(cmd.data \o got) # cmd.length => got = words
  <2>1. cmd.length = Len(first.data)
    OBVIOUS
  <2> HIDE DEF first, others
  <2>2. Len(cmd.data) <= Len(first.data)
    BY <2>1
  <2>3. Cat(cmd.data, Cat(words, stream[c])) = Cat(first.data, others)
    BY DEF first, others
  <2> HIDE DEF got
  <2>4. got = ReadStringUTF8(words, Len(first.data) - Len(cmd.data))
    BY <2>1 DEF got
  <2> HIDE DEF left
  <2>5. left = SubSeq(words, Len(got) + 1, Len(words))
    BY DEF left
  <2>6. CollectLaw(cmd.data, words, stream[c], first.data, others)
    BY <1>3, Collects
  <2> QED
    BY <2>1, <2>2, <2>3, <2>4, <2>5, <2>6, Zenon DEF CollectLaw
<1>5. /\ whole.data = cmd.data \o got /\ whole.code = cmd.code /\ whole.length = cmd.length
  BY DEF PartOfCommand
<1> HIDE DEF got, left, whole, first, others
<1>6. CASE HandOver(whole, left) /\ Len(whole.data) = cmd.length
  <2> DEFINE new == [code |-> whole.code, data |-> whole.data]
  <2>1. whole.data = first.data /\ whole.code = first.code /\ Cat(left, stream[c]) = others
    BY <1>4, <1>5, <1>6 DEF first
  <2>2. new = first
    BY <1>2, <2>1 DEF CommandData
  <2> HIDE DEF new
  <2>3. received' = [received EXCEPT ![c] = Append(received[c], new)]
        /\ m_Command' = NoCommand /\ buf' = left
    BY <1>6 DEF HandOver, new
  <2>4. received[c] \in Seq(CommandData) /\ received'[c] = Append(received[c], first)
    BY <2>2, <2>3 DEF StreamInv, TypeInv, Linked
  <2>5. received'[c] \in Seq(CommandData)
    BY <1>2, <2>4
  <2>6. sent'[c] = received'[c] \o Tail(rest)
    BY <1>2, <2>4, HeadMoves DEF first
  <2>7. Begun' = <<>>
    BY <2>3 DEF Begun, NoCommand
  <2>8. Cat(Begun', Cat(buf', stream'[c])) = MakeStreams(Tail(rest))
    BY <1>3, <2>1, <2>3, <2>7, CatLaws DEF others
  <2> QED
    BY <1>2, <2>5, <2>6, <2>8 DEF Linked
<1>7. CASE GiveUp(whole) /\ Len(whole.data) # cmd.length
  <2>1. m_Command' = whole /\ buf' = <<>> /\ received' = received /\ sent' = sent /\ stream' = stream
    BY <1>7 DEF GiveUp
  <2>2. whole.data = Cat(cmd.data, words)
    BY <1>4, <1>5, <1>7 DEF Cat
  <2>3. first.code # 0 /\ first.code \in Nat
    BY <1>2, SentIsShort DEF Command
  <2>4. Begun' = Cat(<<first.code, Len(first.data)>>, Cat(cmd.data, words))
    BY <1>5, <2>1, <2>2, <2>3 DEF Begun, RDCC_INVALID, Cat, first
  <2>5. Cat(buf', stream'[c]) = stream[c]
    BY <1>3, <2>1, CatLaws
  <2>6. <<first.code, Len(first.data)>> \in Seq(Nat)
    BY <1>3, <2>3
  <2>7. Cat(Begun', stream[c]) = Cat(<<first.code, Len(first.data)>>, Cat(cmd.data, Cat(words, stream[c])))
    <3> DEFINE h == <<first.code, Len(first.data)>>
    <3>1. h \in Seq(Nat)
      BY <2>6
    <3> HIDE DEF h
    <3>2. Cat(cmd.data, words) \in Seq(Nat)
      BY <1>3, CatLaws
    <3>3. Cat(Cat(h, Cat(cmd.data, words)), stream[c]) = Cat(h, Cat(Cat(cmd.data, words), stream[c]))
      BY <1>3, <3>1, <3>2, CatAssoc, Zenon
    <3>4. Cat(Cat(cmd.data, words), stream[c]) = Cat(cmd.data, Cat(words, stream[c]))
      BY <1>3, CatAssoc, Zenon
    <3> QED
      BY <2>4, <3>3, <3>4, Zenon DEF h
  <2>8. MakeStreams(rest) = Cat(<<first.code, Len(first.data)>>, Cat(first.data, others))
    BY SeqOfCommands, StreamsFirst DEF Cat, first, others
  <2>9. Cat(Begun', Cat(buf', stream'[c])) = MakeStreams(rest)
    BY <2>5, <2>7, <2>8, Zenon DEF first, others
  <2> QED
    BY <2>1, <2>9 DEF Linked, StreamInv
<1> QED
  BY <1>1, <1>6, <1>7

LEMMA LinkDecode ==
    ASSUME WholeHeaders, StreamInv, NEW c \in Conn, DecodeHeader \/ DecodeContent
    PROVE  Linked(c)' /\ ~EndsInHeader(c, 0)'
<1>1. reading = c /\ UNCHANGED <<sent, stream>>
  BY DEF DecodeHeader, DecodeContent, WholeHeaders, StreamInv, TypeInv
<1>2. ~EndsInHeader(c, 0)'
  BY <1>1 DEF EndsInHeader, StreamInv
<1>3. received[c] \in Seq(CommandData)
  BY DEF StreamInv, Linked
<1>4. PICK rest \in Seq(CommandData) : /\ sent[c] = received[c] \o rest
                                       /\ Cat(Begun, Cat(buf, stream[c])) = MakeStreams(rest)
  BY DEF StreamInv, Linked
<1>5. /\ stream[c] \in Seq(Nat) /\ buf \in Seq(Nat) /\ buf # <<>> /\ Begun \in Seq(Nat)
      /\ m_Command \in PartOfCommand /\ Len(m_Command.data) <= m_Command.length /\ TypeInv
  BY <1>1, BegunType, CommandStreamAssumption DEF StreamInv, TypeInv
<1>6. rest # <<>>
  <2>1. Len(MakeStreams(rest)) = Len(Begun) + (Len(buf) + Len(stream[c]))
    <3>1. Cat(buf, stream[c]) \in Seq(Nat) /\ Len(Cat(buf, stream[c])) = Len(buf) + Len(stream[c])
      BY <1>5, CatIs, Zenon
    <3>2. Len(Cat(Begun, Cat(buf, stream[c]))) = Len(Begun) + Len(Cat(buf, stream[c]))
      BY <1>5, <3>1, CatIs, Zenon
    <3> QED
      BY <1>4, <3>1, <3>2, Zenon
  <2>2. Len(Begun) \in Nat /\ Len(stream[c]) \in Nat /\ Len(buf) \in Nat \ {0}
    BY <1>5, EmptySeq
  <2> QED
    BY <2>1, <2>2, StreamsOfNone
<1> DEFINE first == Head(rest)
           others == MakeStreams(Tail(rest))
<1>7. first \in CommandData /\ first \in Command /\ Tail(rest) \in Seq(CommandData)
  BY <1>6, SentIsCommand
<1>8. first.code \in Nat \ {0} /\ first.data \in Seq(Nat) /\ Len(first.data) <= MaxContent /\ others \in Seq(Nat)
  BY <1>7, SentIsShort, SeqOfCommands, StreamsType DEF Command
<1>9. MakeStreams(rest) = Cat(<<first.code, Len(first.data)>>, Cat(first.data, others))
  BY <1>6, SeqOfCommands, StreamsFirst DEF Cat
<1>10. <<first.code, Len(first.data)>> \in Seq(Nat) /\ Len(<<first.code, Len(first.data)>>) = 2
  BY <1>8
<1> HIDE DEF first, others
<1>11. CASE DecodeHeader
  <2>1. Begun = <<>> /\ m_Command.code = RDCC_INVALID
    BY <1>11 DEF Begun, DecodeHeader
  <2>2. Cat(buf, stream[c]) = MakeStreams(rest)
    BY <1>4, <1>5, <2>1, CatLaws
  <2>3. Len(buf) >= 2
    <3>1. ASSUME Len(buf) = 1 PROVE FALSE
      <4>1. Len(Cat(buf, stream[c])) = Len(buf) + Len(stream[c])
        BY <1>5, CatIs, Zenon
      <4>2. Len(stream[c]) \in Nat
        BY <1>5
      <4>3. Len(stream[c]) - 0 = Len(MakeStreams(rest)) - 1
        BY <2>2, <3>1, <4>1, <4>2
      <4>4. /\ Len(received[c]) + 1 \in 1..Len(sent[c])
            /\ rest = SubSeq(sent[c], Len(received[c]) + 1, Len(sent[c]))
        BY <1>3, <1>4, <1>6, SuffixOfConcat
      <4> QED
        BY <4>3, <4>4 DEF EndsInHeader, StreamInv
    <3>2. Len(buf) \in Nat \ {0}
      BY <1>5, EmptySeq
    <3>3. ASSUME NEW n \in Nat, n # 0, n # 1 PROVE n >= 2
      BY <3>3
    <3> QED
      BY <3>1, <3>2, <3>3
  <2> DEFINE cmd == [code |-> buf[1], length |-> buf[2], data |-> <<>>]
             words == SubSeq(buf, 3, Len(buf))
  <2>4. cmd \in PartOfCommand /\ words \in Seq(Nat) /\ buf = Cat(<<buf[1], buf[2]>>, words)
    BY <1>5, <2>3, HeaderType DEF Cat
  <2>5. <<buf[1], buf[2]>> \in Seq(Nat) /\ Len(<<buf[1], buf[2]>>) = 2
    BY <1>5, <2>3
  <2> HIDE DEF words
  <2>6. /\ <<buf[1], buf[2]>> = <<first.code, Len(first.data)>>
        /\ Cat(words, stream[c]) = Cat(first.data, others)
    <3> DEFINE h == <<buf[1], buf[2]>>
               k == <<first.code, Len(first.data)>>
    <3>1. h \in Seq(Nat) /\ k \in Seq(Nat) /\ Len(h) = Len(k) /\ buf = Cat(h, words)
          /\ MakeStreams(rest) = Cat(k, Cat(first.data, others))
      BY <1>9, <1>10, <2>4, <2>5, Zenon
    <3> HIDE DEF h, k
    <3>2. Cat(words, stream[c]) \in Seq(Nat) /\ Cat(first.data, others) \in Seq(Nat)
      BY <1>5, <1>8, <2>4, CatLaws
    <3>3. Cat(Cat(h, words), stream[c]) = Cat(h, Cat(words, stream[c]))
      BY <1>5, <2>4, <3>1, CatLaws
    <3>4. Cat(h, Cat(words, stream[c])) = Cat(k, Cat(first.data, others))
      BY <2>2, <3>1, <3>3, Zenon
    <3>5. h = k /\ Cat(words, stream[c]) = Cat(first.data, others)
      BY <3>1, <3>2, <3>4, CatSplit
    <3> QED
      BY <3>5 DEF h, k
  <2>7. buf[1] = first.code /\ buf[2] = Len(first.data)
    BY <2>6
  <2>8. ~(Len(buf) < 2 \/ buf[1] = RDCC_INVALID \/ buf[2] > CMD_ITEM_SIZE_MAX)
    <3>1. Len(first.data) \in Nat /\ MaxContent \in Nat /\ CMD_ITEM_SIZE_MAX \in Nat
          /\ MaxContent <= CMD_ITEM_SIZE_MAX /\ Len(buf) \in Nat
      BY <1>5, <1>8, CommandStreamAssumption DEF WholeHeaders
    <3> QED
      BY <1>8, <2>3, <2>7, <3>1 DEF RDCC_INVALID
  <2>9. Collect(cmd, words)
    BY <1>11, <2>8 DEF DecodeHeader, words
  <2>10. /\ cmd.code = first.code /\ cmd.length = Len(first.data) /\ cmd.data = <<>>
         /\ Len(cmd.data) <= cmd.length
    BY <1>8, <2>7
  <2> HIDE DEF cmd
  <2>11. Cat(cmd.data, Cat(words, stream[c])) = Cat(first.data, others)
    <3>1. Cat(words, stream[c]) \in Seq(Nat)
      BY <1>5, <2>4, CatLaws
    <3> QED
      BY <2>6, <2>10, <3>1, CatLaws
  <2> QED
    BY <1>1, <1>2, <1>4, <1>6, <2>4, <2>9, <2>10, <2>11, LinkCollect, Zenon DEF first, others
<1>12. CASE DecodeContent
  <2>1. Begun = <<m_Command.code, m_Command.length>> \o m_Command.data /\ Collect(m_Command, buf)
    BY <1>12 DEF Begun, DecodeContent
  <2>2. /\ m_Command.code \in Nat /\ m_Command.length \in Nat /\ m_Command.data \in Seq(Nat)
    BY <1>5 DEF PartOfCommand
  <2> DEFINE h == <<m_Command.code, m_Command.length>>
             k == <<first.code, Len(first.data)>>
  <2>3. h \in Seq(Nat) /\ k \in Seq(Nat) /\ Len(h) = Len(k)
    BY <1>10, <2>2
  <2>4. Begun = Cat(h, m_Command.data) /\ MakeStreams(rest) = Cat(k, Cat(first.data, others))
    BY <1>9, <2>1, Zenon DEF Cat
  <2> HIDE DEF h, k
  <2>5. Cat(buf, stream[c]) \in Seq(Nat) /\ Cat(first.data, others) \in Seq(Nat)
    BY <1>5, <1>8, CatLaws
  <2>6. Cat(m_Command.data, Cat(buf, stream[c])) \in Seq(Nat)
    BY <2>2, <2>5, CatLaws
  <2>7. Cat(Cat(h, m_Command.data), Cat(buf, stream[c])) = Cat(h, Cat(m_Command.data, Cat(buf, stream[c])))
    BY <2>2, <2>3, <2>5, CatLaws
  <2>8. Cat(h, Cat(m_Command.data, Cat(buf, stream[c]))) = Cat(k, Cat(first.data, others))
    BY <1>4, <2>4, <2>7, Zenon
  <2>9. h = k /\ Cat(m_Command.data, Cat(buf, stream[c])) = Cat(first.data, others)
    BY <2>3, <2>5, <2>6, <2>8, CatSplit
  <2>10. m_Command.code = first.code /\ m_Command.length = Len(first.data)
    BY <2>9 DEF h, k
  <2> QED
    BY <1>1, <1>2, <1>4, <1>5, <1>6, <2>1, <2>9, <2>10, LinkCollect, Zenon DEF first, others
<1> QED
  BY <1>11, <1>12

LEMMA StreamNext == WholeHeaders /\ StreamInv /\ [Next]_vars => StreamInv'
<1> SUFFICES ASSUME WholeHeaders, StreamInv, [Next]_vars PROVE StreamInv'
  OBVIOUS
<1>1. TypeInv'
  BY TypeNext DEF StreamInv
<1>2. ASSUME NEW c \in Conn PROVE Linked(c)' /\ ~EndsInHeader(c, 0)'
  <2>1. ASSUME NEW d \in Conn, Send(d) \/ conn_readcb(d) PROVE Linked(c)' /\ ~EndsInHeader(c, 0)'
    <3>1. d = c
      BY DEF WholeHeaders
    <3>2. CASE Send(d)
      BY <3>1, <3>2, LinkSend
    <3>3. CASE conn_readcb(d)
      BY <3>1, <3>3, LinkRead
    <3> QED
      BY <2>1, <3>2, <3>3
  <2>2. CASE DecodeHeader \/ DecodeContent
    BY <2>2, LinkDecode
  <2>3. CASE UNCHANGED vars
    <3>1. UNCHANGED <<sent, stream, received, buf, m_Command>>
      BY <2>3 DEF vars
    <3>2. Linked(c) /\ ~EndsInHeader(c, 0)
      BY DEF StreamInv
    <3>3. ~EndsInHeader(c, 0)'
      BY <3>1, <3>2 DEF EndsInHeader
    <3>4. Linked(c)'
      BY <3>1, <3>2, Zenon DEF Linked, Begun
    <3> QED
      BY <3>3, <3>4
  <2> QED
    BY <2>1, <2>2, <2>3 DEF Next
<1> QED
  BY <1>1, <1>2 DEF StreamInv

LEMMA StreamInvariant == ASSUME WholeHeaders PROVE Spec => []StreamInv
<1>1. Init => StreamInv
  BY TypeInit, LinkInit DEF StreamInv
<1>2. StreamInv /\ [Next]_vars => StreamInv'
  BY StreamNext
<1> QED
  BY <1>1, <1>2, PTL DEF Spec

\* Whatever was sent on a connection that has the receiver to itself, and however it
\* was cut outside headers: DecodeBuffer neither loses nor duplicates nor moves a word.
THEOREM NoWordIsLost == ASSUME WholeHeaders PROVE Spec => []StreamConserved
<1>1. StreamInv => StreamConserved
  <2> SUFFICES ASSUME StreamInv, NEW c \in Conn
               PROVE  MakeStreams(received[c]) \o Begun \o buf \o stream[c] = MakeStreams(sent[c])
    BY DEF StreamConserved
  <2>1. received[c] \in Seq(CommandData)
    BY DEF StreamInv, Linked
  <2>2. PICK rest \in Seq(CommandData) : /\ sent[c] = received[c] \o rest
                                         /\ Cat(Begun, Cat(buf, stream[c])) = MakeStreams(rest)
    BY DEF StreamInv, Linked
  <2> DEFINE r == MakeStreams(received[c])
  <2>3. r \in Seq(Nat) /\ Begun \in Seq(Nat) /\ buf \in Seq(Nat) /\ stream[c] \in Seq(Nat)
    BY <2>1, SeqOfCommands, StreamsType, BegunType DEF StreamInv, TypeInv
  <2>4. MakeStreams(sent[c]) = Cat(r, MakeStreams(rest))
    BY <2>1, <2>2, SeqOfCommands, StreamsConcat DEF Cat
  <2> HIDE DEF r
  <2>5. Cat(Cat(Cat(r, Begun), buf), stream[c]) = Cat(r, Cat(Begun, Cat(buf, stream[c])))
    BY <2>3, CatAssocTwice
  <2> QED
    BY <2>2, <2>4, <2>5, Zenon DEF Cat, r
<1> QED
  BY <1>1, StreamInvariant, PTL

\* Under the same conditions every OnReciveCommand gets one command as it was sent, and
\* the commands in their order.
THEOREM CommandsArriveAsSent == ASSUME WholeHeaders PROVE Spec => []ReceivedAsSent
<1>1. StreamInv => ReceivedAsSent
  <2> SUFFICES ASSUME StreamInv, NEW c \in Conn PROVE IsPrefix(received[c], sent[c])
    BY DEF ReceivedAsSent
  <2>1. received[c] \in Seq(CommandData)
    BY DEF StreamInv, Linked
  <2>2. PICK rest \in Seq(CommandData) : sent[c] = received[c] \o rest
    BY DEF StreamInv, Linked
  <2>3. \A s, t \in Seq(CommandData) : IsPrefix(s, s \o t)
    BY DEF IsPrefix
  <2> QED
    BY <2>1, <2>2, <2>3
<1> QED
  BY <1>1, StreamInvariant, PTL
=============================================================================
