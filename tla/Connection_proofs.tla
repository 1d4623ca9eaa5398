-------------------------- MODULE Connection_proofs --------------------------
(***************************************************************************)
(* The connection is a packet channel, for all packets, sizes of packets   *)
(* and sizes of buffers, and does not disconnect a peer that keeps the     *)
(* limits.                                                                 *)
(***************************************************************************)
EXTENDS Connection, SequenceTheorems, WellFoundedInduction, TLAPS

(***************************************************************************)
(* The two recursive functions                                             *)
(*                                                                         *)
(* A recursive definition says that its function is one that satisfies an  *)
(* equation.  That there is one is shown by ever longer solutions, on      *)
(* sequences of at most n bytes.                                           *)
(***************************************************************************)

LEMMA LeastNumber ==
    ASSUME NEW I, I \subseteq Nat, I # {}
    PROVE  \E x \in I : \A y \in I : x <= y
  <1>1. PICK x \in I : \A y \in I : <<y, x>> \notin OpToRel(<, Nat)
    BY NatLessThanWellFounded, WFMin
  <1>2. \A y \in I : x <= y
    <2> SUFFICES ASSUME NEW y \in I, y < x PROVE FALSE
      OBVIOUS
    <2> DEFINE pair == <<y, x>>
    <2>1. pair \in Nat \X Nat /\ pair[1] = y /\ pair[2] = x
      OBVIOUS
    <2> HIDE DEF pair
    <2>2. pair[1] < pair[2]
      BY <2>1
    <2>3. pair \in OpToRel(<, Nat)
      BY <2>1, <2>2, Zenon DEF OpToRel
    <2> QED BY <1>1, <2>3, Zenon DEF pair
  <1> QED BY <1>2

Short(n) == {b \in Seq(Bytes) : Len(b) <= n}

\* One round of the loop in ScanPackets, when f is what the others do.
ScanBody(f, b) ==
    IF Len(b) < HeaderSize THEN Scanned(b, << >>, TRUE)
    ELSE IF BadHeader(b) THEN Scanned(<< >>, << >>, FALSE)
    ELSE LET p == b[1][1]
         IN IF Len(b) < FrameSize(p) THEN Scanned(b, << >>, TRUE)
            ELSE IF Garbage(p) THEN Scanned(Rest(b), << >>, TRUE)
            ELSE IF Invalid(p) THEN Scanned(Rest(b), << >>, FALSE)
            ELSE LET more == f[Rest(b)]
                 IN Scanned(more.buf, <<p>> \o more.packets, more.ok)

\* The first byte, and then the others.
CountBody(f, b) ==
    IF b = << >> THEN << >>
    ELSE LET c == Head(b)
         IN (IF c[2] = FrameSize(c[1]) THEN <<c[1]>> ELSE << >>) \o f[Tail(b)]

\* What is left behind the first frame is shorter.
LEMMA RestShorter ==
    ASSUME NEW b \in Seq(Bytes), Len(b) >= HeaderSize, Len(b) >= FrameSize(b[1][1])
    PROVE  /\ b # << >> /\ b[1] \in Bytes /\ b[1][1] \in Packets
           /\ FrameSize(b[1][1]) \in Nat \ {0}
           /\ Rest(b) \in Seq(Bytes)
           /\ Len(Rest(b)) = Len(b) - FrameSize(b[1][1])
           /\ \A i \in 1..Len(Rest(b)) : Rest(b)[i] = b[FrameSize(b[1][1]) + i]
  <1> DEFINE k == FrameSize(b[1][1])
  <1>1. Len(b) \in Nat /\ \A i \in 1..Len(b) : b[i] \in Bytes
    BY LenProperties, ElementOfSeq
  <1>2. HeaderSize \in Nat \ {0} /\ Len(b) >= 1
    BY <1>1, ConnectionAssumption
  <1>3. b[1] \in Bytes /\ b[1][1] \in Packets
    BY <1>1, <1>2 DEF Bytes
  <1>4. k \in Nat \ {0} /\ k <= Len(b)
    BY <1>1, <1>2, <1>3, ConnectionAssumption DEF FrameSize
  <1>5. Rest(b) = SubSeq(b, k + 1, Len(b))
    BY DEF Rest
  <1> HIDE DEF k
  <1>6. \A i \in (k + 1)..Len(b) : b[i] \in Bytes
    BY <1>1, <1>4
  <1>7. /\ SubSeq(b, k + 1, Len(b)) \in Seq(Bytes)
        /\ Len(SubSeq(b, k + 1, Len(b))) = IF k + 1 <= Len(b) THEN Len(b) - (k + 1) + 1 ELSE 0
        /\ \A i \in 1..(Len(b) - (k + 1) + 1) : SubSeq(b, k + 1, Len(b))[i] = b[(k + 1) + i - 1]
    BY <1>1, <1>4, <1>6, SubSeqProperties
  <1>8. Len(Rest(b)) = Len(b) - k /\ Len(b) - (k + 1) + 1 = Len(b) - k
    BY <1>1, <1>4, <1>5, <1>7
  <1>9. ASSUME NEW i \in 1..(Len(b) - k)
        PROVE  Rest(b)[i] = b[k + i]
    <2>1. (k + 1) + i - 1 = k + i /\ i \in 1..(Len(b) - (k + 1) + 1)
      BY <1>1, <1>4
    <2> QED BY <1>5, <1>7, <2>1
  <1>10. b # << >>
    BY <1>2
  <1> QED BY <1>3, <1>4, <1>5, <1>7, <1>8, <1>9, <1>10 DEF k

\* A round depends only on what the function does with shorter sequences.
LEMMA ScanBodyLocal ==
    ASSUME NEW f, NEW g, NEW b \in Seq(Bytes),
           \A c \in Seq(Bytes) : Len(c) < Len(b) => f[c] = g[c]
    PROVE  ScanBody(f, b) = ScanBody(g, b)
  <1>1. CASE Len(b) >= HeaderSize /\ Len(b) >= FrameSize(b[1][1])
    <2>1. Rest(b) \in Seq(Bytes) /\ Len(Rest(b)) < Len(b)
      BY <1>1, RestShorter, LenProperties
    <2>2. f[Rest(b)] = g[Rest(b)]
      BY <2>1
    <2> QED BY <2>2 DEF ScanBody
  <1>2. CASE Len(b) < HeaderSize
    BY <1>2 DEF ScanBody
  <1>3. CASE ~(Len(b) < HeaderSize) /\ ~(Len(b) >= FrameSize(b[1][1]))
    <2>1. CASE BadHeader(b)
      BY <1>3, <2>1 DEF ScanBody
    <2>2. CASE ~BadHeader(b)
      <3>1. Len(b) \in Nat /\ HeaderSize \in Nat \ {0}
        BY LenProperties, ConnectionAssumption
      <3>2. b[1] \in Bytes
        BY <1>3, <3>1, ElementOfSeq
      <3>3. FrameSize(b[1][1]) \in Nat
        BY <3>1, <3>2, ConnectionAssumption DEF Bytes, FrameSize
      <3>4. Len(b) < FrameSize(b[1][1])
        BY <1>3, <3>1, <3>3
      <3> QED BY <1>3, <2>2, <3>4 DEF ScanBody
    <2> QED BY <2>1, <2>2
  <1>4. Len(b) \in Nat /\ HeaderSize \in Nat
    BY LenProperties, ConnectionAssumption
  <1> QED BY <1>1, <1>2, <1>3, <1>4

LEMMA CountBodyLocal ==
    ASSUME NEW f, NEW g, NEW b \in Seq(Bytes),
           \A c \in Seq(Bytes) : Len(c) < Len(b) => f[c] = g[c]
    PROVE  CountBody(f, b) = CountBody(g, b)
  <1>1. CASE b = << >>
    BY <1>1 DEF CountBody
  <1>2. CASE b # << >>
    <2>1. Tail(b) \in Seq(Bytes) /\ Len(Tail(b)) < Len(b)
      BY <1>2, HeadTailProperties, LenProperties
    <2>2. f[Tail(b)] = g[Tail(b)]
      BY <2>1
    <2> QED BY <2>2 DEF CountBody
  <1> QED BY <1>1, <1>2

\* f is the function on the sequences of at most n bytes.
ScanSolves(f, n) == f = [b \in Short(n) |-> ScanBody(f, b)]

LEMMA ScanExtends ==
    ASSUME NEW n \in Nat, NEW f, n # 0 => ScanSolves(f, n - 1)
    PROVE  ScanSolves([b \in Short(n) |-> ScanBody(f, b)], n)
  <1> DEFINE g == [b \in Short(n) |-> ScanBody(f, b)]
  <1>1. ASSUME NEW b \in Short(n)
        PROVE  g[b] = ScanBody(g, b)
    <2>1. b \in Seq(Bytes) /\ Len(b) <= n /\ Len(b) \in Nat
      BY LenProperties DEF Short
    <2>2. ASSUME NEW c \in Seq(Bytes), Len(c) < Len(b)
          PROVE  f[c] = g[c]
      <3>1. Len(c) \in Nat
        BY LenProperties
      <3>2. n # 0 /\ c \in Short(n) /\ c \in Short(n - 1)
        BY <2>1, <2>2, <3>1 DEF Short
      <3>3. f[c] = ScanBody(f, c)
        BY <3>2 DEF ScanSolves
      <3> QED BY <3>2, <3>3
    <2> HIDE DEF g
    <2>3. ScanBody(f, b) = ScanBody(g, b)
      BY <2>1, <2>2, ScanBodyLocal
    <2> QED BY <2>3 DEF g
  <1>2. g = [b \in Short(n) |-> g[b]]
    OBVIOUS
  <1> HIDE DEF g
  <1>3. [b \in Short(n) |-> g[b]] = [b \in Short(n) |-> ScanBody(g, b)]
    BY <1>1
  <1>4. ScanSolves(g, n)
    BY <1>2, <1>3 DEF ScanSolves
  <1> QED BY <1>4 DEF g

LEMMA ScanHasSolution ==
    ASSUME NEW n \in Nat
    PROVE  \E f : ScanSolves(f, n)
  <1> DEFINE I == {m \in Nat : ~\E f : ScanSolves(f, m)}
  <1> SUFFICES ASSUME I # {} PROVE FALSE
    OBVIOUS
  <1>1. PICK m \in I : \A k \in I : m <= k
    BY LeastNumber
  <1>2. m \in Nat /\ \A g : ~ScanSolves(g, m)
    OBVIOUS
  <1>3. ASSUME m # 0 PROVE \E f : ScanSolves(f, m - 1)
    <2>1. m - 1 \in Nat /\ ~(m <= m - 1)
      BY <1>2, <1>3
    <2> QED BY <1>1, <2>1
  <1>4. \E f : m # 0 => ScanSolves(f, m - 1)
    BY <1>3
  <1> HIDE DEF I
  <1> QED BY <1>2, <1>4, ScanExtends

LEMMA ScanSameSolution ==
    ASSUME NEW m \in Nat, NEW n \in Nat, NEW f, NEW g, ScanSolves(f, m), ScanSolves(g, n),
           NEW b \in Seq(Bytes), Len(b) <= m, Len(b) <= n
    PROVE  f[b] = g[b]
  <1> DEFINE differ == {c \in Seq(Bytes) : Len(c) <= m /\ Len(c) <= n /\ f[c] # g[c]}
             I == {Len(c) : c \in differ}
  <1> SUFFICES ASSUME f[b] # g[b] PROVE FALSE
    OBVIOUS
  <1>1. I \subseteq Nat /\ I # {}
    <2>1. b \in differ
      OBVIOUS
    <2>2. \A c \in differ : Len(c) \in Nat
      BY LenProperties
    <2> QED BY <2>1, <2>2
  <1>2. PICK k \in I : \A j \in I : k <= j
    BY <1>1, LeastNumber
  <1>3. PICK c \in differ : k = Len(c)
    OBVIOUS
  <1>4. /\ c \in Seq(Bytes) /\ Len(c) \in Nat /\ Len(c) <= m /\ Len(c) <= n
        /\ f[c] # g[c]
    BY <1>3, LenProperties
  <1>5. ASSUME NEW d \in Seq(Bytes), Len(d) < Len(c)
        PROVE  f[d] = g[d]
    <2>1. Len(d) \in Nat
      BY LenProperties
    <2>2. Len(d) \notin I
      <3> HIDE DEF I, differ
      <3> QED BY <1>2, <1>3, <1>4, <1>5, <2>1
    <2>3. d \notin differ
      BY <2>2
    <2> QED BY <1>4, <1>5, <2>1, <2>3
  <1> HIDE DEF differ, I
  <1>6. ScanBody(f, c) = ScanBody(g, c)
    BY <1>4, <1>5, ScanBodyLocal
  <1>7. c \in Short(m) /\ c \in Short(n)
    BY <1>4 DEF Short
  <1>8. f[c] = ScanBody(f, c) /\ g[c] = ScanBody(g, c)
    BY <1>7 DEF ScanSolves
  <1> QED BY <1>4, <1>6, <1>8

\* ScanPackets is its loop.
LEMMA ScanUnfolds ==
    ASSUME NEW b \in Seq(Bytes)
    PROVE  ScanPackets[b] = ScanBody(ScanPackets, b)
  <1> DEFINE s(n) == CHOOSE f : ScanSolves(f, n)
             h == [c \in Seq(Bytes) |-> s(Len(c))[c]]
  <1>1. \A n \in Nat : ScanSolves(s(n), n)
    BY ScanHasSolution
  <1> HIDE DEF s
  <1>2. ASSUME NEW c \in Seq(Bytes)
        PROVE  h[c] = ScanBody(h, c)
    <2>1. Len(c) \in Nat /\ c \in Short(Len(c))
      BY LenProperties DEF Short
    <2>2. h[c] = ScanBody(s(Len(c)), c)
      BY <1>1, <2>1 DEF ScanSolves
    <2>3. ASSUME NEW d \in Seq(Bytes), Len(d) < Len(c)
          PROVE  s(Len(c))[d] = h[d]
      <3>1. Len(d) \in Nat /\ Len(d) <= Len(c) /\ Len(d) <= Len(d)
        BY <2>1, <2>3, LenProperties
      <3>2. s(Len(c))[d] = s(Len(d))[d]
        BY <1>1, <2>1, <3>1, ScanSameSolution
      <3> QED BY <3>2
    <2> HIDE DEF h
    <2>4. ScanBody(s(Len(c)), c) = ScanBody(h, c)
      BY <2>3, ScanBodyLocal
    <2> QED BY <2>2, <2>4
  <1>3. h = [c \in Seq(Bytes) |-> h[c]]
    OBVIOUS
  <1> HIDE DEF h
  <1>4. [c \in Seq(Bytes) |-> h[c]] = [c \in Seq(Bytes) |-> ScanBody(h, c)]
    BY <1>2
  <1>5. \E f : f = [c \in Seq(Bytes) |-> ScanBody(f, c)]
    BY <1>3, <1>4
  <1>6. ScanPackets = CHOOSE f : f = [c \in Seq(Bytes) |-> ScanBody(f, c)]
    BY DEF ScanPackets, ScanBody
  <1>7. ScanPackets = [c \in Seq(Bytes) |-> ScanBody(ScanPackets, c)]
    BY <1>5, <1>6
  <1> HIDE DEF ScanPackets
  <1> QED BY <1>7

\* f is the function on the sequences of at most n bytes.
CountSolves(f, n) == f = [b \in Short(n) |-> CountBody(f, b)]

LEMMA CountExtends ==
    ASSUME NEW n \in Nat, NEW f, n # 0 => CountSolves(f, n - 1)
    PROVE  CountSolves([b \in Short(n) |-> CountBody(f, b)], n)
  <1> DEFINE g == [b \in Short(n) |-> CountBody(f, b)]
  <1>1. ASSUME NEW b \in Short(n)
        PROVE  g[b] = CountBody(g, b)
    <2>1. b \in Seq(Bytes) /\ Len(b) <= n /\ Len(b) \in Nat
      BY LenProperties DEF Short
    <2>2. ASSUME NEW c \in Seq(Bytes), Len(c) < Len(b)
          PROVE  f[c] = g[c]
      <3>1. Len(c) \in Nat
        BY LenProperties
      <3>2. n # 0 /\ c \in Short(n) /\ c \in Short(n - 1)
        BY <2>1, <2>2, <3>1 DEF Short
      <3>3. f[c] = CountBody(f, c)
        BY <3>2 DEF CountSolves
      <3> QED BY <3>2, <3>3
    <2> HIDE DEF g
    <2>3. CountBody(f, b) = CountBody(g, b)
      BY <2>1, <2>2, CountBodyLocal
    <2> QED BY <2>3 DEF g
  <1>2. g = [b \in Short(n) |-> g[b]]
    OBVIOUS
  <1> HIDE DEF g
  <1>3. [b \in Short(n) |-> g[b]] = [b \in Short(n) |-> CountBody(g, b)]
    BY <1>1
  <1>4. CountSolves(g, n)
    BY <1>2, <1>3 DEF CountSolves
  <1> QED BY <1>4 DEF g

LEMMA CountHasSolution ==
    ASSUME NEW n \in Nat
    PROVE  \E f : CountSolves(f, n)
  <1> DEFINE I == {m \in Nat : ~\E f : CountSolves(f, m)}
  <1> SUFFICES ASSUME I # {} PROVE FALSE
    OBVIOUS
  <1>1. PICK m \in I : \A k \in I : m <= k
    BY LeastNumber
  <1>2. m \in Nat /\ \A g : ~CountSolves(g, m)
    OBVIOUS
  <1>3. ASSUME m # 0 PROVE \E f : CountSolves(f, m - 1)
    <2>1. m - 1 \in Nat /\ ~(m <= m - 1)
      BY <1>2, <1>3
    <2> QED BY <1>1, <2>1
  <1>4. \E f : m # 0 => CountSolves(f, m - 1)
    BY <1>3
  <1> HIDE DEF I
  <1> QED BY <1>2, <1>4, CountExtends

LEMMA CountSameSolution ==
    ASSUME NEW m \in Nat, NEW n \in Nat, NEW f, NEW g, CountSolves(f, m), CountSolves(g, n),
           NEW b \in Seq(Bytes), Len(b) <= m, Len(b) <= n
    PROVE  f[b] = g[b]
  <1> DEFINE differ == {c \in Seq(Bytes) : Len(c) <= m /\ Len(c) <= n /\ f[c] # g[c]}
             I == {Len(c) : c \in differ}
  <1> SUFFICES ASSUME f[b] # g[b] PROVE FALSE
    OBVIOUS
  <1>1. I \subseteq Nat /\ I # {}
    <2>1. b \in differ
      OBVIOUS
    <2>2. \A c \in differ : Len(c) \in Nat
      BY LenProperties
    <2> QED BY <2>1, <2>2
  <1>2. PICK k \in I : \A j \in I : k <= j
    BY <1>1, LeastNumber
  <1>3. PICK c \in differ : k = Len(c)
    OBVIOUS
  <1>4. /\ c \in Seq(Bytes) /\ Len(c) \in Nat /\ Len(c) <= m /\ Len(c) <= n
        /\ f[c] # g[c]
    BY <1>3, LenProperties
  <1>5. ASSUME NEW d \in Seq(Bytes), Len(d) < Len(c)
        PROVE  f[d] = g[d]
    <2>1. Len(d) \in Nat
      BY LenProperties
    <2>2. Len(d) \notin I
      <3> HIDE DEF I, differ
      <3> QED BY <1>2, <1>3, <1>4, <1>5, <2>1
    <2>3. d \notin differ
      BY <2>2
    <2> QED BY <1>4, <1>5, <2>1, <2>3
  <1> HIDE DEF differ, I
  <1>6. CountBody(f, c) = CountBody(g, c)
    BY <1>4, <1>5, CountBodyLocal
  <1>7. c \in Short(m) /\ c \in Short(n)
    BY <1>4 DEF Short
  <1>8. f[c] = CountBody(f, c) /\ g[c] = CountBody(g, c)
    BY <1>7 DEF CountSolves
  <1> QED BY <1>4, <1>6, <1>8

\* PacketsIn goes through the bytes.
LEMMA CountUnfolds ==
    ASSUME NEW b \in Seq(Bytes)
    PROVE  PacketsIn[b] = CountBody(PacketsIn, b)
  <1> DEFINE s(n) == CHOOSE f : CountSolves(f, n)
             h == [c \in Seq(Bytes) |-> s(Len(c))[c]]
  <1>1. \A n \in Nat : CountSolves(s(n), n)
    BY CountHasSolution
  <1> HIDE DEF s
  <1>2. ASSUME NEW c \in Seq(Bytes)
        PROVE  h[c] = CountBody(h, c)
    <2>1. Len(c) \in Nat /\ c \in Short(Len(c))
      BY LenProperties DEF Short
    <2>2. h[c] = CountBody(s(Len(c)), c)
      BY <1>1, <2>1 DEF CountSolves
    <2>3. ASSUME NEW d \in Seq(Bytes), Len(d) < Len(c)
          PROVE  s(Len(c))[d] = h[d]
      <3>1. Len(d) \in Nat /\ Len(d) <= Len(c) /\ Len(d) <= Len(d)
        BY <2>1, <2>3, LenProperties
      <3>2. s(Len(c))[d] = s(Len(d))[d]
        BY <1>1, <2>1, <3>1, CountSameSolution
      <3> QED BY <3>2
    <2> HIDE DEF h
    <2>4. CountBody(s(Len(c)), c) = CountBody(h, c)
      BY <2>3, CountBodyLocal
    <2> QED BY <2>2, <2>4
  <1>3. h = [c \in Seq(Bytes) |-> h[c]]
    OBVIOUS
  <1> HIDE DEF h
  <1>4. [c \in Seq(Bytes) |-> h[c]] = [c \in Seq(Bytes) |-> CountBody(h, c)]
    BY <1>2
  <1>5. \E f : f = [c \in Seq(Bytes) |-> CountBody(f, c)]
    BY <1>3, <1>4
  <1>6. PacketsIn = CHOOSE f : f = [c \in Seq(Bytes) |-> CountBody(f, c)]
    BY DEF PacketsIn, CountBody
  <1>7. PacketsIn = [c \in Seq(Bytes) |-> CountBody(PacketsIn, c)]
    BY <1>5, <1>6
  <1> HIDE DEF PacketsIn
  <1> QED BY <1>7


(***************************************************************************)
(* The complete packets of a stream                                        *)
(***************************************************************************)

Last(c) == c[2] = FrameSize(c[1])
PacketOf(c) == IF Last(c) THEN <<c[1]>> ELSE << >>

LEMMA PacketsAssociate ==
    ASSUME NEW x \in Seq(Packets), NEW y \in Seq(Packets), NEW z \in Seq(Packets)
    PROVE  (x \o y) \o z = x \o (y \o z)
  BY ConcatAssociative

LEMMA BytesAssociate ==
    ASSUME NEW x \in Seq(Bytes), NEW y \in Seq(Bytes), NEW z \in Seq(Bytes)
    PROVE  (x \o y) \o z = x \o (y \o z)
  BY ConcatAssociative

LEMMA CountEmpty == PacketsIn[<< >>] = << >>
  <1>1. << >> \in Seq(Bytes)
    OBVIOUS
  <1> QED BY <1>1, CountUnfolds DEF CountBody

LEMMA CountStep ==
    ASSUME NEW b \in Seq(Bytes), b # << >>
    PROVE  /\ PacketsIn[b] = PacketOf(Head(b)) \o PacketsIn[Tail(b)]
           /\ PacketOf(Head(b)) \in Seq(Packets)
           /\ Tail(b) \in Seq(Bytes) /\ Len(Tail(b)) \in Nat /\ Len(Tail(b)) < Len(b)
  <1>1. PacketsIn[b] = PacketOf(Head(b)) \o PacketsIn[Tail(b)]
    BY CountUnfolds DEF CountBody, PacketOf, Last
  <1>2. Head(b) \in Bytes
    BY HeadTailProperties
  <1>3. Head(b)[1] \in Packets
    BY <1>2 DEF Bytes
  <1>4. PacketOf(Head(b)) \in Seq(Packets)
    <2> DEFINE p == Head(b)[1]
    <2>1. <<p>> \in Seq(Packets) /\ << >> \in Seq(Packets)
      BY <1>3
    <2> QED BY <2>1 DEF PacketOf
  <1>5. Tail(b) \in Seq(Bytes) /\ Len(Tail(b)) \in Nat /\ Len(Tail(b)) < Len(b)
    BY HeadTailProperties, LenProperties
  <1> QED BY <1>1, <1>4, <1>5

LEMMA CountType ==
    ASSUME NEW s \in Seq(Bytes)
    PROVE  PacketsIn[s] \in Seq(Packets)
  <1> DEFINE bad == {b \in Seq(Bytes) : PacketsIn[b] \notin Seq(Packets)}
             I == {Len(b) : b \in bad}
  <1> SUFFICES ASSUME s \in bad PROVE FALSE
    OBVIOUS
  <1>1. I \subseteq Nat /\ I # {}
    <2>1. \A b \in bad : Len(b) \in Nat
      BY LenProperties
    <2> QED BY <2>1
  <1>2. PICK k \in I : \A j \in I : k <= j
    BY <1>1, LeastNumber
  <1>3. PICK b \in bad : k = Len(b)
    OBVIOUS
  <1>4. b \in Seq(Bytes) /\ PacketsIn[b] \notin Seq(Packets) /\ Len(b) \in Nat
    BY LenProperties
  <1>5. b # << >>
    BY <1>4, CountEmpty
  <1>6. Tail(b) \notin bad
    <2>1. Len(Tail(b)) \notin I
      <3> HIDE DEF I, bad
      <3> QED BY <1>2, <1>3, <1>4, <1>5, CountStep
    <2> QED BY <2>1
  <1>7. PacketsIn[Tail(b)] \in Seq(Packets)
    BY <1>4, <1>5, <1>6, CountStep
  <1> HIDE DEF bad, I
  <1> QED BY <1>4, <1>5, <1>7, CountStep, ConcatProperties

\* The packets of two streams are those of the one, then those of the other.
LEMMA CountJoin ==
    ASSUME NEW s \in Seq(Bytes), NEW t \in Seq(Bytes)
    PROVE  PacketsIn[s \o t] = PacketsIn[s] \o PacketsIn[t]
  <1> DEFINE bad == {b \in Seq(Bytes) : PacketsIn[b \o t] # PacketsIn[b] \o PacketsIn[t]}
             I == {Len(b) : b \in bad}
  <1> SUFFICES ASSUME s \in bad PROVE FALSE
    OBVIOUS
  <1>1. I \subseteq Nat /\ I # {}
    <2>1. \A b \in bad : Len(b) \in Nat
      BY LenProperties
    <2> QED BY <2>1
  <1>2. PICK k \in I : \A j \in I : k <= j
    BY <1>1, LeastNumber
  <1>3. PICK b \in bad : k = Len(b)
    OBVIOUS
  <1>4. /\ b \in Seq(Bytes) /\ PacketsIn[b \o t] # PacketsIn[b] \o PacketsIn[t]
        /\ Len(b) \in Nat
    BY LenProperties
  <1>5. b # << >>
    <2>1. << >> \o t = t /\ << >> \o PacketsIn[t] = PacketsIn[t]
      BY CountType, ConcatEmptySeq
    <2> QED BY <1>4, <2>1, CountEmpty
  <1>6. Tail(b) \notin bad
    <2>1. Len(Tail(b)) \notin I
      <3> HIDE DEF I, bad
      <3> QED BY <1>2, <1>3, <1>4, <1>5, CountStep
    <2> QED BY <2>1
  <1>7. PacketsIn[Tail(b) \o t] = PacketsIn[Tail(b)] \o PacketsIn[t]
    BY <1>4, <1>5, <1>6, CountStep
  <1> HIDE DEF bad, I
  <1>8. /\ b \o t \in Seq(Bytes) /\ b \o t # << >>
        /\ Head(b \o t) = Head(b) /\ Tail(b \o t) = Tail(b) \o t
    BY <1>4, <1>5
  <1>9. PacketsIn[b \o t] = PacketOf(Head(b)) \o (PacketsIn[Tail(b)] \o PacketsIn[t])
    BY <1>7, <1>8, CountStep
  <1>10. PacketsIn[b] = PacketOf(Head(b)) \o PacketsIn[Tail(b)]
    BY <1>4, <1>5, CountStep
  <1>11. PacketOf(Head(b)) \in Seq(Packets) /\ Tail(b) \in Seq(Bytes)
    BY <1>4, <1>5, CountStep
  <1>12. (PacketOf(Head(b)) \o PacketsIn[Tail(b)]) \o PacketsIn[t]
            = PacketOf(Head(b)) \o (PacketsIn[Tail(b)] \o PacketsIn[t])
    <2>1. PacketsIn[Tail(b)] \in Seq(Packets) /\ PacketsIn[t] \in Seq(Packets)
      BY <1>11, CountType
    <2> QED BY <1>11, <2>1, PacketsAssociate
  <1> QED BY <1>4, <1>9, <1>10, <1>12

\* No packet is complete without its last byte.
LEMMA CountNone ==
    ASSUME NEW s \in Seq(Bytes), \A i \in 1..Len(s) : ~Last(s[i])
    PROVE  PacketsIn[s] = << >>
  <1> DEFINE bad == {b \in Seq(Bytes) : /\ \A i \in 1..Len(b) : ~Last(b[i])
                                        /\ PacketsIn[b] # << >>}
             I == {Len(b) : b \in bad}
  <1> SUFFICES ASSUME s \in bad PROVE FALSE
    OBVIOUS
  <1>1. I \subseteq Nat /\ I # {}
    <2>1. \A b \in bad : Len(b) \in Nat
      BY LenProperties
    <2> QED BY <2>1
  <1>2. PICK k \in I : \A j \in I : k <= j
    BY <1>1, LeastNumber
  <1>3. PICK b \in bad : k = Len(b)
    OBVIOUS
  <1>4. /\ b \in Seq(Bytes) /\ PacketsIn[b] # << >> /\ Len(b) \in Nat
        /\ \A i \in 1..Len(b) : ~Last(b[i])
    BY LenProperties
  <1>5. b # << >>
    BY <1>4, CountEmpty
  <1>6. Tail(b) \notin bad
    <2>1. Len(Tail(b)) \notin I
      <3> HIDE DEF I, bad
      <3> QED BY <1>2, <1>3, <1>4, <1>5, CountStep
    <2> QED BY <2>1
  <1>7. Tail(b) \in Seq(Bytes) /\ \A i \in 1..Len(Tail(b)) : ~Last(Tail(b)[i])
    <2>1. /\ Len(Tail(b)) = Len(b) - 1 /\ Tail(b) \in Seq(Bytes)
          /\ \A i \in 1..Len(Tail(b)) : Tail(b)[i] = b[i + 1]
      BY <1>4, <1>5, HeadTailProperties
    <2>2. \A i \in 1..Len(Tail(b)) : i + 1 \in 1..Len(b)
      BY <1>4, <2>1
    <2> QED BY <1>4, <2>1, <2>2
  <1>8. PacketsIn[Tail(b)] = << >>
    BY <1>6, <1>7
  <1> HIDE DEF bad, I
  <1>9. Head(b) = b[1] /\ 1 \in 1..Len(b)
    BY <1>4, <1>5
  <1>10. PacketOf(Head(b)) = << >>
    BY <1>4, <1>9 DEF PacketOf
  <1>11. << >> \o << >> = << >>
    OBVIOUS
  <1> QED BY <1>4, <1>5, <1>8, <1>10, <1>11, CountStep

\* One byte.
LEMMA CountOne ==
    ASSUME NEW c \in Bytes, Last(c)
    PROVE  PacketsIn[<<c>>] = <<c[1]>>
  <1> DEFINE b == <<c>>
  <1>1. b \in Seq(Bytes) /\ b # << >> /\ Head(b) = c /\ Tail(b) = << >>
    OBVIOUS
  <1> HIDE DEF b
  <1>2. PacketsIn[b] = PacketOf(c) \o << >> /\ PacketOf(c) \in Seq(Packets)
    BY <1>1, CountStep, CountEmpty
  <1>3. PacketOf(c) \o << >> = PacketOf(c)
    BY <1>2, ConcatEmptySeq
  <1> QED BY <1>2, <1>3 DEF PacketOf, b

\* A whole frame is one packet.
LEMMA CountFrame ==
    ASSUME NEW u \in Seq(Bytes), NEW p \in Packets, Len(u) = FrameSize(p),
           \A i \in 1..Len(u) : u[i] = <<p, i>>
    PROVE  PacketsIn[u] = <<p>>
  <1> DEFINE k == FrameSize(p)
             front == SubSeq(u, 1, k - 1)
             c == u[k]
  <1>1. k \in Nat \ {0}
    BY ConnectionAssumption DEF FrameSize
  <1>2. \A i \in 1..k : u[i] \in Bytes
    BY ElementOfSeq
  <1>3. c \in Bytes /\ c = <<p, k>>
    BY <1>1, <1>2
  <1>4. c[1] = p /\ Last(c)
    <2> DEFINE d == <<p, k>>
    <2>1. d[1] = p /\ d[2] = k
      OBVIOUS
    <2> HIDE DEF d
    <2> QED BY <1>3, <2>1 DEF Last, d
  <1>5. /\ front \in Seq(Bytes) /\ Len(front) = k - 1
        /\ \A i \in 1..(k - 1) : front[i] = u[i]
    <2> HIDE DEF k
    <2>1. \A i \in 1..(k - 1) : u[i] \in Bytes
      BY <1>1, <1>2
    <2>2. /\ front \in Seq(Bytes) /\ Len(front) = IF 1 <= k - 1 THEN k - 1 - 1 + 1 ELSE 0
          /\ \A i \in 1..(k - 1 - 1 + 1) : front[i] = u[1 + i - 1]
      BY <1>1, <2>1, SubSeqProperties
    <2> HIDE DEF front
    <2> QED BY <1>1, <2>2
  <1>6. u = front \o <<c>>
    <2>1. SubSeq(u, 1, k) = SubSeq(u, 1, k - 1) \o <<u[k]>>
      BY <1>1, SubSeqRecursiveSecond
    <2>2. SubSeq(u, 1, k) = u
      BY SubSeqFull
    <2> QED BY <2>1, <2>2
  <1>7. \A i \in 1..Len(front) : ~Last(front[i])
    <2> SUFFICES ASSUME NEW i \in 1..Len(front) PROVE ~Last(front[i])
      OBVIOUS
    <2> DEFINE d == <<p, i>>
    <2>1. d[1] = p /\ d[2] = i
      OBVIOUS
    <2> HIDE DEF d, k
    <2>2. i \in 1..(k - 1) /\ i # k /\ i \in 1..k
      BY <1>1, <1>5
    <2>3. front[i] = d
      BY <1>5, <2>2 DEF d, k
    <2> HIDE DEF front
    <2> QED BY <2>1, <2>2, <2>3 DEF Last, k
  <1> HIDE DEF front, c, k
  <1>8. PacketsIn[front] = << >>
    BY <1>5, <1>7, CountNone
  <1>9. <<c>> \in Seq(Bytes)
    BY <1>3
  <1>10. PacketsIn[u] = << >> \o <<p>>
    BY <1>3, <1>4, <1>5, <1>6, <1>8, <1>9, CountJoin, CountOne
  <1> QED BY <1>10

(***************************************************************************)
(* Frames                                                                  *)
(***************************************************************************)

First(c) == c[2] = 1

\* d is the byte behind c in a stream of whole frames.
Behind(c, d) ==
    \/ Last(c) /\ First(d)
    \/ ~Last(c) /\ d[1] = c[1] /\ d[2] = c[2] + 1

\* A stream of frames, of which the last may be cut.
Framed(s) ==
    /\ s # << >> => First(s[1])
    /\ \A i \in 1..(Len(s) - 1) : Behind(s[i], s[i + 1])

\* ... may not be cut.
Whole(s) == s # << >> => Last(s[Len(s)])

LEMMA ByteParts ==
    ASSUME NEW c \in Bytes
    PROVE  c = <<c[1], c[2]>> /\ c[1] \in Packets /\ c[2] \in Nat \ {0}
  <1>1. PICK p \in Packets, i \in 1..(HeaderSize + MaxSendBufSize) : c = <<p, i>>
    BY DEF Bytes
  <1> DEFINE d == <<p, i>>
  <1>2. d[1] = p /\ d[2] = i /\ d = <<p, i>>
    OBVIOUS
  <1> HIDE DEF d
  <1>3. c[1] = p /\ c[2] = i
    BY <1>1, <1>2
  <1> QED BY <1>1, <1>3, ConnectionAssumption

LEMMA FrameSizePositive ==
    ASSUME NEW p \in Packets
    PROVE  FrameSize(p) \in Nat \ {0} /\ FrameSize(p) >= HeaderSize
  BY ConnectionAssumption DEF FrameSize

\* The front of a stream is the frame of the packet its first byte belongs to.
LEMMA FrontFrame ==
    ASSUME NEW s \in Seq(Bytes), s # << >>, Framed(s)
    PROVE  \A i \in 1..Len(s) : i <= FrameSize(s[1][1]) => s[i] = <<s[1][1], i>>
  <1> DEFINE p == s[1][1]
             I == {i \in 1..Len(s) : i <= FrameSize(p) /\ s[i] # <<p, i>>}
  <1> SUFFICES ASSUME I # {} PROVE FALSE
    OBVIOUS
  <1>1. Len(s) \in Nat /\ Len(s) >= 1 /\ \A i \in 1..Len(s) : s[i] \in Bytes
    BY LenProperties, ElementOfSeq, EmptySeq
  <1>2. I \subseteq Nat
    BY <1>1
  <1>3. PICK j \in I : \A i \in I : j <= i
    BY <1>2, LeastNumber
  <1>4. /\ j \in 1..Len(s) /\ j <= FrameSize(p) /\ s[j] # <<p, j>>
        /\ j \in Nat
    BY <1>1
  <1>5. p \in Packets /\ s[1] = <<p, s[1][2]>> /\ s[1][2] = 1
    BY <1>1, ByteParts DEF Framed, First
  <1>6. j # 1
    BY <1>4, <1>5
  <1>7. /\ j - 1 \in 1..(Len(s) - 1) /\ j - 1 \in 1..Len(s) /\ (j - 1) + 1 = j
        /\ ~(j <= j - 1)
    BY <1>1, <1>4, <1>6
  <1>8. FrameSize(p) \in Nat
    BY <1>5, FrameSizePositive
  <1>9. s[j - 1] = <<p, j - 1>>
    <2>1. j - 1 \notin I
      <3> HIDE DEF I
      <3> QED BY <1>3, <1>7
    <2>2. j - 1 <= FrameSize(p)
      BY <1>4, <1>8
    <2> QED BY <1>7, <2>1, <2>2
  <1> DEFINE c == s[j - 1]
             d == s[j]
  <1>10. c[1] = p /\ c[2] = j - 1
    <2> DEFINE e == <<p, j - 1>>
    <2>1. e[1] = p /\ e[2] = j - 1
      OBVIOUS
    <2> HIDE DEF e
    <2> QED BY <1>9, <2>1 DEF e
  <1>11. Behind(c, d)
    BY <1>7 DEF Framed
  <1>12. d \in Bytes /\ d = <<d[1], d[2]>>
    BY <1>1, <1>4, ByteParts
  <1> HIDE DEF I, c, d, p
  <1>13. ~Last(c)
    BY <1>4, <1>8, <1>10 DEF Last
  <1>14. d[1] = p /\ d[2] = j
    BY <1>7, <1>10, <1>11, <1>13 DEF Behind
  <1>15. d = <<p, j>>
    BY <1>12, <1>14
  <1> QED BY <1>4, <1>15 DEF d

LEMMA FramedFront ==
    ASSUME NEW s \in Seq(Bytes), NEW t \in Seq(Bytes), Framed(s \o t)
    PROVE  Framed(s)
  <1>1. /\ Len(s) \in Nat /\ Len(t) \in Nat
        /\ Len(s \o t) = Len(s) + Len(t)
        /\ \A i \in 1..Len(s) : (s \o t)[i] = s[i]
    BY LenProperties, ConcatProperties
  <1>2. ASSUME s # << >> PROVE First(s[1])
    <2>1. 1 \in 1..Len(s) /\ s \o t # << >>
      BY <1>1, <1>2
    <2> QED BY <1>1, <2>1 DEF Framed
  <1>3. ASSUME NEW i \in 1..(Len(s) - 1) PROVE Behind(s[i], s[i + 1])
    <2>1. i \in 1..(Len(s \o t) - 1) /\ i \in 1..Len(s) /\ i + 1 \in 1..Len(s)
      BY <1>1
    <2> QED BY <1>1, <2>1 DEF Framed
  <1> QED BY <1>2, <1>3 DEF Framed

\* Behind whole frames there are frames.
LEMMA FramedRest ==
    ASSUME NEW s \in Seq(Bytes), NEW t \in Seq(Bytes), Framed(s \o t), Whole(s)
    PROVE  Framed(t)
  <1> DEFINE n == Len(s)
             u == s \o t
  <1>1. /\ n \in Nat /\ Len(t) \in Nat
        /\ Len(u) = n + Len(t)
        /\ \A i \in 1..n : u[i] = s[i]
        /\ \A i \in 1..Len(t) : u[n + i] = t[i]
    <2>1. \A i \in 1..Len(u) : u[i] = IF i <= n THEN s[i] ELSE t[i - n]
      BY ConcatProperties
    <2>2. n \in Nat /\ Len(t) \in Nat /\ Len(u) = n + Len(t)
      BY LenProperties, ConcatProperties
    <2> HIDE DEF n, u
    <2>3. ASSUME NEW i \in 1..Len(t) PROVE u[n + i] = t[i]
      <3>1. n + i \in 1..Len(u) /\ ~(n + i <= n) /\ (n + i) - n = i
        BY <2>2
      <3> QED BY <2>1, <3>1
    <2>4. ASSUME NEW i \in 1..n PROVE u[i] = s[i]
      <3>1. i \in 1..Len(u) /\ i <= n
        BY <2>2
      <3> QED BY <2>1, <3>1
    <2> QED BY <2>2, <2>3, <2>4
  <1>2. ASSUME t # << >> PROVE First(t[1])
    <2>1. 1 \in 1..Len(t)
      BY <1>1, <1>2
    <2>2. u[n + 1] = t[1]
      BY <1>1, <2>1
    <2>3. CASE s = << >>
      <3>1. n = 0 /\ u # << >> /\ n + 1 = 1
        BY <1>1, <2>1, <2>3
      <3> QED BY <2>2, <3>1 DEF Framed
    <2>4. CASE s # << >>
      <3>1. n \in 1..n /\ n \in 1..(Len(u) - 1)
        BY <1>1, <2>1, <2>4
      <3>2. u[n] = s[n] /\ Last(s[n])
        BY <1>1, <2>4, <3>1 DEF Whole
      <3>3. Behind(u[n], u[n + 1])
        BY <3>1 DEF Framed
      <3> QED BY <2>2, <3>2, <3>3 DEF Behind
    <2> QED BY <2>3, <2>4
  <1>3. ASSUME NEW i \in 1..(Len(t) - 1) PROVE Behind(t[i], t[i + 1])
    <2>1. /\ n + i \in 1..(Len(u) - 1) /\ i \in 1..Len(t) /\ i + 1 \in 1..Len(t)
          /\ (n + i) + 1 = n + (i + 1)
      BY <1>1
    <2> QED BY <1>1, <2>1 DEF Framed
  <1> QED BY <1>2, <1>3 DEF Framed

LEMMA FramedJoin ==
    ASSUME NEW s \in Seq(Bytes), NEW t \in Seq(Bytes), Framed(s), Whole(s), Framed(t)
    PROVE  Framed(s \o t)
  <1> DEFINE n == Len(s)
             u == s \o t
  <1>1. /\ n \in Nat /\ Len(t) \in Nat /\ Len(u) = n + Len(t)
        /\ \A i \in 1..Len(u) : u[i] = IF i <= n THEN s[i] ELSE t[i - n]
    BY LenProperties, ConcatProperties
  <1> HIDE DEF u
  <1>2. ASSUME u # << >> PROVE First(u[1])
    <2>1. 1 \in 1..Len(u) /\ (n = 0 => t # << >> /\ s = << >> /\ 1 - n = 1)
      BY <1>1, <1>2 DEF u
    <2>2. CASE n = 0
      BY <1>1, <2>1, <2>2 DEF Framed
    <2>3. CASE n # 0
      <3>1. 1 <= n /\ s # << >>
        BY <1>1, <2>3
      <3> QED BY <1>1, <2>1, <3>1 DEF Framed
    <2> QED BY <2>2, <2>3
  <1>3. ASSUME NEW i \in 1..(Len(u) - 1) PROVE Behind(u[i], u[i + 1])
    <2>1. i \in 1..Len(u) /\ i + 1 \in 1..Len(u)
      BY <1>1
    <2>2. CASE i + 1 <= n
      <3>1. i \in 1..(n - 1) /\ i <= n
        BY <1>1, <2>1, <2>2
      <3> QED BY <1>1, <2>1, <2>2, <3>1 DEF Framed
    <2>3. CASE i = n
      <3>1. s # << >> /\ t # << >> /\ i <= n /\ ~(i + 1 <= n) /\ (i + 1) - n = 1
        BY <1>1, <2>1, <2>3
      <3>2. u[i] = s[n] /\ u[i + 1] = t[1]
        BY <1>1, <2>1, <2>3, <3>1
      <3> QED BY <3>1, <3>2 DEF Framed, Whole, Behind
    <2>4. CASE i > n
      <3>1. /\ i - n \in 1..(Len(t) - 1) /\ ~(i <= n) /\ ~(i + 1 <= n)
            /\ (i + 1) - n = (i - n) + 1
        BY <1>1, <2>1, <2>4
      <3>2. u[i] = t[i - n] /\ u[i + 1] = t[(i - n) + 1]
        BY <1>1, <2>1, <3>1
      <3> QED BY <3>1, <3>2 DEF Framed
    <2> QED BY <1>1, <2>1, <2>2, <2>3, <2>4
  <1> QED BY <1>2, <1>3 DEF Framed, u

LEMMA WholeJoin ==
    ASSUME NEW s \in Seq(Bytes), NEW t \in Seq(Bytes), Whole(s), Whole(t)
    PROVE  Whole(s \o t)
  <1>1. /\ Len(s) \in Nat /\ Len(t) \in Nat /\ Len(s \o t) = Len(s) + Len(t)
        /\ \A i \in 1..Len(s \o t) : (s \o t)[i] = IF i <= Len(s) THEN s[i] ELSE t[i - Len(s)]
    BY LenProperties, ConcatProperties
  <1>2. CASE t = << >>
    <2>1. s \o t = s
      BY <1>2, ConcatEmptySeq
    <2> QED BY <2>1
  <1>3. CASE t # << >>
    <2>1. /\ Len(s \o t) \in 1..Len(s \o t) /\ ~(Len(s \o t) <= Len(s))
          /\ Len(s \o t) - Len(s) = Len(t)
      BY <1>1, <1>3
    <2> QED BY <1>1, <1>3, <2>1 DEF Whole
  <1> QED BY <1>2, <1>3

LEMMA WholeRest ==
    ASSUME NEW s \in Seq(Bytes), NEW t \in Seq(Bytes), Whole(s \o t)
    PROVE  Whole(t)
  <1>1. /\ Len(s) \in Nat /\ Len(t) \in Nat /\ Len(s \o t) = Len(s) + Len(t)
        /\ \A i \in 1..Len(s \o t) : (s \o t)[i] = IF i <= Len(s) THEN s[i] ELSE t[i - Len(s)]
    BY LenProperties, ConcatProperties
  <1>2. CASE t # << >>
    <2>1. /\ Len(s \o t) \in 1..Len(s \o t) /\ ~(Len(s \o t) <= Len(s))
          /\ Len(s \o t) - Len(s) = Len(t) /\ s \o t # << >>
      BY <1>1, <1>2
    <2> QED BY <1>1, <1>2, <2>1 DEF Whole
  <1> QED BY <1>2 DEF Whole

LEMMA Cut ==
    ASSUME NEW s \in Seq(Bytes), NEW n \in Nat, n <= Len(s)
    PROVE  /\ SubSeq(s, 1, n) \in Seq(Bytes) /\ Len(SubSeq(s, 1, n)) = n
           /\ \A i \in 1..n : SubSeq(s, 1, n)[i] = s[i]
           /\ SubSeq(s, n + 1, Len(s)) \in Seq(Bytes)
           /\ Len(SubSeq(s, n + 1, Len(s))) = Len(s) - n
           /\ s = SubSeq(s, 1, n) \o SubSeq(s, n + 1, Len(s))
  <1>1. Len(s) \in Nat /\ \A i \in 1..Len(s) : s[i] \in Bytes
    BY LenProperties, ElementOfSeq
  <1>2. \A i \in 1..n : s[i] \in Bytes
    BY <1>1
  <1>3. \A i \in (n + 1)..Len(s) : s[i] \in Bytes
    BY <1>1
  <1>4. /\ SubSeq(s, 1, n) \in Seq(Bytes)
        /\ Len(SubSeq(s, 1, n)) = IF 1 <= n THEN n - 1 + 1 ELSE 0
        /\ \A i \in 1..(n - 1 + 1) : SubSeq(s, 1, n)[i] = s[1 + i - 1]
    BY <1>2, SubSeqProperties
  <1>5. /\ SubSeq(s, n + 1, Len(s)) \in Seq(Bytes)
        /\ Len(SubSeq(s, n + 1, Len(s))) = IF n + 1 <= Len(s) THEN Len(s) - (n + 1) + 1 ELSE 0
    BY <1>1, <1>3, SubSeqProperties
  <1>6. ASSUME NEW i \in 1..n PROVE SubSeq(s, 1, n)[i] = s[i]
    <2>1. i \in 1..(n - 1 + 1) /\ 1 + i - 1 = i
      OBVIOUS
    <2> QED BY <1>4, <2>1
  <1>7. Len(SubSeq(s, 1, n)) = n /\ Len(SubSeq(s, n + 1, Len(s))) = Len(s) - n
    BY <1>1, <1>4, <1>5
  <1>8. s = SubSeq(s, 1, n) \o SubSeq(s, n + 1, Len(s))
    <2>1. 1 \in 1..(Len(s) + 1) /\ Len(s) \in n..Len(s) /\ n \in (1 - 1)..Len(s)
      BY <1>1
    <2>2. SubSeq(s, 1, Len(s)) = s
      BY SubSeqFull
    <2>3. SubSeq(s, 1, n) \o SubSeq(s, n + 1, Len(s)) = SubSeq(s, 1, Len(s))
      BY <2>1, ConcatAdjacentSubSeq
    <2> QED BY <2>2, <2>3
  <1> QED BY <1>4, <1>5, <1>6, <1>7, <1>8

\* The first frame of a stream, and the rest of it.
LEMMA FirstFrame ==
    ASSUME NEW b \in Seq(Bytes), Framed(b), Len(b) >= HeaderSize, Len(b) >= FrameSize(b[1][1])
    PROVE  \E front \in Seq(Bytes) :
              /\ b = front \o Rest(b)
              /\ front # << >> /\ Whole(front)
              /\ PacketsIn[front] = <<b[1][1]>>
              /\ Framed(Rest(b))
  <1> DEFINE p == b[1][1]
             k == FrameSize(p)
             front == SubSeq(b, 1, k)
  <1>1. /\ b # << >> /\ p \in Packets /\ k \in Nat \ {0} /\ Rest(b) \in Seq(Bytes)
        /\ Len(b) \in Nat /\ k <= Len(b)
    BY RestShorter, LenProperties
  <1>2. \A i \in 1..Len(b) : i <= k => b[i] = <<p, i>>
    BY <1>1, FrontFrame
  <1>3. Rest(b) = SubSeq(b, k + 1, Len(b))
    BY DEF Rest
  <1> HIDE DEF k, p
  <1>4. /\ front \in Seq(Bytes) /\ Len(front) = k /\ \A i \in 1..k : front[i] = b[i]
        /\ b = front \o Rest(b)
    BY <1>1, <1>3, Cut
  <1> HIDE DEF front
  <1>5. \A i \in 1..Len(front) : front[i] = <<p, i>>
    <2>1. \A i \in 1..k : i \in 1..Len(b) /\ i <= k
      BY <1>1
    <2> QED BY <1>2, <1>4, <2>1
  <1>6. PacketsIn[front] = <<p>>
    BY <1>1, <1>4, <1>5, CountFrame DEF k
  <1>7. Whole(front) /\ front # << >>
    <2> DEFINE d == <<p, k>>
    <2>1. d[1] = p /\ d[2] = k
      OBVIOUS
    <2> HIDE DEF d
    <2>2. k \in 1..Len(front)
      BY <1>1, <1>4
    <2>3. front[k] = d
      BY <1>5, <2>2 DEF d
    <2>4. front # << >>
      BY <1>1, <1>4
    <2> QED BY <1>4, <2>1, <2>3, <2>4 DEF Whole, Last, k
  <1>8. Framed(Rest(b))
    BY <1>1, <1>4, <1>7, FramedRest
  <1> QED BY <1>4, <1>6, <1>7, <1>8 DEF p

(***************************************************************************)
(* What ScanPackets does with a stream of frames                           *)
(***************************************************************************)

NoGarbage(ps) == \A i \in 1..Len(ps) : ~Garbage(ps[i])
AllAcceptable(b) == \A i \in 1..Len(b) : Acceptable(b[i][1])

\* ps are the packets of the whole frames u, a last one that cannot be parsed
\* left out.
PacketsOf(u, ps) ==
    \/ PacketsIn[u] = ps
    \/ \E g \in Packets : Garbage(g) /\ PacketsIn[u] = ps \o <<g>>

\* The result of the scan: the buffer b is split into used frames, whose packets
\* are handled, and what is left.
ScanGood(b, r) ==
    /\ r.buf \in Seq(Bytes) /\ Len(r.buf) <= Len(b)
    /\ r.ok \in BOOLEAN
    /\ r.packets \in Seq(Packets) /\ NoGarbage(r.packets)
    /\ r.ok => \E u \in Seq(Bytes) : b = u \o r.buf /\ Whole(u) /\ PacketsOf(u, r.packets)
    /\ AllAcceptable(b) /\ Len(b) <= RecvBufSize => r.ok /\ Len(r.buf) < RecvBufSize

\* Nothing is taken out.
LEMMA ScanKeeps ==
    ASSUME NEW b \in Seq(Bytes),
           AllAcceptable(b) /\ Len(b) <= RecvBufSize => Len(b) < RecvBufSize
    PROVE  ScanGood(b, Scanned(b, << >>, TRUE))
  <1>1. << >> \in Seq(Packets) /\ NoGarbage(<< >>) /\ << >> \in Seq(Bytes)
    BY DEF NoGarbage
  <1>2. b = << >> \o b /\ Whole(<< >>) /\ PacketsOf(<< >>, << >>)
    <2>1. b = << >> \o b
      BY ConcatEmptySeq
    <2>2. Whole(<< >>)
      BY DEF Whole
    <2>3. PacketsOf(<< >>, << >>)
      BY CountEmpty DEF PacketsOf
    <2> QED BY <2>1, <2>2, <2>3
  <1>3. Len(b) \in Nat
    BY LenProperties
  <1> DEFINE r == Scanned(b, << >>, TRUE)
  <1>4. r.buf = b /\ r.packets = << >> /\ r.ok = TRUE
    BY DEF Scanned
  <1> HIDE DEF r
  <1>5. \E u \in Seq(Bytes) : b = u \o r.buf /\ Whole(u) /\ PacketsOf(u, r.packets)
    <2>1. b = << >> \o r.buf
      BY <1>2, <1>4
    <2>2. PacketsOf(<< >>, r.packets)
      BY <1>2, <1>4
    <2>3. << >> \in Seq(Bytes) /\ Whole(<< >>)
      BY <1>1, <1>2
    <2> QED BY <2>1, <2>2, <2>3
  <1>6. Len(r.buf) <= Len(b)
    BY <1>3, <1>4
  <1> QED BY <1>1, <1>4, <1>5, <1>6 DEF ScanGood, r

\* The session is closed.
LEMMA ScanCloses ==
    ASSUME NEW b \in Seq(Bytes), NEW rest \in Seq(Bytes), Len(rest) <= Len(b),
           ~(AllAcceptable(b) /\ Len(b) <= RecvBufSize)
    PROVE  ScanGood(b, Scanned(rest, << >>, FALSE))
  <1> DEFINE r == Scanned(rest, << >>, FALSE)
  <1>1. r.buf = rest /\ r.packets = << >> /\ r.ok = FALSE
    BY DEF Scanned
  <1>2. << >> \in Seq(Packets) /\ NoGarbage(<< >>)
    BY DEF NoGarbage
  <1> HIDE DEF r
  <1> QED BY <1>1, <1>2 DEF ScanGood, r

\* A frame that cannot be parsed is taken out.
LEMMA ScanSkips ==
    ASSUME NEW b \in Seq(Bytes), Framed(b), Len(b) >= HeaderSize,
           Len(b) >= FrameSize(b[1][1]), Garbage(b[1][1])
    PROVE  ScanGood(b, Scanned(Rest(b), << >>, TRUE))
  <1> DEFINE p == b[1][1]
             r == Scanned(Rest(b), << >>, TRUE)
  <1>1. /\ p \in Packets /\ Rest(b) \in Seq(Bytes) /\ Len(b) \in Nat
        /\ Len(Rest(b)) \in Nat /\ Len(Rest(b)) < Len(b)
    BY RestShorter, LenProperties
  <1>2. PICK front \in Seq(Bytes) :
           b = front \o Rest(b) /\ Whole(front) /\ PacketsIn[front] = <<p>>
    BY FirstFrame
  <1>3. r.buf = Rest(b) /\ r.packets = << >> /\ r.ok = TRUE
    BY DEF Scanned
  <1>4. << >> \in Seq(Packets) /\ NoGarbage(<< >>)
    BY DEF NoGarbage
  <1> HIDE DEF r, p
  <1>5. PacketsOf(front, << >>)
    <2>1. << >> \o <<p>> = <<p>>
      OBVIOUS
    <2>2. Garbage(p)
      BY DEF p
    <2> QED BY <1>1, <1>2, <2>1, <2>2 DEF PacketsOf
  <1>6. \E u \in Seq(Bytes) : b = u \o r.buf /\ Whole(u) /\ PacketsOf(u, r.packets)
    BY <1>2, <1>3, <1>5
  <1>7. /\ r.buf \in Seq(Bytes) /\ Len(r.buf) <= Len(b)
        /\ Len(b) <= RecvBufSize => Len(r.buf) < RecvBufSize
    <2>1. RecvBufSize \in Nat
      BY ConnectionAssumption
    <2> QED BY <1>1, <1>3, <2>1
  <1> QED BY <1>3, <1>4, <1>6, <1>7 DEF ScanGood, r

\* A packet that can be parsed is taken out, and the scan goes on.
LEMMA ScanGoesOn ==
    ASSUME NEW b \in Seq(Bytes), Framed(b), Len(b) >= HeaderSize,
           Len(b) >= FrameSize(b[1][1]), ~Garbage(b[1][1]),
           NEW more, ScanGood(Rest(b), more)
    PROVE  ScanGood(b, Scanned(more.buf, <<b[1][1]>> \o more.packets, more.ok))
  <1> DEFINE p == b[1][1]
             ps == <<p>> \o more.packets
             r == Scanned(more.buf, ps, more.ok)
  <1>1. /\ p \in Packets /\ Rest(b) \in Seq(Bytes) /\ Len(b) \in Nat
        /\ Len(Rest(b)) \in Nat /\ Len(Rest(b)) = Len(b) - FrameSize(p)
        /\ FrameSize(p) \in Nat \ {0}
        /\ \A i \in 1..Len(Rest(b)) : Rest(b)[i] = b[FrameSize(p) + i]
    BY RestShorter, LenProperties
  <1>2. PICK front \in Seq(Bytes) :
           b = front \o Rest(b) /\ Whole(front) /\ PacketsIn[front] = <<p>>
    BY FirstFrame
  <1>3. r.buf = more.buf /\ r.packets = ps /\ r.ok = more.ok
    BY DEF Scanned
  <1>4. ~Garbage(p)
    OBVIOUS
  <1>5. <<p>> \in Seq(Packets) /\ Len(<<p>>) = 1 /\ <<p>>[1] = p
    BY <1>1
  <1>6. /\ more.buf \in Seq(Bytes) /\ Len(more.buf) <= Len(Rest(b)) /\ Len(more.buf) \in Nat
        /\ more.ok \in BOOLEAN
        /\ more.packets \in Seq(Packets) /\ NoGarbage(more.packets)
        /\ more.ok => \E u \in Seq(Bytes) :
              Rest(b) = u \o more.buf /\ Whole(u) /\ PacketsOf(u, more.packets)
        /\ AllAcceptable(Rest(b)) /\ Len(Rest(b)) <= RecvBufSize
              => more.ok /\ Len(more.buf) < RecvBufSize
    BY LenProperties DEF ScanGood
  <1> HIDE DEF r, p
  <1>7. ps \in Seq(Packets) /\ NoGarbage(ps)
    <2>1. /\ Len(more.packets) \in Nat /\ ps \in Seq(Packets)
          /\ Len(ps) = 1 + Len(more.packets)
          /\ \A i \in 1..(1 + Len(more.packets)) :
                ps[i] = IF i <= 1 THEN <<p>>[i] ELSE more.packets[i - 1]
      <3>1. /\ Len(more.packets) \in Nat /\ ps \in Seq(Packets)
            /\ Len(ps) = Len(<<p>>) + Len(more.packets)
            /\ \A i \in 1..(Len(<<p>>) + Len(more.packets)) :
                  ps[i] = IF i <= Len(<<p>>) THEN <<p>>[i] ELSE more.packets[i - Len(<<p>>)]
        BY <1>5, <1>6, ConcatProperties, LenProperties
      <3> HIDE DEF ps
      <3> QED BY <1>5, <3>1
    <2> HIDE DEF ps
    <2>2. ASSUME NEW i \in 1..Len(ps) PROVE ~Garbage(ps[i])
      <3>1. CASE i = 1
        <4>1. ps[i] = p
          BY <1>5, <2>1, <3>1
        <4> QED BY <1>4, <4>1
      <3>2. CASE i # 1
        <4>1. i - 1 \in 1..Len(more.packets) /\ ~(i <= 1) /\ i \in 1..(1 + Len(more.packets))
          BY <2>1, <3>2
        <4>2. ps[i] = more.packets[i - 1]
          BY <2>1, <4>1
        <4> QED BY <1>6, <4>1, <4>2 DEF NoGarbage
      <3> QED BY <3>1, <3>2
    <2> QED BY <2>1, <2>2 DEF NoGarbage
  <1>8. ASSUME more.ok
        PROVE  \E u \in Seq(Bytes) : b = u \o r.buf /\ Whole(u) /\ PacketsOf(u, r.packets)
    <2>1. PICK v \in Seq(Bytes) :
             Rest(b) = v \o more.buf /\ Whole(v) /\ PacketsOf(v, more.packets)
      BY <1>6, <1>8
    <2>2. front \o v \in Seq(Bytes)
      BY ConcatProperties
    <2>3. b = (front \o v) \o more.buf
      <3>1. (front \o v) \o more.buf = front \o (v \o more.buf)
        BY <1>6, BytesAssociate
      <3> QED BY <1>2, <2>1, <3>1
    <2>4. Whole(front \o v)
      BY <1>2, <2>1, WholeJoin
    <2>5. PacketsIn[front \o v] = <<p>> \o PacketsIn[v]
      BY <1>2, CountJoin
    <2>6. PacketsOf(front \o v, ps)
      <3>1. CASE PacketsIn[v] = more.packets
        BY <2>5, <3>1 DEF PacketsOf
      <3>2. CASE \E g \in Packets : Garbage(g) /\ PacketsIn[v] = more.packets \o <<g>>
        <4>1. PICK g \in Packets : Garbage(g) /\ PacketsIn[v] = more.packets \o <<g>>
          BY <3>2
        <4>2. <<g>> \in Seq(Packets)
          OBVIOUS
        <4>3. ps \o <<g>> = <<p>> \o (more.packets \o <<g>>)
          BY <1>5, <1>6, <4>2, PacketsAssociate
        <4>4. PacketsIn[front \o v] = ps \o <<g>>
          BY <2>5, <4>1, <4>3
        <4> QED BY <4>1, <4>4 DEF PacketsOf
      <3> QED BY <2>1, <3>1, <3>2 DEF PacketsOf
    <2> HIDE DEF ps
    <2>7. b = (front \o v) \o r.buf /\ PacketsOf(front \o v, r.packets)
      BY <1>3, <2>3, <2>6
    <2> QED BY <2>2, <2>4, <2>7
  <1>9. ASSUME AllAcceptable(b), Len(b) <= RecvBufSize
        PROVE  more.ok /\ Len(more.buf) < RecvBufSize
    <2>1. RecvBufSize \in Nat
      BY ConnectionAssumption
    <2>2. Len(Rest(b)) <= RecvBufSize
      BY <1>1, <1>9, <2>1
    <2>3. \A i \in 1..Len(Rest(b)) : FrameSize(p) + i \in 1..Len(b)
      BY <1>1
    <2>4. AllAcceptable(Rest(b))
      BY <1>1, <1>9, <2>3 DEF AllAcceptable
    <2> QED BY <1>6, <2>2, <2>4
  <1> HIDE DEF ps
  <1>10. Len(r.buf) <= Len(b)
    BY <1>1, <1>3, <1>6
  <1>11. ScanGood(b, r)
    BY <1>3, <1>6, <1>7, <1>8, <1>9, <1>10 DEF ScanGood
  <1> QED BY <1>11 DEF r, ps, p

LEMMA ScanIsGood ==
    ASSUME NEW s \in Seq(Bytes), Framed(s)
    PROVE  ScanGood(s, ScanPackets[s])
  <1> DEFINE bad == {b \in Seq(Bytes) : Framed(b) /\ ~ScanGood(b, ScanPackets[b])}
             I == {Len(b) : b \in bad}
  <1> SUFFICES ASSUME s \in bad PROVE FALSE
    OBVIOUS
  <1>1. I \subseteq Nat /\ I # {}
    <2>1. \A b \in bad : Len(b) \in Nat
      BY LenProperties
    <2> QED BY <2>1
  <1>2. PICK j \in I : \A i \in I : j <= i
    BY <1>1, LeastNumber
  <1>3. PICK b \in bad : j = Len(b)
    OBVIOUS
  <1>4. b \in Seq(Bytes) /\ Framed(b) /\ ~ScanGood(b, ScanPackets[b]) /\ Len(b) \in Nat
    BY LenProperties
  <1>5. \A c \in Seq(Bytes) : Framed(c) /\ Len(c) < Len(b) => ScanGood(c, ScanPackets[c])
    <2> SUFFICES ASSUME NEW c \in Seq(Bytes), Framed(c), Len(c) < Len(b), c \in bad
                 PROVE  FALSE
      OBVIOUS
    <2>1. Len(c) \in I /\ Len(c) \in Nat
      BY LenProperties
    <2> HIDE DEF I, bad
    <2> QED BY <1>2, <1>3, <1>4, <2>1
  <1> HIDE DEF bad, I
  <1> DEFINE p == b[1][1]
  <1>6. ScanPackets[b] = ScanBody(ScanPackets, b)
    BY <1>4, ScanUnfolds
  <1>7. /\ HeaderSize \in Nat \ {0} /\ MaxPacketSize \in Nat \ {0}
        /\ RecvBufSize \in Nat /\ RecvBufSize >= MaxPacketSize + HeaderSize
    BY ConnectionAssumption
  <1>8. CASE Len(b) < HeaderSize
    <2>1. ScanPackets[b] = Scanned(b, << >>, TRUE)
      BY <1>6, <1>8 DEF ScanBody
    <2>2. Len(b) < RecvBufSize
      BY <1>4, <1>7, <1>8
    <2> QED BY <1>4, <2>1, <2>2, ScanKeeps
  <1>9. CASE ~(Len(b) < HeaderSize)
    <2>1. Len(b) >= HeaderSize /\ b # << >> /\ 1 \in 1..Len(b)
      BY <1>4, <1>7, <1>9
    <2>2. p \in Packets
      BY <1>4, <2>1, ElementOfSeq, ByteParts
    <2>3. FrameSize(p) \in Nat /\ FrameSize(p) = HeaderSize + BodySize(p) /\ BodySize(p) \in Nat
      BY <2>2, ConnectionAssumption DEF FrameSize
    <2>4. StartsWith(b, p)
      <3>1. \A i \in 1..Len(b) : i <= FrameSize(p) => b[i] = <<p, i>>
        BY <1>4, <2>1, FrontFrame
      <3>2. \A i \in 1..HeaderSize : i \in 1..Len(b) /\ i <= FrameSize(p)
        BY <1>4, <1>7, <2>1, <2>3
      <3> HIDE DEF p
      <3> QED BY <3>1, <3>2 DEF StartsWith
    <2>5. CASE BadHeader(b)
      <3>1. ScanPackets[b] = Scanned(<< >>, << >>, FALSE)
        BY <1>6, <1>9, <2>5 DEF ScanBody
      <3>2. ~Acceptable(p)
        BY <2>3, <2>4, <2>5, <1>7 DEF BadHeader, Acceptable
      <3>3. ~AllAcceptable(b)
        BY <2>1, <3>2 DEF AllAcceptable
      <3>4. << >> \in Seq(Bytes) /\ Len(<< >>) <= Len(b)
        BY <1>4
      <3> QED BY <1>4, <3>1, <3>3, <3>4, ScanCloses
    <2>6. CASE ~BadHeader(b) /\ Len(b) < FrameSize(p)
      <3>1. ScanPackets[b] = Scanned(b, << >>, TRUE)
        BY <1>6, <1>9, <2>6 DEF ScanBody
      <3>2. BodySize(p) <= MaxPacketSize
        BY <1>7, <2>3, <2>6 DEF BadHeader
      <3>3. Len(b) < RecvBufSize
        <4> HIDE DEF p
        <4> QED BY <1>4, <1>7, <2>3, <2>6, <3>2
      <3> QED BY <1>4, <3>1, <3>3, ScanKeeps
    <2>7. CASE ~BadHeader(b) /\ ~(Len(b) < FrameSize(p)) /\ Garbage(p)
      <3>1. ScanPackets[b] = Scanned(Rest(b), << >>, TRUE)
        BY <1>6, <1>9, <2>7 DEF ScanBody
      <3>2. Len(b) >= FrameSize(p)
        BY <1>4, <2>3, <2>7
      <3> QED BY <1>4, <2>1, <2>7, <3>1, <3>2, ScanSkips
    <2>8. CASE /\ ~BadHeader(b) /\ ~(Len(b) < FrameSize(p)) /\ ~Garbage(p)
               /\ Invalid(p)
      <3>1. ScanPackets[b] = Scanned(Rest(b), << >>, FALSE)
        BY <1>6, <1>9, <2>8 DEF ScanBody
      <3>2. Len(b) >= FrameSize(p)
        BY <1>4, <2>3, <2>8
      <3>3. Rest(b) \in Seq(Bytes) /\ Len(Rest(b)) <= Len(b)
        BY <1>4, <2>1, <3>2, RestShorter, LenProperties
      <3>4. ~AllAcceptable(b)
        BY <2>1, <2>8 DEF AllAcceptable, Acceptable
      <3> QED BY <1>4, <3>1, <3>3, <3>4, ScanCloses
    <2>9. CASE /\ ~BadHeader(b) /\ ~(Len(b) < FrameSize(p)) /\ ~Garbage(p)
               /\ ~Invalid(p)
      <3> DEFINE more == ScanPackets[Rest(b)]
      <3>1. ScanPackets[b] = Scanned(more.buf, <<p>> \o more.packets, more.ok)
        BY <1>6, <1>9, <2>9 DEF ScanBody
      <3>2. Len(b) >= FrameSize(p)
        BY <1>4, <2>3, <2>9
      <3>3. Rest(b) \in Seq(Bytes) /\ Len(Rest(b)) < Len(b)
        BY <1>4, <2>1, <3>2, RestShorter, LenProperties
      <3>4. Framed(Rest(b))
        BY <1>4, <2>1, <3>2, FirstFrame
      <3>5. ScanGood(Rest(b), more)
        BY <1>5, <3>3, <3>4
      <3> HIDE DEF more
      <3>6. ScanGood(b, Scanned(more.buf, <<p>> \o more.packets, more.ok))
        BY <1>4, <2>1, <2>9, <3>2, <3>5, ScanGoesOn
      <3> QED BY <1>4, <3>1, <3>6
    <2> QED BY <2>5, <2>6, <2>7, <2>8, <2>9
  <1> QED BY <1>8, <1>9

(***************************************************************************)
(* The sender's buffers                                                    *)
(***************************************************************************)

OutBuffer == [buf : Seq(Bytes), unsent : Seq(Bytes),
              writing : BOOLEAN, closing : BOOLEAN, open : BOOLEAN]

\* What was written is gone when no write is in progress.
NothingUnsent(o) == ~o.writing => o.unsent = << >>

LEMMA FrameIsFramed ==
    ASSUME NEW p \in Packets, FrameSize(p) <= MaxSendBufSize
    PROVE  /\ Frame(p) \in Seq(Bytes) /\ Frame(p) # << >>
           /\ Len(Frame(p)) = FrameSize(p)
           /\ Framed(Frame(p)) /\ Whole(Frame(p))
           /\ PacketsIn[Frame(p)] = <<p>>
  <1> DEFINE k == FrameSize(p)
             f == Frame(p)
  <1>1. k \in Nat \ {0} /\ k <= MaxSendBufSize /\ MaxSendBufSize \in Nat /\ HeaderSize \in Nat
    BY FrameSizePositive, ConnectionAssumption
  <1>2. f = [i \in 1..k |-> <<p, i>>]
    BY DEF Frame
  <1> HIDE DEF k, f
  <1>3. \A i \in 1..k : <<p, i>> \in Bytes
    <2>1. \A i \in 1..k : i \in 1..(HeaderSize + MaxSendBufSize)
      BY <1>1
    <2> QED BY <2>1 DEF Bytes
  <1>4. f \in [1..k -> Bytes]
    BY <1>2, <1>3
  <1>5. f \in Seq(Bytes) /\ Len(f) = k
    BY <1>1, <1>4
  <1>6. \A i \in 1..k : f[i] = <<p, i>>
    BY <1>2
  <1>7. \A i \in 1..k : f[i][1] = p /\ f[i][2] = i
    <2> SUFFICES ASSUME NEW i \in 1..k PROVE f[i][1] = p /\ f[i][2] = i
      OBVIOUS
    <2> DEFINE d == <<p, i>>
    <2>1. d[1] = p /\ d[2] = i
      OBVIOUS
    <2>2. f[i] = d
      BY <1>6
    <2> HIDE DEF d
    <2> QED BY <2>1, <2>2
  <1>8. 1 \in 1..k /\ k \in 1..k
    BY <1>1
  <1>9. f # << >>
    BY <1>1, <1>5
  <1>10. Whole(f)
    BY <1>5, <1>7, <1>8 DEF Whole, Last, k
  <1>11. Framed(f)
    <2>1. First(f[1])
      BY <1>7, <1>8 DEF First
    <2>2. ASSUME NEW i \in 1..(Len(f) - 1) PROVE Behind(f[i], f[i + 1])
      <3>1. i \in 1..k /\ i + 1 \in 1..k /\ i # k
        BY <1>1, <1>5
      <3>2. f[i][1] = p /\ f[i][2] = i /\ f[i + 1][1] = p /\ f[i + 1][2] = i + 1
        BY <1>7, <3>1
      <3>3. ~Last(f[i])
        BY <3>1, <3>2 DEF Last, k
      <3> QED BY <3>2, <3>3 DEF Behind
    <2> QED BY <2>1, <2>2 DEF Framed
  <1>12. PacketsIn[f] = <<p>>
    BY <1>5, <1>6, CountFrame DEF k
  <1> QED BY <1>5, <1>9, <1>10, <1>11, <1>12 DEF f, k

\* The frame is stored at the end, or nothing changes.
LEMMA StoredPacket ==
    ASSUME NEW o \in OutBuffer, NEW p \in Packets, Len(o.buf) <= MaxSendBufSize
    PROVE  LET a == InternalStorePacket(o, p)
           IN \/ a = o
              \/ /\ a \in OutBuffer /\ FrameSize(p) <= MaxSendBufSize
                 /\ a.buf = o.buf \o Frame(p) /\ Len(a.buf) <= MaxSendBufSize
                 /\ a.unsent = o.unsent /\ a.writing = o.writing
                 /\ a.closing = o.closing /\ a.open = o.open
  <1> DEFINE a == InternalStorePacket(o, p)
  <1>1. CASE ~(Len(o.buf) + FrameSize(p) <= MaxSendBufSize)
    <2>1. a = o
      BY <1>1 DEF InternalStorePacket
    <2> QED BY <2>1
  <1>2. CASE Len(o.buf) + FrameSize(p) <= MaxSendBufSize
    <2>1. o.buf \in Seq(Bytes) /\ Len(o.buf) \in Nat
      BY LenProperties DEF OutBuffer
    <2>2. FrameSize(p) \in Nat /\ MaxSendBufSize \in Nat
      BY FrameSizePositive, ConnectionAssumption
    <2>3. FrameSize(p) <= MaxSendBufSize
      BY <1>2, <2>1, <2>2
    <2>4. Frame(p) \in Seq(Bytes) /\ Len(Frame(p)) = FrameSize(p)
      BY <2>3, FrameIsFramed
    <2> DEFINE b == o.buf \o Frame(p)
    <2>5. b \in Seq(Bytes) /\ Len(b) = Len(o.buf) + FrameSize(p)
      BY <2>1, <2>4, ConcatProperties
    <2>6. a = [o EXCEPT !.buf = b]
      BY <1>2 DEF InternalStorePacket
    <2> HIDE DEF b, a
    <2>7. a \in OutBuffer
      BY <2>5, <2>6 DEF OutBuffer
    <2>8. /\ a.buf = b /\ a.unsent = o.unsent /\ a.writing = o.writing
          /\ a.closing = o.closing /\ a.open = o.open
      BY <2>6 DEF OutBuffer
    <2>9. Len(a.buf) <= MaxSendBufSize
      BY <1>2, <2>5, <2>8
    <2>10. a.buf = o.buf \o Frame(p)
      BY <2>8 DEF b
    <2> QED BY <2>3, <2>7, <2>8, <2>9, <2>10 DEF a
  <1> QED BY <1>1, <1>2

\* Swapping the buffers leaves what is to be written, and the socket is closed
\* only when there is nothing.
LEMMA SentNext ==
    ASSUME NEW o \in OutBuffer, NothingUnsent(o)
    PROVE  LET a == AsyncSendNextPacket(o)
           IN /\ a \in OutBuffer /\ NothingUnsent(a)
              /\ a.unsent \o a.buf = o.unsent \o o.buf
              /\ a.buf = o.buf \/ a.buf = << >>
              /\ a.open # o.open => o.open /\ ~a.open /\ o.buf = << >> /\ o.unsent = << >>
  <1> DEFINE a == AsyncSendNextPacket(o)
  <1>1. /\ o.buf \in Seq(Bytes) /\ o.unsent \in Seq(Bytes)
        /\ o.writing \in BOOLEAN /\ o.closing \in BOOLEAN /\ o.open \in BOOLEAN
    BY DEF OutBuffer
  <1>2. CASE o.writing
    <2>1. a = o
      BY <1>2 DEF AsyncSendNextPacket
    <2> QED BY <2>1
  <1>3. CASE ~o.writing /\ o.buf # << >>
    <2>1. a = [o EXCEPT !.buf = << >>, !.unsent = o.buf, !.writing = TRUE]
      BY <1>3 DEF AsyncSendNextPacket
    <2> HIDE DEF a
    <2>2. << >> \in Seq(Bytes)
      OBVIOUS
    <2>3. a \in OutBuffer
      BY <1>1, <2>1, <2>2 DEF OutBuffer
    <2>4. a.buf = << >> /\ a.unsent = o.buf /\ a.writing = TRUE /\ a.open = o.open
      BY <2>1 DEF OutBuffer
    <2>5. o.unsent = << >>
      BY <1>3 DEF NothingUnsent
    <2>6. o.buf \o << >> = o.buf /\ << >> \o o.buf = o.buf
      BY <1>1, ConcatEmptySeq
    <2>7. a.unsent \o a.buf = o.unsent \o o.buf
      BY <2>4, <2>5, <2>6
    <2> QED BY <2>3, <2>4, <2>7 DEF NothingUnsent, a
  <1>4. CASE ~o.writing /\ o.buf = << >> /\ o.closing
    <2>1. a = [o EXCEPT !.closing = FALSE, !.open = FALSE]
      BY <1>4 DEF AsyncSendNextPacket
    <2> HIDE DEF a
    <2>2. a \in OutBuffer
      BY <1>1, <2>1 DEF OutBuffer
    <2>3. a.buf = o.buf /\ a.unsent = o.unsent /\ a.writing = o.writing /\ a.open = FALSE
      BY <2>1 DEF OutBuffer
    <2>4. o.unsent = << >>
      BY <1>4 DEF NothingUnsent
    <2> QED BY <1>1, <1>4, <2>2, <2>3, <2>4 DEF NothingUnsent, a
  <1>5. CASE ~o.writing /\ o.buf = << >> /\ ~o.closing
    <2>1. a = o
      BY <1>5 DEF AsyncSendNextPacket
    <2> QED BY <2>1
  <1> QED BY <1>2, <1>3, <1>4, <1>5

(***************************************************************************)
(* The inductive invariant                                                 *)
(***************************************************************************)

\* The bytes of the sender that may still get on their way.
OutPart(o, u) == IF u /\ o.open THEN o.unsent \o o.buf ELSE << >>

\* As long as the receiver reads, it has whole frames before it, of which only
\* the last may be cut, and it is cut only when the sender is gone.
StreamInv ==
    /\ session => Framed(Stream) /\ Len(PacketsIn[Stream]) <= sends
    /\ session /\ up /\ out.open => Whole(Stream)

ConnInv ==
    /\ TypeOK
    /\ out \in OutBuffer /\ NothingUnsent(out)
    /\ StreamInv

LEMMA StreamParts ==
    ASSUME TypeOK, out \in OutBuffer
    PROVE  /\ OutPart(out, up) \in Seq(Bytes)
           /\ recvBuf \o wire \in Seq(Bytes)
           /\ Stream \in Seq(Bytes)
           /\ Stream = (recvBuf \o wire) \o OutPart(out, up)
  <1>1. out.unsent \o out.buf \in Seq(Bytes) /\ << >> \in Seq(Bytes)
    BY ConcatProperties DEF OutBuffer
  <1>2. OutPart(out, up) \in Seq(Bytes)
    BY <1>1 DEF OutPart
  <1>3. recvBuf \o wire \in Seq(Bytes)
    BY ConcatProperties DEF TypeOK
  <1>4. Stream = (recvBuf \o wire) \o OutPart(out, up)
    BY DEF Stream, OutPart
  <1>5. (recvBuf \o wire) \o OutPart(out, up) \in Seq(Bytes)
    BY <1>2, <1>3, ConcatProperties
  <1> QED BY <1>2, <1>3, <1>4, <1>5

\* What the connection is as a channel.
Queue == IF session THEN PacketsIn[Stream] ELSE << >>
Phase == IF ~session THEN "down"
         ELSE IF ~up THEN "broken"
         ELSE IF ~out.open THEN "closed" ELSE "open"
ChannelStep == [Channel!ChannelNext]_(Channel!channel)

LEMMA ChannelStutters ==
    ASSUME Queue' = Queue, Phase' = Phase, delivered' = delivered
    PROVE  ChannelStep
  BY DEF ChannelStep, Channel!channel, Queue, Phase

LEMMA ChannelTakes ==
    ASSUME NEW p \in Packets, Phase = "open", Queue' = Append(Queue, p),
           Phase' = Phase, delivered' = delivered
    PROVE  ChannelStep
  <1>1. Channel!Take(p)
    BY DEF Channel!Take, Queue, Phase
  <1> QED BY <1>1 DEF ChannelStep, Channel!ChannelNext

LEMMA ChannelCloses ==
    ASSUME Phase = "open", Phase' = "closed", Queue' = Queue, delivered' = delivered
    PROVE  ChannelStep
  <1>1. Channel!Close
    BY DEF Channel!Close, Queue, Phase
  <1> QED BY <1>1 DEF ChannelStep, Channel!ChannelNext

LEMMA ChannelDown ==
    ASSUME session, ~session', delivered' = delivered
    PROVE  ChannelStep
  <1>1. Channel!Down
    BY DEF Channel!Down
  <1> QED BY <1>1 DEF ChannelStep, Channel!ChannelNext

LEMMA ChannelBreaks ==
    ASSUME session, NEW n \in 0..MaxSends, n <= Len(Queue), Queue' = SubSeq(Queue, 1, n),
           Phase' = "broken", delivered' = delivered
    PROVE  ChannelStep
  <1>1. Channel!Break(n)
    BY DEF Channel!Break, Queue, Phase
  <1> QED BY <1>1 DEF ChannelStep, Channel!ChannelNext

LEMMA ChannelDelivers ==
    ASSUME session, NEW n \in 0..MaxSends, NEW skipped \in {0, 1},
           n + skipped <= Len(Queue), \A i \in 1..n : ~Garbage(Queue[i]),
           skipped = 1 => Garbage(Queue[n + 1]),
           delivered' = delivered \o SubSeq(Queue, 1, n),
           \/ Queue' = SubSeq(Queue, n + skipped + 1, Len(Queue)) /\ Phase' = Phase
           \/ Queue' = << >> /\ Phase' = "down"
    PROVE  ChannelStep
  <1>1. Channel!Deliver(n, skipped)
    BY DEF Channel!Deliver, Queue, Phase
  <1> QED BY <1>1 DEF ChannelStep, Channel!ChannelNext

LEMMA InitInv == Init => ConnInv
  <1> SUFFICES ASSUME Init PROVE ConnInv
    OBVIOUS
  <1>1. << >> \in Seq(Bytes) /\ << >> \in Seq(Packets) /\ Len(<< >>) = 0
    OBVIOUS
  <1>2. out \in OutBuffer /\ NothingUnsent(out)
    BY <1>1 DEF Init, OutBuffer, NothingUnsent
  <1>3. TypeOK
    BY <1>1, ConnectionAssumption DEF Init, TypeOK
  <1>4. Stream = << >>
    BY DEF Init, Stream
  <1>5. Framed(<< >>) /\ Whole(<< >>)
    BY DEF Framed, Whole
  <1>6. StreamInv
    BY <1>1, <1>3, <1>4, <1>5, CountEmpty DEF StreamInv, TypeOK
  <1> QED BY <1>2, <1>3, <1>6 DEF ConnInv

\* A step that leaves the bytes alone.
LEMMA SameStream ==
    ASSUME ConnInv, TypeOK', (out \in OutBuffer)', NothingUnsent(out'),
           Stream' = Stream, session' = session, up' = up, delivered' = delivered,
           sends' >= sends, out'.open => out.open
    PROVE  /\ ConnInv'
           /\ out'.open = out.open \/ ~session \/ ~up => ChannelStep
           /\ out.open /\ ~out'.open => ChannelStep
  <1>1. StreamInv'
    <2>1. sends \in Nat /\ sends' \in Nat
      BY ConnectionAssumption DEF ConnInv, TypeOK
    <2>2. session => Len(PacketsIn[Stream]) \in Nat
      BY StreamParts, CountType, LenProperties DEF ConnInv
    <2> QED BY <2>1, <2>2 DEF ConnInv, StreamInv
  <1>2. ConnInv'
    BY <1>1 DEF ConnInv
  <1>3. Queue' = Queue
    BY DEF Queue
  <1>4. ASSUME out'.open = out.open \/ ~session \/ ~up PROVE ChannelStep
    <2>1. Phase' = Phase
      BY <1>4 DEF Phase
    <2> QED BY <1>3, <2>1, ChannelStutters
  <1>5. ASSUME out.open, ~out'.open PROVE ChannelStep
    <2>1. CASE ~session \/ ~up
      BY <1>4, <2>1
    <2>2. CASE session /\ up
      <3>1. Phase = "open" /\ Phase' = "closed"
        BY <1>5, <2>2 DEF Phase
      <3> QED BY <1>3, <3>1, ChannelCloses
    <2> QED BY <2>1, <2>2
  <1> QED BY <1>2, <1>4, <1>5

(***************************************************************************)
(* The steps of the sender                                                 *)
(***************************************************************************)

\* The sender's buffer, when only it changes.
LEMMA TypeOfOut ==
    ASSUME TypeOK, (out \in OutBuffer)', Len(out'.buf) <= MaxSendBufSize, sends' \in 0..MaxSends,
           wire' \in Seq(Bytes), UNCHANGED <<up, recvBuf, session, delivered>>
    PROVE  TypeOK'
  BY DEF TypeOK, OutBuffer

\* The sender goes on with its next write.
LEMMA OutMovesOn ==
    ASSUME ConnInv, UNCHANGED <<wire, up, recvBuf, session, delivered, sends>>,
           out' \in OutBuffer, NothingUnsent(out'),
           out'.unsent \o out'.buf = out.unsent \o out.buf,
           out'.buf = out.buf \/ out'.buf = << >>,
           out'.open # out.open =>
              out.open /\ ~out'.open /\ out.buf = << >> /\ out.unsent = << >>
    PROVE  ConnInv' /\ ChannelStep
  <1>1. TypeOK /\ out \in OutBuffer
    BY DEF ConnInv
  <1>2. Len(<< >>) <= MaxSendBufSize /\ sends \in Nat
    BY <1>1, ConnectionAssumption DEF TypeOK
  <1>3. TypeOK'
    <2>1. Len(out'.buf) <= MaxSendBufSize /\ sends' \in 0..MaxSends /\ wire' \in Seq(Bytes)
      BY <1>1, <1>2 DEF TypeOK
    <2> QED BY <1>1, <2>1, TypeOfOut
  <1>4. out.open \in BOOLEAN /\ out'.open \in BOOLEAN
    BY <1>1 DEF OutBuffer
  <1>5. Stream' = Stream
    <2>1. CASE out'.open = out.open
      BY <2>1 DEF Stream
    <2>2. CASE out'.open # out.open
      <3>1. << >> \o << >> = << >>
        OBVIOUS
      <3> QED BY <2>2, <3>1 DEF Stream
    <2> QED BY <2>1, <2>2
  <1>6. sends' >= sends /\ (out'.open => out.open)
    BY <1>2
  <1> QED BY <1>3, <1>4, <1>5, <1>6, SameStream

LEMMA SetCloseAfterSendStep ==
    ASSUME ConnInv, SetCloseAfterSend
    PROVE  ConnInv' /\ ChannelStep
  <1> DEFINE o == [out EXCEPT !.closing = TRUE]
  <1>1. /\ out' = AsyncSendNextPacket(o)
        /\ UNCHANGED <<wire, up, recvBuf, session, delivered, sends>>
    BY DEF SetCloseAfterSend
  <1>2. out \in OutBuffer /\ TypeOK /\ NothingUnsent(out)
    BY DEF ConnInv
  <1>3. o \in OutBuffer
    BY <1>2 DEF OutBuffer
  <1>4. o.buf = out.buf /\ o.unsent = out.unsent /\ o.writing = out.writing /\ o.open = out.open
    BY <1>2 DEF OutBuffer
  <1>5. NothingUnsent(o)
    BY <1>2, <1>4 DEF NothingUnsent
  <1> HIDE DEF o
  <1>6. /\ out' \in OutBuffer /\ NothingUnsent(out')
        /\ out'.unsent \o out'.buf = out.unsent \o out.buf
        /\ out'.buf = out.buf \/ out'.buf = << >>
        /\ out'.open # out.open =>
              out.open /\ ~out'.open /\ out.buf = << >> /\ out.unsent = << >>
    BY <1>1, <1>3, <1>4, <1>5, SentNext
  <1> QED BY <1>1, <1>2, <1>6, OutMovesOn

LEMMA HandleWriteStep ==
    ASSUME ConnInv, HandleWrite
    PROVE  ConnInv' /\ ChannelStep
  <1> DEFINE o == [out EXCEPT !.writing = FALSE]
  <1>1. /\ out.unsent = << >> /\ out' = AsyncSendNextPacket(o)
        /\ UNCHANGED <<wire, up, recvBuf, session, delivered, sends>>
    BY DEF HandleWrite
  <1>2. out \in OutBuffer /\ TypeOK
    BY DEF ConnInv
  <1>3. o \in OutBuffer
    BY <1>2 DEF OutBuffer
  <1>4. o.buf = out.buf /\ o.unsent = out.unsent /\ o.open = out.open
    BY <1>2 DEF OutBuffer
  <1>5. NothingUnsent(o)
    BY <1>1, <1>4 DEF NothingUnsent
  <1> HIDE DEF o
  <1>6. /\ out' \in OutBuffer /\ NothingUnsent(out')
        /\ out'.unsent \o out'.buf = out.unsent \o out.buf
        /\ out'.buf = out.buf \/ out'.buf = << >>
        /\ out'.open # out.open =>
              out.open /\ ~out'.open /\ out.buf = << >> /\ out.unsent = << >>
    BY <1>1, <1>3, <1>4, <1>5, SentNext
  <1> QED BY <1>1, <1>2, <1>6, OutMovesOn

LEMMA HandleWriteErrorStep ==
    ASSUME ConnInv, HandleWriteError
    PROVE  ConnInv' /\ ChannelStep
  <1>1. /\ ~up \/ ~out.open \/ ~session
        /\ out' = [out EXCEPT !.writing = FALSE, !.unsent = << >>, !.open = FALSE]
        /\ UNCHANGED <<wire, up, recvBuf, session, delivered, sends>>
    BY DEF HandleWriteError
  <1>2. out \in OutBuffer /\ TypeOK
    BY DEF ConnInv
  <1>3. out' \in OutBuffer
    <2>1. << >> \in Seq(Bytes)
      OBVIOUS
    <2> QED BY <1>1, <1>2, <2>1 DEF OutBuffer
  <1>4. out'.buf = out.buf /\ out'.unsent = << >> /\ out'.open = FALSE
    BY <1>1, <1>2 DEF OutBuffer
  <1>5. NothingUnsent(out')
    BY <1>4 DEF NothingUnsent
  <1>6. Len(out'.buf) <= MaxSendBufSize /\ sends' \in 0..MaxSends
        /\ wire' \in Seq(Bytes)
    BY <1>1, <1>2, <1>4 DEF TypeOK
  <1>7. TypeOK'
    BY <1>1, <1>2, <1>3, <1>6, TypeOfOut
  <1>8. CASE ~session
    <2>1. ConnInv'
      BY <1>1, <1>3, <1>5, <1>7, <1>8 DEF ConnInv, StreamInv
    <2>2. Queue' = Queue /\ Phase' = Phase /\ delivered' = delivered
      BY <1>1, <1>8 DEF Queue, Phase
    <2> QED BY <2>1, <2>2, ChannelStutters
  <1>9. CASE session /\ (~up \/ ~out.open)
    <2>1. Stream' = Stream
      BY <1>1, <1>4, <1>9 DEF Stream
    <2>2. /\ session' = session /\ up' = up /\ delivered' = delivered /\ sends' >= sends
          /\ out'.open => out.open
          /\ out'.open = out.open \/ ~up
      <3>1. out.open \in BOOLEAN
        BY <1>2 DEF OutBuffer
      <3>2. sends \in Nat
        BY <1>2, ConnectionAssumption DEF TypeOK
      <3>3. sends' >= sends
        BY <1>1, <3>2
      <3> QED BY <1>1, <1>4, <1>9, <3>1, <3>3
    <2> QED BY <1>3, <1>5, <1>7, <2>1, <2>2, SameStream
  <1> QED BY <1>1, <1>8, <1>9

\* TCP takes bytes.
LEMMA TransmitStep ==
    ASSUME ConnInv, NEW n \in 1..MaxSendBufSize, Transmit(n)
    PROVE  ConnInv' /\ ChannelStep
  <1> DEFINE taken == SubSeq(out.unsent, 1, n)
             left == SubSeq(out.unsent, n + 1, Len(out.unsent))
  <1>1. /\ up /\ out.open /\ n \in 1..Len(out.unsent)
        /\ wire' = wire \o taken
        /\ out' = [out EXCEPT !.unsent = left]
        /\ UNCHANGED <<up, recvBuf, session, delivered, sends>>
    BY DEF Transmit
  <1>2. out \in OutBuffer /\ TypeOK /\ NothingUnsent(out)
    BY DEF ConnInv
  <1>3. /\ out.unsent \in Seq(Bytes) /\ out.buf \in Seq(Bytes)
        /\ Len(out.unsent) \in Nat /\ n \in Nat /\ n <= Len(out.unsent)
        /\ out.unsent # << >>
    BY <1>1, <1>2, LenProperties DEF OutBuffer
  <1>4. taken \in Seq(Bytes) /\ left \in Seq(Bytes) /\ out.unsent = taken \o left
    BY <1>3, Cut
  <1> HIDE DEF taken, left
  <1>5. out' \in OutBuffer
    BY <1>1, <1>2, <1>4 DEF OutBuffer
  <1>6. /\ out'.buf = out.buf /\ out'.unsent = left /\ out'.open = out.open
        /\ out'.writing = out.writing
    BY <1>1, <1>2 DEF OutBuffer
  <1>7. NothingUnsent(out')
    BY <1>2, <1>3, <1>6 DEF NothingUnsent
  <1>8. TypeOK'
    <2>1. wire' \in Seq(Bytes)
      <3>1. wire \in Seq(Bytes)
        BY <1>2 DEF TypeOK
      <3>2. wire \o taken \in Seq(Bytes)
        BY <1>4, <3>1, ConcatProperties
      <3> QED BY <1>1, <3>2
    <2>2. Len(out'.buf) <= MaxSendBufSize /\ sends' \in 0..MaxSends
      BY <1>1, <1>2, <1>6 DEF TypeOK
    <2> QED BY <1>1, <1>2, <1>5, <2>1, <2>2, TypeOfOut
  <1>9. Stream' = Stream
    <2>1. Stream' = (recvBuf \o (wire \o taken)) \o (left \o out.buf)
      BY <1>1, <1>6 DEF Stream
    <2>2. Stream = (recvBuf \o wire) \o (out.unsent \o out.buf)
      BY <1>1 DEF Stream
    <2>3. recvBuf \in Seq(Bytes) /\ wire \in Seq(Bytes)
      BY <1>2 DEF TypeOK
    <2>4. (recvBuf \o wire) \in Seq(Bytes) /\ left \o out.buf \in Seq(Bytes)
      BY <1>3, <1>4, <2>3, ConcatProperties
    <2>5. recvBuf \o (wire \o taken) = (recvBuf \o wire) \o taken
      BY <1>4, <2>3, BytesAssociate
    <2>6. ((recvBuf \o wire) \o taken) \o (left \o out.buf)
             = (recvBuf \o wire) \o (taken \o (left \o out.buf))
      BY <1>4, <2>4, BytesAssociate
    <2>7. taken \o (left \o out.buf) = out.unsent \o out.buf
      <3>1. (taken \o left) \o out.buf = taken \o (left \o out.buf)
        BY <1>3, <1>4, BytesAssociate
      <3> QED BY <1>4, <3>1
    <2> QED BY <2>1, <2>2, <2>5, <2>6, <2>7
  <1>10. sends' >= sends
    BY <1>1, <1>2, ConnectionAssumption DEF TypeOK
  <1> QED BY <1>1, <1>5, <1>6, <1>7, <1>8, <1>9, <1>10, SameStream

\* A packet is sent.
LEMMA SendStep ==
    ASSUME ConnInv, NEW p \in Packets, Send(p)
    PROVE  ConnInv' /\ ChannelStep
  <1> DEFINE o == InternalStorePacket(out, p)
  <1>1. /\ sends < MaxSends /\ sends' = sends + 1
        /\ out' = AsyncSendNextPacket(o)
        /\ UNCHANGED <<wire, up, recvBuf, session, delivered>>
    BY DEF Send
  <1>2. out \in OutBuffer /\ TypeOK /\ NothingUnsent(out)
    BY DEF ConnInv
  <1>3. /\ Len(out.buf) <= MaxSendBufSize /\ sends \in Nat /\ MaxSends \in Nat
        /\ sends' \in 0..MaxSends /\ sends' >= sends
        /\ wire \in Seq(Bytes) /\ recvBuf \in Seq(Bytes)
        /\ up \in BOOLEAN /\ session \in BOOLEAN
    BY <1>1, <1>2, ConnectionAssumption DEF TypeOK
  <1>4. \/ o = out
        \/ /\ o \in OutBuffer /\ FrameSize(p) <= MaxSendBufSize
           /\ o.buf = out.buf \o Frame(p) /\ Len(o.buf) <= MaxSendBufSize
           /\ o.unsent = out.unsent /\ o.writing = out.writing
           /\ o.closing = out.closing /\ o.open = out.open
    BY <1>2, <1>3, StoredPacket
  <1> HIDE DEF o
  <1>5. o \in OutBuffer /\ NothingUnsent(o) /\ o.open = out.open /\ Len(o.buf) <= MaxSendBufSize
    BY <1>2, <1>3, <1>4 DEF NothingUnsent
  <1>6. /\ out' \in OutBuffer /\ NothingUnsent(out')
        /\ out'.unsent \o out'.buf = o.unsent \o o.buf
        /\ out'.buf = o.buf \/ out'.buf = << >>
        /\ out'.open # out.open =>
              out.open /\ ~out'.open /\ o.buf = << >> /\ o.unsent = << >>
    BY <1>1, <1>5, SentNext
  <1>7. TypeOK'
    <2>1. Len(<< >>) <= MaxSendBufSize
      BY ConnectionAssumption
    <2>2. Len(out'.buf) <= MaxSendBufSize /\ wire' \in Seq(Bytes)
      BY <1>1, <1>3, <1>5, <1>6, <2>1
    <2> QED BY <1>1, <1>2, <1>3, <1>6, <2>2, TypeOfOut
  <1>8. out.open \in BOOLEAN /\ out'.open \in BOOLEAN /\ (out'.open => out.open)
    BY <1>2, <1>6 DEF OutBuffer
  <1>9. CASE o = out
    <2>1. Stream' = Stream
      <3>1. CASE out'.open = out.open
        BY <1>1, <1>6, <1>9, <3>1 DEF Stream
      <3>2. CASE out'.open # out.open
        <4>1. << >> \o << >> = << >>
          OBVIOUS
        <4> QED BY <1>1, <1>6, <1>9, <3>2, <4>1 DEF Stream
      <3> QED BY <3>1, <3>2
    <2> QED BY <1>1, <1>3, <1>6, <1>7, <1>8, <2>1, SameStream
  <1>10. CASE o # out
    <2>1. /\ FrameSize(p) <= MaxSendBufSize
          /\ o.buf = out.buf \o Frame(p) /\ o.unsent = out.unsent
      BY <1>4, <1>10
    <2>2. /\ Frame(p) \in Seq(Bytes) /\ Frame(p) # << >>
          /\ Framed(Frame(p)) /\ Whole(Frame(p))
          /\ PacketsIn[Frame(p)] = <<p>>
      BY <2>1, FrameIsFramed
    <2>3. out.buf \in Seq(Bytes) /\ out.unsent \in Seq(Bytes)
      BY <1>2 DEF OutBuffer
    <2>4. out'.open = out.open
      <3>1. o.buf # << >>
        BY <2>1, <2>2, <2>3, ConcatEqualIffEmpty
      <3> QED BY <1>6, <3>1
    <2>5. CASE ~(session /\ up /\ out.open)
      <3>1. ~(up /\ out.open) => Stream' = Stream
        BY <1>1, <2>4 DEF Stream
      <3>2. CASE session
        BY <1>1, <1>3, <1>6, <1>7, <2>4, <2>5, <3>1, <3>2, SameStream
      <3>3. CASE ~session
        <4>1. ConnInv'
          BY <1>1, <1>6, <1>7, <3>3 DEF ConnInv, StreamInv
        <4>2. Queue' = Queue /\ Phase' = Phase /\ delivered' = delivered
          BY <1>1, <3>3 DEF Queue, Phase
        <4> QED BY <4>1, <4>2, ChannelStutters
      <3> QED BY <3>2, <3>3
    <2>6. CASE session /\ up /\ out.open
      <3>1. Stream \in Seq(Bytes) /\ recvBuf \o wire \in Seq(Bytes)
        BY <1>2, StreamParts
      <3>2. Stream' = Stream \o Frame(p)
        <4>1. Stream' = (recvBuf \o wire) \o (out'.unsent \o out'.buf)
          BY <1>1, <2>4, <2>6 DEF Stream
        <4>2. Stream = (recvBuf \o wire) \o (out.unsent \o out.buf)
          BY <2>6 DEF Stream
        <4>3. out'.unsent \o out'.buf = (out.unsent \o out.buf) \o Frame(p)
          <5>1. (out.unsent \o out.buf) \o Frame(p) = out.unsent \o (out.buf \o Frame(p))
            BY <2>2, <2>3, BytesAssociate
          <5> QED BY <1>6, <2>1, <5>1
        <4>4. out.unsent \o out.buf \in Seq(Bytes)
          BY <2>3, ConcatProperties
        <4>5. ((recvBuf \o wire) \o (out.unsent \o out.buf)) \o Frame(p)
                 = (recvBuf \o wire) \o ((out.unsent \o out.buf) \o Frame(p))
          BY <2>2, <3>1, <4>4, BytesAssociate
        <4> QED BY <4>1, <4>2, <4>3, <4>5
      <3>3. PacketsIn[Stream'] = Append(PacketsIn[Stream], p)
        <4>1. PacketsIn[Stream \o Frame(p)] = PacketsIn[Stream] \o <<p>>
          BY <2>2, <3>1, CountJoin
        <4>2. PacketsIn[Stream] \in Seq(Packets)
          BY <3>1, CountType
        <4>3. Append(PacketsIn[Stream], p) = PacketsIn[Stream] \o <<p>>
          BY <4>2, AppendIsConcat
        <4> QED BY <3>2, <4>1, <4>3
      <3>4. Len(PacketsIn[Stream']) = Len(PacketsIn[Stream]) + 1
            /\ Len(PacketsIn[Stream]) \in Nat
        BY <3>1, <3>3, CountType, AppendProperties, LenProperties
      <3>5. Framed(Stream) /\ Whole(Stream) /\ Len(PacketsIn[Stream]) <= sends
        BY <2>6 DEF ConnInv, StreamInv
      <3>6. Framed(Stream') /\ Whole(Stream')
        BY <2>2, <3>1, <3>2, <3>5, FramedJoin, WholeJoin
      <3>7. Len(PacketsIn[Stream']) <= sends'
        BY <1>1, <1>3, <3>4, <3>5
      <3>8. ConnInv'
        BY <1>6, <1>7, <3>6, <3>7 DEF ConnInv, StreamInv
      <3>9. Phase = "open" /\ Phase' = Phase /\ Queue' = Append(Queue, p)
        <4>1. session' /\ up' /\ out'.open
          BY <1>1, <2>4, <2>6
        <4> QED BY <2>6, <3>3, <4>1 DEF Queue, Phase
      <3>10. ChannelStep
        BY <1>1, <3>9, ChannelTakes
      <3> QED BY <3>8, <3>10
    <2> QED BY <2>5, <2>6
  <1> QED BY <1>9, <1>10

(***************************************************************************)
(* The steps of the receiver and of the network                            *)
(***************************************************************************)

LEMMA PacketsCut ==
    ASSUME NEW ps \in Seq(Packets), NEW qs \in Seq(Packets)
    PROVE  /\ Len(ps) \in Nat /\ Len(ps) <= Len(ps \o qs)
           /\ Len(ps \o qs) = Len(ps) + Len(qs) /\ Len(qs) \in Nat
           /\ ps \o qs \in Seq(Packets)
           /\ \A i \in 1..Len(ps) : (ps \o qs)[i] = ps[i]
           /\ SubSeq(ps \o qs, 1, Len(ps)) = ps
           /\ SubSeq(ps \o qs, Len(ps) + 1, Len(ps \o qs)) = qs
  <1> DEFINE s == ps \o qs
             n == Len(ps)
             m == Len(qs)
             front == SubSeq(s, 1, n)
             back == SubSeq(s, n + 1, Len(s))
  <1>1. /\ n \in Nat /\ m \in Nat /\ Len(s) = n + m /\ s \in Seq(Packets)
        /\ \A i \in 1..(n + m) : s[i] = IF i <= n THEN ps[i] ELSE qs[i - n]
    BY ConcatProperties, LenProperties
  <1>2. \A i \in 1..Len(s) : s[i] \in Packets
    BY <1>1, ElementOfSeq
  <1> HIDE DEF s, n, m
  <1>3. \A i \in 1..n : s[i] = ps[i]
    BY <1>1
  <1>4. \A i \in 1..m : s[n + i] = qs[i]
    <2> SUFFICES ASSUME NEW i \in 1..m PROVE s[n + i] = qs[i]
      OBVIOUS
    <2>1. n + i \in 1..(n + m) /\ ~(n + i <= n) /\ (n + i) - n = i
      BY <1>1
    <2> QED BY <1>1, <2>1
  <1>5. /\ front \in Seq(Packets) /\ Len(front) = n
        /\ \A i \in 1..n : front[i] = ps[i]
    <2>1. \A i \in 1..n : s[i] \in Packets
      BY <1>1, <1>2
    <2>2. /\ front \in Seq(Packets) /\ Len(front) = IF 1 <= n THEN n - 1 + 1 ELSE 0
          /\ \A i \in 1..(n - 1 + 1) : front[i] = s[1 + i - 1]
      BY <1>1, <2>1, SubSeqProperties
    <2> HIDE DEF front
    <2>3. ASSUME NEW i \in 1..n PROVE front[i] = ps[i]
      <3>1. i \in 1..(n - 1 + 1) /\ 1 + i - 1 = i
        BY <1>1
      <3> QED BY <1>3, <2>2, <3>1
    <2> QED BY <1>1, <2>2, <2>3
  <1>6. /\ back \in Seq(Packets) /\ Len(back) = m
        /\ \A i \in 1..m : back[i] = qs[i]
    <2>1. \A i \in (n + 1)..Len(s) : s[i] \in Packets
      BY <1>1, <1>2
    <2>2. /\ back \in Seq(Packets)
          /\ Len(back) = IF n + 1 <= Len(s) THEN Len(s) - (n + 1) + 1 ELSE 0
          /\ \A i \in 1..(Len(s) - (n + 1) + 1) : back[i] = s[(n + 1) + i - 1]
      BY <1>1, <2>1, SubSeqProperties
    <2> HIDE DEF back
    <2>3. ASSUME NEW i \in 1..m PROVE back[i] = qs[i]
      <3>1. i \in 1..(Len(s) - (n + 1) + 1) /\ (n + 1) + i - 1 = n + i
        BY <1>1
      <3> QED BY <1>4, <2>2, <3>1
    <2>4. Len(back) = m
      BY <1>1, <2>2
    <2> QED BY <2>2, <2>3, <2>4
  <1> HIDE DEF front, back
  <1>7. front = ps
    BY <1>5, SeqEqual DEF n
  <1>8. back = qs
    BY <1>6, SeqEqual DEF m
  <1>9. n <= Len(s)
    BY <1>1
  <1> QED BY <1>1, <1>3, <1>7, <1>8, <1>9 DEF front, back, s, n, m

\* The connection is lost.
LEMMA ConnectionLostStep ==
    ASSUME ConnInv, NEW n \in 0..(MaxSendBufSize * MaxSends), ConnectionLost(n)
    PROVE  ConnInv' /\ ChannelStep
  <1> DEFINE kept == SubSeq(wire, 1, n)
             lost == SubSeq(wire, n + 1, Len(wire))
  <1>1. /\ up /\ up' = FALSE /\ n \in 0..Len(wire) /\ wire' = kept
        /\ UNCHANGED <<out, recvBuf, session, delivered, sends>>
    BY DEF ConnectionLost
  <1>2. out \in OutBuffer /\ TypeOK /\ NothingUnsent(out)
    BY DEF ConnInv
  <1>3. /\ wire \in Seq(Bytes) /\ recvBuf \in Seq(Bytes) /\ n \in Nat /\ n <= Len(wire)
        /\ sends \in Nat /\ MaxSends \in Nat /\ sends <= MaxSends
    BY <1>1, <1>2, LenProperties, ConnectionAssumption DEF TypeOK
  <1>4. kept \in Seq(Bytes) /\ lost \in Seq(Bytes) /\ wire = kept \o lost
    BY <1>3, Cut
  <1> HIDE DEF kept, lost
  <1>5. TypeOK'
    BY <1>1, <1>2, <1>4 DEF TypeOK
  <1>6. CASE ~session
    <2>1. ConnInv'
      BY <1>1, <1>2, <1>5, <1>6 DEF ConnInv, StreamInv
    <2>2. Queue' = Queue /\ Phase' = Phase /\ delivered' = delivered
      BY <1>1, <1>6 DEF Queue, Phase
    <2> QED BY <2>1, <2>2, ChannelStutters
  <1>7. CASE session
    <2> DEFINE rest == lost \o OutPart(out, up)
    <2>1. OutPart(out, up) \in Seq(Bytes) /\ Stream = (recvBuf \o wire) \o OutPart(out, up)
      BY <1>2, StreamParts
    <2>2. rest \in Seq(Bytes) /\ recvBuf \o kept \in Seq(Bytes)
      BY <1>3, <1>4, <2>1, ConcatProperties
    <2>3. Stream' = recvBuf \o kept
      <3>1. Stream' = (recvBuf \o kept) \o << >>
        BY <1>1 DEF Stream
      <3> QED BY <2>2, <3>1, ConcatEmptySeq
    <2>4. Stream = (recvBuf \o kept) \o rest
      <3>1. recvBuf \o wire = (recvBuf \o kept) \o lost
        BY <1>3, <1>4, BytesAssociate
      <3>2. ((recvBuf \o kept) \o lost) \o OutPart(out, up) = (recvBuf \o kept) \o rest
        BY <1>4, <2>1, <2>2, BytesAssociate
      <3> QED BY <2>1, <3>1, <3>2
    <2> HIDE DEF rest
    <2> DEFINE ps == PacketsIn[Stream']
               qs == PacketsIn[rest]
    <2>5. PacketsIn[Stream] = ps \o qs /\ ps \in Seq(Packets) /\ qs \in Seq(Packets)
      BY <2>2, <2>3, <2>4, CountJoin, CountType
    <2>6. Framed(Stream) /\ Len(PacketsIn[Stream]) <= sends
      BY <1>7 DEF ConnInv, StreamInv
    <2>7. Framed(Stream')
      BY <2>2, <2>3, <2>4, <2>6, FramedFront
    <2> HIDE DEF ps, qs
    <2>8. /\ Len(ps) \in Nat /\ Len(ps) <= Len(PacketsIn[Stream])
          /\ Len(PacketsIn[Stream]) \in Nat
          /\ SubSeq(PacketsIn[Stream], 1, Len(ps)) = ps
      BY <2>5, PacketsCut, LenProperties
    <2>9. Len(ps) <= sends /\ Len(ps) \in 0..MaxSends
      BY <1>3, <2>6, <2>8
    <2>10. ConnInv'
      <3>1. StreamInv'
        BY <1>1, <2>7, <2>9 DEF StreamInv, ps
      <3> QED BY <1>1, <1>2, <1>5, <3>1 DEF ConnInv
    <2>11. Queue = PacketsIn[Stream] /\ Queue' = ps /\ Phase' = "broken"
      BY <1>1, <1>7 DEF Queue, Phase, ps
    <2>12. ChannelStep
      BY <1>1, <1>7, <2>8, <2>9, <2>11, ChannelBreaks
    <2> QED BY <2>10, <2>12
  <1> QED BY <1>6, <1>7

LEMMA HandleReadErrorStep ==
    ASSUME ConnInv, HandleReadError
    PROVE  ConnInv' /\ ChannelStep
  <1>1. session /\ ~session' /\ UNCHANGED <<out, wire, up, recvBuf, delivered, sends>>
    BY DEF HandleReadError
  <1>2. TypeOK'
    BY <1>1 DEF ConnInv, TypeOK, HandleReadError
  <1>3. StreamInv'
    BY <1>1 DEF StreamInv
  <1>4. out' = out
    BY <1>1
  <1>5. ConnInv'
    BY <1>2, <1>3, <1>4 DEF ConnInv
  <1> QED BY <1>1, <1>5, ChannelDown

\* Bytes are read, and the packets in them handled.
LEMMA HandleReadStep ==
    ASSUME ConnInv, NEW n \in 1..RecvBufSize, NEW closes \in BOOLEAN, HandleRead(n, closes)
    PROVE  ConnInv' /\ ChannelStep
  <1> DEFINE got == SubSeq(wire, 1, n)
             left == SubSeq(wire, n + 1, Len(wire))
             b == recvBuf \o got
             scan == ScanPackets[b]
             rest == left \o OutPart(out, up)
             ps == scan.packets
             full == Len(scan.buf) >= RecvBufSize
  <1>1. /\ session /\ n <= Len(wire) /\ n <= RecvBufSize - Len(recvBuf)
        /\ wire' = left
        /\ recvBuf' = IF scan.ok /\ full THEN << >> ELSE scan.buf
        /\ delivered' = IF scan.ok THEN delivered \o ps ELSE delivered
        /\ session' = (scan.ok /\ ~full /\ ~closes)
        /\ UNCHANGED <<out, up, sends>>
    BY DEF HandleRead
  <1>2. out \in OutBuffer /\ TypeOK /\ NothingUnsent(out)
    BY DEF ConnInv
  <1>3. /\ wire \in Seq(Bytes) /\ recvBuf \in Seq(Bytes) /\ n \in Nat
        /\ RecvBufSize \in Nat /\ Len(recvBuf) \in Nat /\ Len(wire) \in Nat
        /\ sends \in Nat /\ MaxSends \in Nat /\ sends <= MaxSends
        /\ delivered \in Seq(Packets)
    BY <1>2, LenProperties, ConnectionAssumption DEF TypeOK
  <1>4. /\ got \in Seq(Bytes) /\ left \in Seq(Bytes) /\ wire = got \o left /\ Len(got) = n
    BY <1>1, <1>3, Cut
  <1> HIDE DEF got, left
  <1>5. b \in Seq(Bytes) /\ Len(b) = Len(recvBuf) + n /\ Len(b) <= RecvBufSize
    <2>1. b \in Seq(Bytes) /\ Len(b) = Len(recvBuf) + Len(got)
      BY <1>3, <1>4, ConcatProperties
    <2> HIDE DEF b
    <2> QED BY <1>1, <1>3, <1>4, <2>1
  <1>6. /\ OutPart(out, up) \in Seq(Bytes) /\ rest \in Seq(Bytes)
        /\ Stream = b \o rest
    <2>1. OutPart(out, up) \in Seq(Bytes) /\ Stream = (recvBuf \o wire) \o OutPart(out, up)
      BY <1>2, StreamParts
    <2>2. recvBuf \o wire = b \o left
      BY <1>3, <1>4, BytesAssociate
    <2>3. (b \o left) \o OutPart(out, up) = b \o rest
      BY <1>4, <1>5, <2>1, BytesAssociate
    <2>4. rest \in Seq(Bytes)
      BY <1>4, <2>1, ConcatProperties
    <2> QED BY <2>1, <2>2, <2>3, <2>4
  <1>7. /\ Framed(Stream) /\ Len(PacketsIn[Stream]) <= sends
        /\ up /\ out.open => Whole(Stream)
    BY <1>1 DEF ConnInv, StreamInv
  <1> HIDE DEF b, rest
  <1>8. Framed(b)
    BY <1>5, <1>6, <1>7, FramedFront
  <1>9. ScanGood(b, scan)
    BY <1>5, <1>8, ScanIsGood
  <1> HIDE DEF scan
  <1>10. /\ scan.buf \in Seq(Bytes) /\ Len(scan.buf) \in Nat /\ Len(scan.buf) <= Len(b)
         /\ ps \in Seq(Packets) /\ NoGarbage(ps) /\ scan.ok \in BOOLEAN
         /\ scan.ok => \E u \in Seq(Bytes) :
               b = u \o scan.buf /\ Whole(u) /\ PacketsOf(u, ps)
    BY <1>9, LenProperties DEF ScanGood
  <1>11. TypeOK'
    <2>1. recvBuf' \in Seq(Bytes) /\ Len(recvBuf') <= RecvBufSize
      <3>1. << >> \in Seq(Bytes) /\ Len(<< >>) = 0
        OBVIOUS
      <3>2. Len(scan.buf) <= RecvBufSize
        BY <1>3, <1>5, <1>10
      <3> QED BY <1>1, <1>3, <1>10, <3>1, <3>2
    <2>2. delivered' \in Seq(Packets)
      <3>1. delivered \o ps \in Seq(Packets)
        BY <1>3, <1>10, ConcatProperties
      <3> QED BY <1>1, <1>3, <3>1
    <2>3. session' \in BOOLEAN
      BY <1>1, <1>10
    <2> HIDE DEF ps, full
    <2> QED BY <1>1, <1>2, <1>4, <2>1, <2>2, <2>3 DEF TypeOK
  <1> HIDE DEF ps, full
  <1>12. CASE ~scan.ok
    <2>1. ~session' /\ delivered' = delivered
      BY <1>1, <1>12
    <2>2. StreamInv'
      BY <2>1 DEF StreamInv
    <2>3. ConnInv'
      BY <1>1, <1>2, <1>11, <2>2 DEF ConnInv
    <2> QED BY <1>1, <2>1, <2>3, ChannelDown
  <1>13. CASE scan.ok
    <2>1. PICK u \in Seq(Bytes) : b = u \o scan.buf /\ Whole(u) /\ PacketsOf(u, ps)
      BY <1>10, <1>13
    <2> DEFINE after == scan.buf \o rest
               qs == PacketsIn[after]
    <2>2. after \in Seq(Bytes) /\ Stream = u \o after
      <3>1. after \in Seq(Bytes)
        BY <1>6, <1>10, ConcatProperties
      <3>2. (u \o scan.buf) \o rest = u \o after
        BY <1>6, <1>10, BytesAssociate
      <3> QED BY <1>6, <2>1, <3>1, <3>2
    <2> HIDE DEF after
    <2>3. /\ PacketsIn[Stream] = PacketsIn[u] \o qs /\ qs \in Seq(Packets)
          /\ PacketsIn[u] \in Seq(Packets) /\ PacketsIn[Stream] \in Seq(Packets)
      <3>1. PacketsIn[Stream] = PacketsIn[u] \o qs
        BY <2>2, CountJoin
      <3>2. qs \in Seq(Packets) /\ PacketsIn[u] \in Seq(Packets)
        BY <2>2, CountType
      <3>3. PacketsIn[u] \o qs \in Seq(Packets)
        BY <3>2, ConcatProperties
      <3> QED BY <3>1, <3>2, <3>3
    <2> HIDE DEF qs
    <2>4. ASSUME session' PROVE Stream' = after
      <3>1. recvBuf' = scan.buf /\ wire' = left /\ OutPart(out', up') = OutPart(out, up)
        BY <1>1, <2>4 DEF OutPart
      <3>2. Stream' = (recvBuf' \o wire') \o OutPart(out', up')
        BY DEF Stream, OutPart
      <3>3. (scan.buf \o left) \o OutPart(out, up) = scan.buf \o rest
        BY <1>4, <1>6, <1>10, BytesAssociate DEF rest
      <3> QED BY <3>1, <3>2, <3>3 DEF after
    <2>5. Framed(after) /\ (up /\ out.open => Whole(after))
      BY <1>7, <2>1, <2>2, FramedRest, WholeRest
    <2>6. PICK skipped \in {0, 1} :
             /\ Len(PacketsIn[u]) = Len(ps) + skipped
             /\ SubSeq(PacketsIn[u], 1, Len(ps)) = ps
             /\ \A i \in 1..Len(ps) : PacketsIn[u][i] = ps[i]
             /\ skipped = 1 => Garbage(PacketsIn[u][Len(ps) + 1])
      <3>1. CASE PacketsIn[u] = ps
        <4>1. SubSeq(ps, 1, Len(ps)) = ps /\ Len(ps) \in Nat
          BY <1>10, SubSeqFull, LenProperties
        <4>2. Len(ps) = Len(ps) + 0 /\ ~(0 = 1)
          BY <4>1
        <4> WITNESS 0 \in {0, 1}
        <4> QED BY <3>1, <4>1, <4>2
      <3>2. CASE PacketsIn[u] # ps
        <4>1. PICK g \in Packets : Garbage(g) /\ PacketsIn[u] = ps \o <<g>>
          BY <2>1, <3>2 DEF PacketsOf
        <4>2. <<g>> \in Seq(Packets) /\ Len(<<g>>) = 1 /\ <<g>>[1] = g
          OBVIOUS
        <4>3. /\ SubSeq(PacketsIn[u], 1, Len(ps)) = ps
              /\ \A i \in 1..Len(ps) : PacketsIn[u][i] = ps[i]
              /\ Len(PacketsIn[u]) = Len(ps) + 1 /\ Len(ps) \in Nat
          BY <1>10, <4>1, <4>2, PacketsCut
        <4>4. PacketsIn[u][Len(ps) + 1] = g
          <5>1. /\ Len(ps) + 1 \in 1..(Len(ps) + Len(<<g>>)) /\ ~(Len(ps) + 1 <= Len(ps))
                /\ (Len(ps) + 1) - Len(ps) = 1
            BY <4>2, <4>3
          <5>2. (ps \o <<g>>)[Len(ps) + 1] = <<g>>[(Len(ps) + 1) - Len(ps)]
            BY <1>10, <4>2, <5>1, ConcatProperties
          <5> QED BY <4>1, <4>2, <5>1, <5>2
        <4> QED BY <4>1, <4>3, <4>4
      <3> QED BY <3>1, <3>2
    <2> DEFINE q == PacketsIn[Stream]
               k == Len(ps)
    <2>7. /\ k \in Nat /\ Len(q) \in Nat /\ k + skipped <= Len(q)
          /\ SubSeq(q, k + skipped + 1, Len(q)) = qs
          /\ Len(qs) \in Nat /\ Len(qs) <= Len(q)
          /\ \A i \in 1..(k + skipped) : q[i] = PacketsIn[u][i]
      <3>1. /\ SubSeq(q, Len(PacketsIn[u]) + 1, Len(q)) = qs
            /\ Len(q) = Len(PacketsIn[u]) + Len(qs) /\ Len(qs) \in Nat
            /\ \A i \in 1..Len(PacketsIn[u]) : q[i] = PacketsIn[u][i]
        <4> DEFINE t == PacketsIn[u]
        <4>1. t \in Seq(Packets) /\ qs \in Seq(Packets) /\ q = t \o qs
          BY <2>3
        <4> HIDE DEF t, q
        <4>2. /\ SubSeq(t \o qs, Len(t) + 1, Len(t \o qs)) = qs
              /\ Len(t \o qs) = Len(t) + Len(qs) /\ Len(qs) \in Nat
              /\ \A i \in 1..Len(t) : (t \o qs)[i] = t[i]
          BY <4>1, PacketsCut
        <4> QED BY <4>1, <4>2 DEF t
      <3>2. k \in Nat /\ Len(PacketsIn[u]) = k + skipped
        BY <1>10, <2>6, LenProperties
      <3> HIDE DEF q, k
      <3>3. Len(q) \in Nat /\ k + skipped <= Len(q) /\ Len(qs) <= Len(q)
        BY <3>1, <3>2
      <3> QED BY <3>1, <3>2, <3>3
    <2>8. SubSeq(q, 1, k) = ps
      <3>1. q \in Seq(Packets) /\ k \in Nat /\ k <= Len(q) /\ Len(q) \in Nat /\ ps \in Seq(Packets)
        <4> HIDE DEF q, k
        <4>1. k <= Len(q)
          BY <2>7
        <4> QED BY <1>10, <2>3, <2>7, <4>1 DEF q, k
      <3>2. \A i \in 1..k : q[i] = ps[i]
        <4> HIDE DEF q
        <4>1. \A i \in 1..k : i \in 1..(k + skipped)
          BY <3>1
        <4> QED BY <2>6, <2>7, <4>1
      <3> HIDE DEF q
      <3>3. \A i \in 1..Len(q) : q[i] \in Packets
        BY <3>1, ElementOfSeq
      <3>4. ps = SubSeq(q, 1, k)
        <4> DEFINE front == SubSeq(q, 1, k)
        <4>1. \A i \in 1..k : q[i] \in Packets
          <5> HIDE DEF k
          <5> QED BY <3>1, <3>3
        <4>2. /\ front \in Seq(Packets) /\ Len(front) = IF 1 <= k THEN k - 1 + 1 ELSE 0
              /\ \A i \in 1..(k - 1 + 1) : front[i] = q[1 + i - 1]
          <5> HIDE DEF k
          <5> QED BY <3>1, <4>1, SubSeqProperties
        <4> HIDE DEF front
        <4>3. Len(front) = k /\ \A i \in 1..k : front[i] = q[i]
          <5> HIDE DEF k
          <5>1. \A i \in 1..k : i \in 1..(k - 1 + 1) /\ 1 + i - 1 = i
            BY <3>1
          <5> QED BY <3>1, <4>2, <5>1
        <4>4. \A i \in 1..Len(front) : front[i] = ps[i]
          BY <3>2, <4>3
        <4>5. front = ps
          BY <3>1, <4>2, <4>3, <4>4, SeqEqual
        <4> QED BY <4>5 DEF front
      <3> QED BY <3>4
    <2>9. Queue = q /\ delivered' = delivered \o SubSeq(Queue, 1, k)
      BY <1>1, <1>13, <2>8 DEF Queue
    <2>10. /\ k \in 0..MaxSends
           /\ \A i \in 1..k : ~Garbage(q[i])
           /\ skipped = 1 => Garbage(q[k + 1])
      <3>1. k \in 0..MaxSends
        <4> HIDE DEF k
        <4> QED BY <1>3, <1>7, <2>7
      <3>2. \A i \in 1..k : i \in 1..(k + skipped)
        <4> HIDE DEF k
        <4> QED BY <2>7
      <3>3. \A i \in 1..k : ~Garbage(ps[i])
        BY <1>10 DEF NoGarbage
      <3>4. skipped = 1 => k + 1 \in 1..(k + skipped)
        <4> HIDE DEF k
        <4> QED BY <2>7
      <3> QED BY <2>6, <2>7, <3>1, <3>2, <3>3, <3>4
    <2>11. StreamInv'
      <3>1. CASE session'
        <4>1. qs = PacketsIn[Stream'] /\ Framed(Stream') /\ (up /\ out.open => Whole(Stream'))
          BY <2>4, <2>5, <3>1 DEF qs
        <4>2. Len(qs) <= sends
          <5> HIDE DEF k
          <5> QED BY <1>3, <1>7, <2>7
        <4> QED BY <1>1, <4>1, <4>2 DEF StreamInv
      <3>2. CASE ~session'
        BY <3>2 DEF StreamInv
      <3> QED BY <3>1, <3>2
    <2>12. ConnInv'
      BY <1>1, <1>2, <1>11, <2>11 DEF ConnInv
    <2>13. \/ Queue' = SubSeq(Queue, k + skipped + 1, Len(Queue)) /\ Phase' = Phase
           \/ Queue' = << >> /\ Phase' = "down"
      <3>1. CASE session'
        <4>1. Queue' = qs
          BY <2>4, <3>1 DEF Queue, qs
        <4>2. Phase' = Phase
          BY <1>1, <3>1 DEF Phase
        <4> QED BY <2>7, <2>9, <4>1, <4>2
      <3>2. CASE ~session'
        BY <3>2 DEF Queue, Phase
      <3> QED BY <3>1, <3>2
    <2> HIDE DEF q, k
    <2>14. ChannelStep
      BY <1>1, <2>7, <2>9, <2>10, <2>13, ChannelDelivers
    <2> QED BY <2>12, <2>14
  <1> QED BY <1>10, <1>12, <1>13

\* Reading closes the session of a peer whose packets are within the limits only
\* when one of them was handled.
LEMMA ReadKeepsValidPeer ==
    ASSUME ConnInv, NEW n \in 1..RecvBufSize, NEW closes \in BOOLEAN, HandleRead(n, closes),
           ~session', \A c \in Range(recvBuf \o wire) : Acceptable(c[1])
    PROVE  delivered' # delivered
  <1> DEFINE got == SubSeq(wire, 1, n)
             left == SubSeq(wire, n + 1, Len(wire))
             b == recvBuf \o got
             scan == ScanPackets[b]
             all == recvBuf \o wire
  <1>1. /\ session /\ n <= Len(wire) /\ n <= RecvBufSize - Len(recvBuf)
        /\ closes => scan.ok /\ scan.packets # << >>
        /\ delivered' = IF scan.ok THEN delivered \o scan.packets ELSE delivered
        /\ session' = (scan.ok /\ ~(Len(scan.buf) >= RecvBufSize) /\ ~closes)
    BY DEF HandleRead
  <1>2. out \in OutBuffer /\ TypeOK
    BY DEF ConnInv
  <1>3. /\ wire \in Seq(Bytes) /\ recvBuf \in Seq(Bytes) /\ n \in Nat
        /\ RecvBufSize \in Nat /\ Len(recvBuf) \in Nat /\ Len(wire) \in Nat
        /\ delivered \in Seq(Packets)
    BY <1>2, LenProperties, ConnectionAssumption DEF TypeOK
  <1>4. /\ got \in Seq(Bytes) /\ left \in Seq(Bytes) /\ wire = got \o left /\ Len(got) = n
    BY <1>1, <1>3, Cut
  <1> HIDE DEF got, left
  <1>5. b \in Seq(Bytes) /\ Len(b) = Len(recvBuf) + n /\ Len(b) <= RecvBufSize /\ Len(b) \in Nat
    <2>1. b \in Seq(Bytes) /\ Len(b) = Len(recvBuf) + Len(got)
      BY <1>3, <1>4, ConcatProperties
    <2> HIDE DEF b
    <2> QED BY <1>1, <1>3, <1>4, <2>1
  <1>6. all = b \o left /\ all \in Seq(Bytes)
    BY <1>3, <1>4, BytesAssociate, ConcatProperties
  <1>7. OutPart(out, up) \in Seq(Bytes) /\ Stream = all \o OutPart(out, up)
    BY <1>2, StreamParts
  <1> HIDE DEF b, all
  <1>8. Framed(b)
    <2>1. Framed(all \o OutPart(out, up))
      BY <1>1, <1>7 DEF ConnInv, StreamInv
    <2>2. Framed(all)
      BY <1>6, <1>7, <2>1, FramedFront
    <2> QED BY <1>4, <1>5, <1>6, <2>2, FramedFront
  <1>9. ScanGood(b, scan)
    BY <1>5, <1>8, ScanIsGood
  <1>10. AllAcceptable(b)
    <2> SUFFICES ASSUME NEW i \in 1..Len(b) PROVE Acceptable(b[i][1])
      BY DEF AllAcceptable
    <2>1. /\ Len(all) = Len(b) + Len(left) /\ Len(left) \in Nat
          /\ all[i] = b[i]
      <3>1. /\ Len(b \o left) = Len(b) + Len(left) /\ Len(left) \in Nat
            /\ \A j \in 1..(Len(b) + Len(left)) :
                  (b \o left)[j] = IF j <= Len(b) THEN b[j] ELSE left[j - Len(b)]
        BY <1>4, <1>5, ConcatProperties, LenProperties
      <3>2. i \in 1..(Len(b) + Len(left)) /\ i <= Len(b)
        BY <1>5, <3>1
      <3> QED BY <1>6, <3>1, <3>2
    <2>2. i \in 1..Len(all) /\ DOMAIN all = 1..Len(all)
      BY <1>5, <1>6, <2>1, LenProperties
    <2>3. all[i] \in Range(all)
      BY <2>2 DEF Range
    <2>4. \A c \in Range(all) : Acceptable(c[1])
      BY DEF all
    <2> QED BY <2>1, <2>3, <2>4
  <1> HIDE DEF scan
  <1>11. scan.ok /\ Len(scan.buf) < RecvBufSize /\ scan.packets \in Seq(Packets)
         /\ Len(scan.buf) \in Nat
    BY <1>5, <1>9, <1>10, LenProperties DEF ScanGood
  <1>12. closes
    <2>1. ~(Len(scan.buf) >= RecvBufSize)
      BY <1>3, <1>11
    <2>2. session' = (scan.ok /\ ~(Len(scan.buf) >= RecvBufSize) /\ ~closes)
      BY <1>1
    <2> QED BY <1>11, <2>1, <2>2, Zenon
  <1>13. scan.packets # << >> /\ delivered' = delivered \o scan.packets
    BY <1>1, <1>11, <1>12
  <1> QED BY <1>3, <1>11, <1>13, ConcatEqualIffEmpty

(***************************************************************************)
(* The theorems                                                            *)
(***************************************************************************)

LEMMA ConnStep == ConnInv /\ [Next]_vars => ConnInv' /\ ChannelStep
  <1> SUFFICES ASSUME ConnInv, [Next]_vars PROVE ConnInv' /\ ChannelStep
    OBVIOUS
  <1>1. ASSUME NEW p \in Packets, Send(p) PROVE ConnInv' /\ ChannelStep
    BY <1>1, SendStep
  <1>2. CASE SetCloseAfterSend
    BY <1>2, SetCloseAfterSendStep
  <1>3. ASSUME NEW n \in 1..MaxSendBufSize, Transmit(n) PROVE ConnInv' /\ ChannelStep
    BY <1>3, TransmitStep
  <1>4. CASE HandleWrite
    BY <1>4, HandleWriteStep
  <1>5. CASE HandleWriteError
    BY <1>5, HandleWriteErrorStep
  <1>6. CASE ReadSome
    <2>1. PICK n \in 1..RecvBufSize, closes \in BOOLEAN : HandleRead(n, closes)
      BY <1>6 DEF ReadSome
    <2> QED BY <2>1, HandleReadStep
  <1>7. CASE HandleReadError
    BY <1>7, HandleReadErrorStep
  <1>8. ASSUME NEW n \in 0..(MaxSendBufSize * MaxSends), ConnectionLost(n)
        PROVE  ConnInv' /\ ChannelStep
    BY <1>8, ConnectionLostStep
  <1>9. CASE UNCHANGED vars
    <2>1. UNCHANGED <<out, wire, up, recvBuf, session, delivered, sends>>
      BY <1>9 DEF vars
    <2>2. Stream' = Stream
      BY <2>1 DEF Stream
    <2>3. Queue' = Queue /\ Phase' = Phase /\ delivered' = delivered
      BY <2>1, <2>2 DEF Queue, Phase
    <2>4. TypeOK' /\ StreamInv'
      BY <2>1, <2>2 DEF ConnInv, TypeOK, StreamInv
    <2>5. ConnInv'
      BY <2>1, <2>4 DEF ConnInv
    <2> QED BY <2>3, <2>5, ChannelStutters
  <1>10. CASE Idle
    BY <1>9, <1>10 DEF Idle
  <1> QED BY <1>1, <1>2, <1>3, <1>4, <1>5, <1>6, <1>7, <1>8, <1>9, <1>10 DEF Next

\* The receiver is always in step with the sender: what AsioReceiveBuffer has
\* before it are whole frames, the last of them perhaps cut.
THEOREM AlwaysConnInv == Spec => []ConnInv
  <1>1. ConnInv /\ [Next]_vars => ConnInv'
    BY ConnStep
  <1> QED BY InitInv, <1>1, PTL DEF Spec

\* The buffers keep their types and never outgrow their limits, MAX_SEND_BUF_SIZE
\* (AsioSendBuffer::InternalStorePacket) and RECV_BUF_SIZE.
THEOREM TypeCorrect == Spec => []TypeOK
  <1>1. ConnInv => TypeOK
    BY DEF ConnInv
  <1> QED BY AlwaysConnInv, <1>1, PTL

\* AsioSendBuffer, TCP and AsioReceiveBuffer together are a packet channel:
\* wherever reads and writes cut the frames, however the buffers fill, and
\* whenever the connection breaks or is closed, packets are delivered whole, in
\* the order they were sent and none twice, and only the newest are lost.
THEOREM ConnectionIsChannel == Spec => ChannelSpec
  <1>1. Init => Channel!ChannelInit
    <2> SUFFICES ASSUME Init PROVE Channel!ChannelInit
      OBVIOUS
    <2>1. Stream = << >>
      <3>1. << >> \o << >> = << >>
        OBVIOUS
      <3> QED BY <3>1 DEF Init, Stream
    <2> QED BY <2>1, CountEmpty DEF Init, Channel!ChannelInit
  <1>2. ConnInv /\ [Next]_vars => [Channel!ChannelNext]_(Channel!channel)
    BY ConnStep DEF ChannelStep
  <1> QED BY AlwaysConnInv, <1>1, <1>2, PTL DEF Spec, ChannelSpec, Channel!ChannelSpec

\* A peer whose packets are within the limits is not disconnected by
\* AsioReceiveBuffer::ScanPackets and HandleRead: no size in a header is refused
\* and the buffer is never full.
THEOREM ValidPeerStays == Spec => ValidPeerKept
  <1> DEFINE Kept ==
        (/\ session /\ ~session'
         /\ \A c \in Range(recvBuf \o wire) : Acceptable(c[1]))
           => delivered' # delivered \/ ~up \/ (~out.open /\ wire = << >>)
  <1>1. ASSUME ConnInv, Next, session, ~session',
               \A c \in Range(recvBuf \o wire) : Acceptable(c[1])
        PROVE  delivered' # delivered \/ ~up \/ (~out.open /\ wire = << >>)
    <2>1. ASSUME NEW n \in 1..RecvBufSize, NEW closes \in BOOLEAN, HandleRead(n, closes)
          PROVE  delivered' # delivered
      BY <1>1, <2>1, ReadKeepsValidPeer
    <2>2. CASE HandleReadError
      BY <2>2 DEF HandleReadError
    <2>3. ASSUME session' = session PROVE FALSE
      BY <1>1, <2>3
    <2>4. ASSUME NEW p \in Packets, Send(p) PROVE FALSE
      BY <2>3, <2>4 DEF Send
    <2>5. ASSUME NEW n \in 1..MaxSendBufSize, Transmit(n) PROVE FALSE
      BY <2>3, <2>5 DEF Transmit
    <2>6. ASSUME NEW n \in 0..(MaxSendBufSize * MaxSends), ConnectionLost(n) PROVE FALSE
      BY <2>3, <2>6 DEF ConnectionLost
    <2>7. SetCloseAfterSend \/ HandleWrite \/ HandleWriteError \/ Idle => FALSE
      BY <2>3 DEF SetCloseAfterSend, HandleWrite, HandleWriteError, Idle, vars
    <2> QED BY <1>1, <2>1, <2>2, <2>4, <2>5, <2>6, <2>7 DEF Next, ReadSome
  <1>2. ConnInv /\ [Next]_vars => [Kept]_vars
    BY <1>1
  <1> QED BY AlwaysConnInv, <1>2, PTL DEF Spec, ValidPeerKept

=============================================================================
