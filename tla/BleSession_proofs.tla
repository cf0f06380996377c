-------------------------- MODULE BleSession_proofs --------------------------
(***************************************************************************)
(* Theorems about BleSession, for any frames, callers and bounds: what the *)
(* assembler gives out of the bytes it is fed, whatever the notifications  *)
(* they come in, and from that that a session implements CommandExchange.  *)
(*                                                                         *)
(* First the loop of feed: its rounds are unfolded by induction from the   *)
(* last byte back.  Then streams of frames, what is made of one that is    *)
(* entered between two frames or within one, and the inductive invariant.  *)
(***************************************************************************)
EXTENDS BleSession, WellFoundedInduction, FiniteSetTheorems, SequenceTheorems, TLAPS

-----------------------------------------------------------------------------
(* Induction, and the loop of feed *)

\* Every non-empty set of naturals has a least element; so what holds of 0 and
\* passes from each number to the next holds of all.
LEMMA LeastNatural ==
    ASSUME NEW T, T \subseteq Nat, T # {}
    PROVE  \E x \in T : \A y \in T : x <= y
  <1>1. \E x \in T : \A y \in T : ~ (<<y, x>> \in OpToRel(<, Nat))
    BY NatLessThanWellFounded, WFMin, Zenon
  <1>2. \E x \in T : \A y \in T : ~(y < x)
    BY <1>1 DEF OpToRel
  <1> QED BY <1>2

\* Induction over the naturals, with the set of those it holds of.
LEMMA SetInduction ==
    ASSUME NEW S, S \subseteq Nat, 0 \in S, \A n \in S : n + 1 \in S
    PROVE  S = Nat
  <1> SUFFICES ASSUME Nat \ S # {} PROVE FALSE
    OBVIOUS
  <1>1. PICK x \in Nat \ S : \A y \in Nat \ S : x <= y
    BY LeastNatural
  <1>2. x # 0 /\ x - 1 \in Nat /\ x - 1 \notin S
    BY <1>1
  <1> QED BY <1>1, <1>2

\* The Min of the community modules is the least element.
LEMMA MinIsLeast ==
    ASSUME NEW T, T \subseteq Nat, T # {}
    PROVE  Min(T) \in T /\ \A y \in T : Min(T) <= y
  <1>1. \E x \in T : \A y \in T : x <= y
    BY LeastNatural
  <1> QED BY <1>1 DEF Min

\* The lengths of a frame's parts; the header is longer than the magic.
LEMMA LengthType ==
    HeaderLength \in Nat /\ MaxDataLength \in Nat /\ TrailerLength \in Nat /\ HeaderLength >= 2
  <1>1. HeaderLength \in Nat /\ MaxDataLength \in Nat /\ TrailerLength \in Nat
    BY LengthAssumption
  <1>2. \E n \in 1..2 : n < HeaderLength
    BY LengthAssumption
  <1> QED BY <1>1, <1>2

\* A frame is a header, the data that it announces, and a trailer.
LEMMA KindType ==
    ASSUME NEW k \in Kind
    PROVE  /\ Size(k) \in (HeaderLength + TrailerLength)..MaxFrameLength
           /\ Size(k) \in Nat /\ Size(k) >= 2
           /\ \A i \in 1..Size(k) : Image[k][i] \in 0..MaxDataLength
           /\ Size(k) = HeaderLength + Image[k][HeaderLength] + TrailerLength
  <1> USE DEF Size, MaxFrameLength
  <1>1. HeaderLength \in Nat /\ MaxDataLength \in Nat /\ TrailerLength \in Nat /\ HeaderLength >= 2
    BY LengthType
  <1>2. Image[k] \in Seq(0..MaxDataLength)
        /\ Len(Image[k]) = HeaderLength + Image[k][HeaderLength] + TrailerLength
        /\ Len(Image[k]) >= HeaderLength
    BY ImageAssumption
  <1>3. Len(Image[k]) \in Nat /\ \A i \in 1..Len(Image[k]) : Image[k][i] \in 0..MaxDataLength
    BY <1>2, ElementOfSeq, LenProperties
  <1>4. HeaderLength \in 1..Len(Image[k])
    BY <1>1, <1>2, <1>3
  <1>5. Image[k][HeaderLength] \in 0..MaxDataLength
    BY <1>3, <1>4
  <1>6. Len(Image[k]) \in (HeaderLength + TrailerLength)..MaxFrameLength
    <2>1. ASSUME NEW d \in 0..MaxDataLength
          PROVE  HeaderLength + d + TrailerLength
                   \in (HeaderLength + TrailerLength)..MaxFrameLength
      BY <1>1
    <2> QED BY <1>2, <1>5, <2>1
  <1>7. Len(Image[k]) >= 2
    BY <1>1, <1>6
  <1> QED BY <1>2, <1>3, <1>6, <1>7

\* A frame is a sequence of as many bytes as it has.
LEMMA EncodeType ==
    ASSUME NEW k \in Kind
    PROVE  /\ Encode(k) \in Seq(Byte) /\ Len(Encode(k)) = Size(k)
           /\ \A i \in 1..Size(k) : Encode(k)[i] = <<k, i>>
  <1>1. \A i \in 1..Size(k) : <<k, i>> \in Byte
    BY DEF Byte
  <1>2. Size(k) \in Nat
    BY KindType
  <1>3. Encode(k) \in [1..Size(k) -> Byte]
    BY <1>1 DEF Encode
  <1>4. Encode(k) \in Seq(Byte) /\ Len(Encode(k)) = Size(k)
    <2> HIDE DEF Encode
    <2> QED BY <1>2, <1>3, SeqDef
  <1> QED BY <1>4 DEF Encode

\* What a byte is.
LEMMA ByteShape ==
    ASSUME NEW b \in Byte
    PROVE  b = <<b[1], b[2]>> /\ b[1] \in Kind /\ b[2] \in 1..Size(b[1])
           /\ Value(b) \in 0..MaxDataLength
  <1>0. PICK k \in Kind : b \in {k} \X (1..Size(k))
    BY DEF Byte
  <1>1. PICK i \in 1..Size(k) : b = <<k, i>>
    BY <1>0
  <1>2. Image[k][i] \in 0..MaxDataLength
    BY KindType
  <1> QED BY <1>1, <1>2 DEF Value

\* The length that any header announces is at most that of the longest frame.
LEMMA TotalType ==
    ASSUME NEW bytes \in Seq(Byte), NEW i \in 1..Len(bytes), i + HeaderLength - 1 <= Len(bytes)
    PROVE  Total(bytes, i) \in Nat /\ Total(bytes, i) \in 2..MaxFrameLength
  <1>1. HeaderLength \in Nat /\ MaxDataLength \in Nat /\ TrailerLength \in Nat /\ HeaderLength >= 2
    BY LengthType
  <1>2. bytes[i + HeaderLength - 1] \in Byte
    BY <1>1
  <1>3. Value(bytes[i + HeaderLength - 1]) \in 0..MaxDataLength
    BY <1>2, ByteShape
  <1> QED BY <1>1, <1>3 DEF Total, MaxFrameLength

\* The first magic found; and a frame that is complete there ends within the bytes.
LEMMA StartsType ==
    ASSUME NEW bytes \in Seq(Byte), NEW i \in 1..(Len(bytes) + 1), Starts(bytes, i) # {}
    PROVE  LET start == Min(Starts(bytes, i))
           IN  /\ start \in i..Len(bytes) /\ HasMagic(bytes, start)
               /\ \A j \in i..Len(bytes) : HasMagic(bytes, j) => start <= j
               /\ Complete(bytes, start) =>
                    /\ Total(bytes, start) \in 2..MaxFrameLength
                    /\ start + Total(bytes, start) \in (i + 2)..(Len(bytes) + 1)
  <1> DEFINE start == Min(Starts(bytes, i))
  <1>1. Starts(bytes, i) \subseteq Nat
    BY DEF Starts
  <1>2. start \in Starts(bytes, i) /\ \A j \in Starts(bytes, i) : start <= j
    BY <1>1, MinIsLeast
  <1>3. start \in i..Len(bytes) /\ HasMagic(bytes, start)
        /\ \A j \in i..Len(bytes) : HasMagic(bytes, j) => start <= j
    BY <1>2 DEF Starts
  <1>4. ASSUME Complete(bytes, start)
        PROVE  /\ Total(bytes, start) \in 2..MaxFrameLength
               /\ start + Total(bytes, start) \in (i + 2)..(Len(bytes) + 1)
    <2>1. start \in 1..Len(bytes) /\ start + HeaderLength - 1 <= Len(bytes)
          /\ start + Total(bytes, start) - 1 <= Len(bytes)
      BY <1>3, <1>4 DEF Complete
    <2>2. Total(bytes, start) \in Nat /\ Total(bytes, start) \in 2..MaxFrameLength
      BY <2>1, TotalType
    <2> QED BY <1>3, <2>1, <2>2
  <1> QED BY <1>3, <1>4

\* A round depends on later ones only.
LEMMA RoundLooksAhead ==
    ASSUME NEW bytes \in Seq(Byte), NEW i \in 1..(Len(bytes) + 1), NEW F, NEW G,
           \A j \in (i + 1)..(Len(bytes) + 1) : F[j] = G[j]
    PROVE  Round(bytes, F, i) = Round(bytes, G, i)
  <1> DEFINE start == Min(Starts(bytes, i))
             next == start + Total(bytes, start)
  <1>1. CASE Starts(bytes, i) = {} \/ ~Complete(bytes, start)
    BY <1>1 DEF Round
  <1>2. CASE Starts(bytes, i) # {} /\ Complete(bytes, start)
    <2>1. next \in (i + 1)..(Len(bytes) + 1)
      BY <1>2, StartsType
    <2>2. F[next] = G[next]
      BY <2>1
    <2> QED BY <2>2 DEF Round
  <1> QED BY <1>1, <1>2

\* The recursion of Cut is well-defined.
LEMMA CutUnfolds ==
    ASSUME NEW bytes \in Seq(Byte)
    PROVE  \E F : /\ F = [i \in 1..(Len(bytes) + 1) |-> Round(bytes, F, i)]
                 /\ Cut(bytes) = F[1]
  <1> DEFINE L == Len(bytes) + 1
             Fits(F, n) == F = [i \in (L - n)..L |-> Round(bytes, F, i)]
             Done == {n \in Nat : n < L => \E F : Fits(F, n)}
  <1>0. L \in Nat \ {0}
    OBVIOUS
  <1>1. 0 \in Done
    <2> DEFINE F == [i \in L..L |-> Round(bytes, <<>>, i)]
    <2>1. Round(bytes, <<>>, L) = Round(bytes, F, L)
      BY <1>0, RoundLooksAhead
    <2>2. F = [i \in L..L |-> Round(bytes, F, i)]
      BY <1>0, <2>1
    <2>3. Fits(F, 0)
      BY <1>0, <2>2
    <2> QED BY <2>3
  <1>2. ASSUME NEW n \in Done PROVE n + 1 \in Done
    <2> SUFFICES ASSUME n + 1 < L PROVE \E F : Fits(F, n + 1)
      OBVIOUS
    <2>1. PICK G : Fits(G, n)
      BY <1>0
    <2> DEFINE k == L - (n + 1)
               F == [i \in k..L |-> IF i = k THEN Round(bytes, G, k) ELSE G[i]]
    <2>2. k \in 1..L /\ n \in Nat /\ L - n = k + 1
      BY <1>0
    <2>3. \A i \in (k + 1)..L : F[i] = G[i] /\ G[i] = Round(bytes, G, i)
      <3>1. \A i \in (k + 1)..L : i \in k..L /\ i # k /\ i \in (L - n)..L
        BY <1>0, <2>2
      <3>2. \A i \in (k + 1)..L : F[i] = G[i]
        BY <3>1
      <3>3. \A i \in (L - n)..L : G[i] = Round(bytes, G, i)
        BY <2>1
      <3> QED BY <3>1, <3>2, <3>3
    <2>4. \A i \in k..L : Round(bytes, G, i) = Round(bytes, F, i)
      <3> SUFFICES ASSUME NEW i \in k..L PROVE Round(bytes, G, i) = Round(bytes, F, i)
        OBVIOUS
      <3>1. i \in 1..L /\ \A j \in (i + 1)..L : j \in (k + 1)..L
        BY <1>0, <2>2
      <3>2. \A j \in (i + 1)..L : G[j] = F[j]
        BY <2>3, <3>1
      <3> HIDE DEF F
      <3> QED BY <3>1, <3>2, RoundLooksAhead
    <2>5. \A i \in k..L : F[i] = Round(bytes, F, i)
      <3> SUFFICES ASSUME NEW i \in k..L PROVE F[i] = Round(bytes, F, i)
        OBVIOUS
      <3>1. CASE i = k
        <4>1. F[i] = Round(bytes, G, i)
          BY <3>1
        <4> HIDE DEF F
        <4> QED BY <2>4, <4>1
      <3>2. CASE i # k
        <4>1. i \in (k + 1)..L
          <5> HIDE DEF F, Done, Fits, k, L
          <5> QED BY <1>0, <2>2, <3>2
        <4> HIDE DEF F
        <4> QED BY <2>3, <2>4, <4>1
      <3> QED BY <3>1, <3>2
    <2>6. F = [i \in k..L |-> Round(bytes, F, i)]
      BY <2>5
    <2> HIDE DEF F
    <2> QED BY <2>6
  <1>3. Done = Nat
    <2> HIDE DEF Done
    <2>1. Done \subseteq Nat
      BY DEF Done
    <2> QED BY <1>1, <1>2, <2>1, SetInduction
  <1>4. \E F : Fits(F, L - 1)
    <2>1. L - 1 \in Done
      BY <1>0, <1>3
    <2> QED BY <1>0, <2>1
  <1>5. \E F : F = [i \in 1..L |-> Round(bytes, F, i)]
    BY <1>0, <1>4
  <1>6. Cut(bytes) = (CHOOSE F : F = [i \in 1..L |-> Round(bytes, F, i)])[1]
    BY DEF Cut
  <1> HIDE DEF L
  <1> DEFINE F == CHOOSE F : F = [i \in 1..L |-> Round(bytes, F, i)]
  <1>7. F = [i \in 1..L |-> Round(bytes, F, i)]
    BY <1>5
  <1> HIDE DEF F
  <1> QED BY <1>6, <1>7 DEF L, F

\* Downward induction, the direction in which feed's loop is unfolded.
LEMMA DownwardInduction ==
    ASSUME NEW L \in Nat, NEW Good \in SUBSET (1..L),
           \A i \in 1..L : (\A j \in (i + 1)..L : j \in Good) => i \in Good
    PROVE  Good = 1..L
  <1> DEFINE Bad == {n \in Nat : n < L /\ L - n \notin Good}
  <1> SUFFICES ASSUME NEW b \in 1..L, b \notin Good PROVE FALSE
    OBVIOUS
  <1>1. L - b \in Bad
    OBVIOUS
  <1>2. PICK n \in Bad : \A m \in Bad : n <= m
    <2> HIDE DEF Bad
    <2>1. Bad \subseteq Nat
      BY DEF Bad
    <2> QED BY <1>1, <2>1, LeastNatural
  <1>3. n \in Nat /\ n < L /\ L - n \notin Good
    OBVIOUS
  <1>4. ASSUME NEW j \in (L - n + 1)..L PROVE j \in Good
    <2>1. L - j \in Nat /\ L - j < n /\ L - (L - j) = j
      BY <1>3
    <2>2. L - j \notin Bad
      BY <1>2, <1>3, <2>1
    <2> QED BY <1>3, <2>1, <2>2
  <1>5. L - n \in 1..L
    BY <1>3
  <1> HIDE DEF Bad
  <1> QED BY <1>3, <1>4, <1>5

\* Moving a set of numbers does not change how many there are.
LEMMA ShiftedCardinality ==
    ASSUME NEW S \in SUBSET Nat, IsFiniteSet(S), NEW d \in Nat
    PROVE  LET T == {x + d : x \in S}
           IN  IsFiniteSet(T) /\ Cardinality(T) = Cardinality(S)
  <1> DEFINE T == {x + d : x \in S}
             f == [x \in S |-> x + d]
  <1>1. f \in Bijection(S, T)
    <2>1. f \in [S -> T]
      OBVIOUS
    <2>2. \A x, y \in S : f[x] = f[y] => x = y
      OBVIOUS
    <2>3. \A t \in T : \E x \in S : f[x] = t
      OBVIOUS
    <2> QED BY <2>1, <2>2, <2>3 DEF Bijection, Injection, Surjection, IsInjective
  <1> QED BY <1>1, FS_Bijection DEF ExistsBijection

-----------------------------------------------------------------------------
(* Streams *)

IsEnd(b) == b[2] = Size(b[1])

\* Bytes of frames that follow each other: from each byte its frame goes on to
\* its end, and then another one begins.
Stream(s) ==
    \A i \in 1..Len(s) : \A d \in 0..(Len(s) - i) :
        LET left == Size(s[i][1]) - s[i][2]
        IN  /\ d <= left => s[i + d] = <<s[i][1], s[i][2] + d>>
            /\ d = left + 1 => s[i + d][2] = 1

\* Between bytes i - 1 and i one frame ends and another one begins.
AtFrame(s, i) ==
    /\ i \in 1..Len(s) => s[i][2] = 1
    /\ i - 1 \in 1..Len(s) => IsEnd(s[i - 1])

EndsFrom(s, i) == {j \in i..Len(s) : IsEnd(s[j])}

\* Frames that end in some bytes can be counted.
LEMMA EndsFinite ==
    ASSUME NEW s \in Seq(Byte), NEW i \in Nat
    PROVE  IsFiniteSet(EndsFrom(s, i)) /\ Cardinality(EndsFrom(s, i)) \in Nat
  <1>1. IsFiniteSet(i..Len(s))
    BY FS_Interval
  <1>2. EndsFrom(s, i) \in SUBSET (i..Len(s))
    BY DEF EndsFrom
  <1> QED BY <1>1, <1>2, FS_Subset, FS_CardinalityType

\* What the assembler sees at a byte where a frame begins.
LEMMA FrameAt ==
    ASSUME NEW s \in Seq(Byte), Stream(s), NEW i \in 1..Len(s), NEW k \in Kind, s[i] = <<k, 1>>
    PROVE  /\ \A d \in 0..(Size(k) - 1) : i + d <= Len(s) => s[i + d] = <<k, d + 1>>
           /\ HasMagic(s, i) <=> i + Len(Magic) - 1 <= Len(s)
           /\ Complete(s, i) <=> i + Size(k) - 1 <= Len(s)
           /\ Complete(s, i) =>
                /\ Total(s, i) = Size(k)
                /\ SubSeq(s, i, i + Size(k) - 1) = Encode(k)
                /\ AtFrame(s, i + Size(k))
  <1>1. Size(k) \in Nat /\ Size(k) >= 2 /\ Len(s) \in Nat
        /\ Size(k) \in (HeaderLength + TrailerLength)..MaxFrameLength
        /\ Size(k) = HeaderLength + Image[k][HeaderLength] + TrailerLength
    BY KindType, LenProperties
  <1>2. \A d \in 0..(Size(k) - 1) : i + d <= Len(s) => s[i + d] = <<k, d + 1>>
    <2> SUFFICES ASSUME NEW d \in 0..(Size(k) - 1), i + d <= Len(s)
                 PROVE  s[i + d] = <<k, d + 1>>
      OBVIOUS
    <2>1. d \in 0..(Len(s) - i) /\ d <= Size(k) - 1
      BY <1>1
    <2>2. d <= Size(k) - 1 => s[i + d] = <<k, 1 + d>>
      BY <2>1 DEF Stream
    <2> QED BY <2>1, <2>2
  <1>3. HeaderLength \in Nat /\ MaxDataLength \in Nat /\ TrailerLength \in Nat
        /\ HeaderLength >= 2 /\ Len(Magic) \in 1..2 /\ Len(Magic) < HeaderLength
        /\ Magic \in Seq(Nat)
    BY LengthType, LengthAssumption, MagicAssumption
  <1>h. HeaderLength <= Size(k) /\ Len(Magic) \in Nat /\ Len(Magic) <= Size(k)
    <2>1. Size(k) >= HeaderLength + TrailerLength
      BY <1>1, <1>3
    <2>2. HeaderLength <= Size(k)
      BY <1>1, <1>3, <2>1
    <2>3. Len(Magic) \in Nat /\ Len(Magic) < HeaderLength
      BY <1>3
    <2> QED BY <1>1, <1>3, <2>2, <2>3
  <1>4. HasMagic(s, i) <=> i + Len(Magic) - 1 <= Len(s)
    <2> SUFFICES ASSUME i + Len(Magic) - 1 <= Len(s), NEW j \in 1..Len(Magic)
                 PROVE  Value(s[i + j - 1]) = Magic[j]
      BY DEF HasMagic
    <2>0. Len(Magic) \in Nat /\ Len(Magic) <= Size(k) /\ j \in Nat /\ 1 <= j /\ j <= Len(Magic)
      <3>1. j \in 1..Len(Magic)
        OBVIOUS
      <3> QED BY <1>h, <3>1
    <2>1. j - 1 \in 0..(Size(k) - 1) /\ i + (j - 1) <= Len(s) /\ (j - 1) + 1 = j
          /\ i + (j - 1) = i + j - 1
      BY <1>1, <2>0
    <2>2. s[i + j - 1] = <<k, j>>
      BY <1>2, <2>1
    <2>3. Value(<<k, j>>) = Image[k][j]
      BY DEF Value
    <2>4. Image[k][j] = SubSeq(Image[k], 1, Len(Magic))[j]
      <3>1. Image[k] \in Seq(0..MaxDataLength) /\ Len(Image[k]) >= HeaderLength
        BY <1>1, ImageAssumption
      <3> QED BY <1>3, <3>1
    <2>5. SubSeq(Image[k], 1, Len(Magic)) = Magic
      BY <1>1, ImageAssumption
    <2> QED BY <2>2, <2>3, <2>4, <2>5
  <1>5. ASSUME i + HeaderLength - 1 <= Len(s) PROVE Total(s, i) = Size(k)
    <2>1. HeaderLength - 1 \in 0..(Size(k) - 1) /\ i + (HeaderLength - 1) = i + HeaderLength - 1
      BY <1>1, <1>3
    <2>2. s[i + HeaderLength - 1] = <<k, HeaderLength>>
      BY <1>2, <1>3, <1>5, <2>1
    <2> QED BY <1>1, <2>2 DEF Total, Value
  <1>6. Complete(s, i) <=> i + Size(k) - 1 <= Len(s)
    <2>1. i + Size(k) - 1 <= Len(s) => i + HeaderLength - 1 <= Len(s)
      BY <1>1, <1>3, <1>h
    <2>2. Complete(s, i) => i + HeaderLength - 1 <= Len(s) /\ i + Size(k) - 1 <= Len(s)
      BY <1>5 DEF Complete
    <2>3. i + HeaderLength - 1 <= Len(s) /\ i + Size(k) - 1 <= Len(s) => Complete(s, i)
      BY <1>5 DEF Complete
    <2> QED BY <2>1, <2>2, <2>3
  <1>7. ASSUME Complete(s, i)
        PROVE  /\ Total(s, i) = Size(k)
               /\ SubSeq(s, i, i + Size(k) - 1) = Encode(k)
               /\ AtFrame(s, i + Size(k))
    <2>1. i + Size(k) - 1 <= Len(s) /\ Total(s, i) = Size(k)
      BY <1>5, <1>6, <1>7 DEF Complete
    <2>2. SubSeq(s, i, i + Size(k) - 1) = Encode(k)
      <3> DEFINE raw == SubSeq(s, i, i + Size(k) - 1)
      <3>1. raw \in Seq(Byte) /\ Len(raw) = Size(k)
            /\ \A j \in 1..Size(k) : raw[j] = s[i + j - 1]
        BY <1>1, <2>1, ElementOfSeq
      <3>2. ASSUME NEW j \in 1..Size(k) PROVE s[i + j - 1] = <<k, j>>
        <4>1. j - 1 \in 0..(Size(k) - 1) /\ i + (j - 1) <= Len(s) /\ (j - 1) + 1 = j
              /\ i + (j - 1) = i + j - 1
          BY <1>1, <2>1
        <4> QED BY <1>2, <4>1
      <3>3. \A j \in 1..Size(k) : raw[j] = Encode(k)[j]
        <4> HIDE DEF raw
        <4> QED BY <3>1, <3>2, EncodeType
      <3>4. Encode(k) \in Seq(Byte) /\ Len(Encode(k)) = Size(k)
        BY <1>1, EncodeType
      <3> HIDE DEF raw
      <3> QED BY <3>1, <3>3, <3>4, SeqEqual DEF raw
    <2>3. AtFrame(s, i + Size(k))
      <3>1. ASSUME i + Size(k) \in 1..Len(s) PROVE s[i + Size(k)][2] = 1
        <4>1. Size(k) \in 0..(Len(s) - i) /\ Size(k) = (Size(k) - 1) + 1
          BY <1>1, <3>1
        <4> QED BY <4>1 DEF Stream
      <3>0. Size(k) \in Nat /\ Size(k) >= 2 /\ i + Size(k) - 1 <= Len(s)
            /\ Len(s) \in Nat /\ i \in Nat
        BY <1>1, <2>1
      <3>2. Size(k) - 1 \in 0..(Size(k) - 1)
        BY <3>0
      <3>5. i + (Size(k) - 1) <= Len(s) /\ (i + Size(k)) - 1 = i + (Size(k) - 1)
        BY <3>0
      <3>6. (Size(k) - 1) + 1 = Size(k)
        BY <3>0
      <3>3. s[(i + Size(k)) - 1] = <<k, Size(k)>>
        BY <1>2, <3>2, <3>5, <3>6
      <3>4. IsEnd(s[(i + Size(k)) - 1])
        BY <3>3 DEF IsEnd
      <3> QED BY <3>1, <3>4 DEF AtFrame
    <2> QED BY <2>1, <2>2, <2>3
  <1> QED BY <1>1, <1>2, <1>4, <1>6, <1>7

-----------------------------------------------------------------------------
(* Rounds in a stream *)

\* What the rounds from byte i on come to in a stream, if a frame begins there:
\* each frame that ends, and then the beginning of one that does not.
Clean(s, F, i) ==
    /\ F[i].frames \in Seq({Encode(s[j][1]) : j \in i..Len(s)})
    /\ Len(F[i].frames) = Cardinality(EndsFrom(s, i))
    /\ \E j \in i..(Len(s) + 1) :
          AtFrame(s, j) /\ EndsFrom(s, j) = {} /\ F[i].rest = SubSeq(s, j, Len(s))

\* A round that gives nothing out is clean if nothing ends.
LEMMA RestIsClean ==
    ASSUME NEW s \in Seq(Byte), NEW i \in 1..(Len(s) + 1), NEW F, AtFrame(s, i),
           EndsFrom(s, i) = {}, F[i] = [frames |-> <<>>, rest |-> SubSeq(s, i, Len(s))]
    PROVE  Clean(s, F, i)
  <1>1. Cardinality(EndsFrom(s, i)) = 0
    BY FS_EmptySet
  <1>2. F[i].frames = <<>> /\ F[i].rest = SubSeq(s, i, Len(s))
    OBVIOUS
  <1>3. i \in i..(Len(s) + 1)
    OBVIOUS
  <1> HIDE DEF EndsFrom
  <1> QED BY <1>1, <1>2, <1>3 DEF Clean

\* Where no magic can begin any more, what is left is kept as it is.
LEMMA LastRemains ==
    ASSUME NEW s \in Seq(Byte), NEW i \in Nat, i >= Len(s)
    PROVE  Remainder(s, i) = SubSeq(s, i, Len(s))
  <1>1. Max({i, Len(s)}) = i
    BY DEF Max
  <1> QED BY <1>1 DEF Remainder

\* One round, if those further on are clean.
LEMMA RoundIsClean ==
    ASSUME NEW s \in Seq(Byte), Stream(s), NEW i \in 1..(Len(s) + 1), AtFrame(s, i),
           NEW F, F[i] = Round(s, F, i),
           \A j \in (i + 1)..(Len(s) + 1) : AtFrame(s, j) => Clean(s, F, j)
    PROVE  Clean(s, F, i)
  <1>0. Len(s) \in Nat /\ Len(Magic) \in 1..2
    BY LengthAssumption
  <1>1. CASE i = Len(s) + 1
    <2>1. Starts(s, i) = {} /\ EndsFrom(s, i) = {}
      BY <1>0, <1>1 DEF Starts, EndsFrom
    <2>2. F[i] = [frames |-> <<>>, rest |-> SubSeq(s, i, Len(s))]
      BY <1>0, <1>1, <2>1, LastRemains DEF Round
    <2> QED BY <2>1, <2>2, RestIsClean
  <1>2. CASE i \in 1..Len(s)
    <2>1. PICK k \in Kind : s[i] = <<k, 1>>
      BY <1>2, ByteShape, ElementOfSeq DEF AtFrame
    <2>2. Size(k) \in Nat /\ Size(k) >= 2
      BY KindType
    <2>3. /\ \A d \in 0..(Size(k) - 1) : i + d <= Len(s) => s[i + d] = <<k, d + 1>>
          /\ HasMagic(s, i) <=> i + Len(Magic) - 1 <= Len(s)
          /\ Complete(s, i) <=> i + Size(k) - 1 <= Len(s)
          /\ Complete(s, i) =>
               /\ Total(s, i) = Size(k)
               /\ SubSeq(s, i, i + Size(k) - 1) = Encode(k)
               /\ AtFrame(s, i + Size(k))
      BY <1>2, <2>1, FrameAt
    <2>4. \A j \in i..Len(s) : j < i + Size(k) => s[j] = <<k, j - i + 1>>
      <3> SUFFICES ASSUME NEW j \in i..Len(s), j < i + Size(k) PROVE s[j] = <<k, j - i + 1>>
        OBVIOUS
      <3>1. j - i \in 0..(Size(k) - 1) /\ i + (j - i) = j
        BY <1>0, <2>2
      <3> QED BY <2>3, <3>1
    <2>5. \A j \in i..Len(s) : j < i + Size(k) => (IsEnd(s[j]) <=> j = i + Size(k) - 1)
      BY <2>2, <2>4 DEF IsEnd
    <2>6. CASE ~HasMagic(s, i)
      <3>0. ~(i + Len(Magic) - 1 <= Len(s))
        BY <2>3, <2>6
      <3>1. i = Len(s)
        <4>1. PICK m \in 1..2 : m = Len(Magic)
          BY <1>0
        <4>2. ~(i + m - 1 <= Len(s))
          BY <3>0, <4>1
        <4> QED BY <1>0, <1>2, <4>2
      <3>2. Starts(s, i) = {}
        BY <1>0, <2>6, <3>1 DEF Starts
      <3>3. EndsFrom(s, i) = {}
        BY <1>0, <2>2, <2>5, <3>1 DEF EndsFrom
      <3>4. Remainder(s, i) = SubSeq(s, i, Len(s))
        <4>1. i \in Nat /\ i >= Len(s)
          BY <1>0, <3>1
        <4> QED BY <4>1, LastRemains
      <3>5. F[i] = [frames |-> <<>>, rest |-> SubSeq(s, i, Len(s))]
        BY <3>2, <3>4 DEF Round
      <3> QED BY <3>3, <3>5, RestIsClean
    <2>7. CASE HasMagic(s, i)
      <3>1. i \in Starts(s, i)
        BY <1>2, <2>7 DEF Starts
      <3>2. Min(Starts(s, i)) = i
        <4>1. /\ Min(Starts(s, i)) \in i..Len(s)
              /\ \A j \in i..Len(s) : HasMagic(s, j) => Min(Starts(s, i)) <= j
          BY <3>1, StartsType
        <4>2. i \in i..Len(s) /\ i \in Int
          BY <1>2
        <4>3. Min(Starts(s, i)) <= i
          BY <2>7, <4>1, <4>2
        <4> QED BY <4>1, <4>2, <4>3
      <3>3. CASE ~Complete(s, i)
        <4>1. F[i] = [frames |-> <<>>, rest |-> SubSeq(s, i, Len(s))]
          BY <3>1, <3>2, <3>3 DEF Round
        <4>2. \A j \in i..Len(s) : j < i + Size(k) - 1
          BY <1>0, <2>2, <2>3, <3>3
        <4>3. EndsFrom(s, i) = {}
          BY <2>2, <2>5, <4>2 DEF EndsFrom
        <4> QED BY <4>1, <4>3, RestIsClean
      <3>4. CASE Complete(s, i)
        <4> DEFINE next == i + Size(k)
        <4>1. /\ next \in (i + 1)..(Len(s) + 1) /\ AtFrame(s, next)
              /\ F[i].frames = <<Encode(k)>> \o F[next].frames
              /\ F[i].rest = F[next].rest
          <5>1. /\ i + Size(k) - 1 <= Len(s) /\ Total(s, i) = Size(k) /\ AtFrame(s, next)
                /\ SubSeq(s, i, next - 1) = Encode(k)
            <6>1. i + Size(k) - 1 <= Len(s)
              BY <2>3, <3>4
            <6>2. Total(s, i) = Size(k)
              BY <2>3, <3>4
            <6>3. AtFrame(s, next)
              BY <2>3, <3>4
            <6>4. i + Size(k) - 1 = next - 1
              BY <2>2
            <6>5. SubSeq(s, i, next - 1) = Encode(k)
              BY <2>3, <3>4, <6>4
            <6> HIDE DEF next
            <6> QED BY <6>1, <6>2, <6>3, <6>5
          <5>2. next \in (i + 1)..(Len(s) + 1)
            BY <1>0, <1>2, <2>2, <5>1
          <5>3. F[i] = [frames |-> <<SubSeq(s, i, next - 1)>> \o F[next].frames,
                        rest |-> F[next].rest]
            BY <3>1, <3>2, <3>4, <5>1 DEF Round
          <5>4. F[i].frames = <<SubSeq(s, i, next - 1)>> \o F[next].frames
                /\ F[i].rest = F[next].rest
            BY <5>3
          <5> HIDE DEF next
          <5> QED BY <5>1, <5>2, <5>4
        <4>2. Clean(s, F, next)
          BY <4>1
        <4>3. PICK j \in next..(Len(s) + 1) : /\ AtFrame(s, j) /\ EndsFrom(s, j) = {}
                                             /\ F[next].rest = SubSeq(s, j, Len(s))
          BY <4>2 DEF Clean
        <4>4. j \in i..(Len(s) + 1)
          BY <1>0, <2>2
        <4>5. F[i].frames \in Seq({Encode(s[m][1]) : m \in i..Len(s)})
              /\ Len(F[i].frames) = Len(F[next].frames) + 1
          <5> DEFINE Old == {Encode(s[m][1]) : m \in next..Len(s)}
                     New == {Encode(s[m][1]) : m \in i..Len(s)}
          <5>1. Old \subseteq New
            BY <1>0, <4>1
          <5>2. Encode(k) \in New
            BY <1>2, <2>1
          <5>3. F[next].frames \in Seq(Old)
            BY <4>2 DEF Clean
          <5> HIDE DEF Old, New
          <5>4. F[next].frames \in Seq(New)
            BY <5>1, <5>3, SeqMonotonic
          <5>5. <<Encode(k)>> \in Seq(New) /\ Len(<<Encode(k)>>) = 1
            BY <5>2
          <5>6. /\ F[i].frames \in Seq(New)
                /\ Len(F[i].frames) = Len(<<Encode(k)>>) + Len(F[next].frames)
            BY <4>1, <5>4, <5>5, ConcatProperties
          <5>7. Len(F[next].frames) \in Nat
            BY <5>4, LenProperties
          <5> QED BY <5>5, <5>6, <5>7 DEF New
        <4>6. EndsFrom(s, i) = EndsFrom(s, next) \cup {next - 1}
          <5>1. next - 1 \in i..Len(s) /\ next - 1 < next
            BY <1>0, <2>2, <4>1
          <5>2. \A m \in i..Len(s) : m \in next..Len(s) \/ m < next
            BY <1>0, <2>2, <4>1
          <5>3. \A m \in next..Len(s) : m \in i..Len(s)
            BY <1>0, <2>2, <4>1
          <5> QED BY <2>2, <2>5, <5>1, <5>2, <5>3 DEF EndsFrom
        <4>7. next - 1 \notin EndsFrom(s, next)
          BY <2>2 DEF EndsFrom
        <4>8. Cardinality(EndsFrom(s, i)) = Cardinality(EndsFrom(s, next)) + 1
          <5>1. IsFiniteSet(EndsFrom(s, next))
            BY <4>1, <2>2, EndsFinite
          <5> QED BY <4>6, <4>7, <5>1, FS_AddElement
        <4>9. Len(F[next].frames) = Cardinality(EndsFrom(s, next))
          BY <4>2 DEF Clean
        <4> QED BY <4>1, <4>3, <4>4, <4>5, <4>8, <4>9 DEF Clean
      <3> QED BY <3>3, <3>4
    <2> QED BY <2>6, <2>7
  <1> QED BY <1>0, <1>1, <1>2

-----------------------------------------------------------------------------
(* What feed makes of a stream *)

\* The Max of two numbers.
LEMMA MaxOfTwo ==
    ASSUME NEW a \in Nat, NEW b \in Nat, a <= b
    PROVE  Max({a, b}) = b
  BY DEF Max

\* What feed makes of a stream: from the first frame that begins in it on, unless
\* there is something like a magic before that, all the frames that end; and what
\* it keeps is the beginning of the next frame, or the last byte of a stream in
\* which no frame begins.
LEMMA CutOfStream ==
    ASSUME NEW s \in Seq(Byte), Stream(s), NEW i \in 1..(Len(s) + 1), AtFrame(s, i),
           \A m \in 1..(i - 1) : ~HasMagic(s, m)
    PROVE  /\ Cut(s).frames \in Seq({Encode(s[j][1]) : j \in i..Len(s)})
           /\ Len(Cut(s).frames) = Cardinality(EndsFrom(s, i))
           /\ \/ \E j \in i..(Len(s) + 1) : /\ AtFrame(s, j) /\ EndsFrom(s, j) = {}
                                           /\ Cut(s).rest = SubSeq(s, j, Len(s))
              \/ /\ i = Len(s) + 1 /\ i > 1
                 /\ Cut(s).rest = SubSeq(s, Len(s), Len(s))
  <1> DEFINE L == Len(s) + 1
  <1>0. L \in Nat \ {0} /\ Len(s) \in Nat /\ 1 \in 1..L
    OBVIOUS
  <1>1. PICK F : F = [j \in 1..L |-> Round(s, F, j)] /\ Cut(s) = F[1]
    BY CutUnfolds
  <1>2. \A j \in 1..L : F[j] = Round(s, F, j)
    BY <1>1
  <1>3. Clean(s, F, i)
    <2> DEFINE Good == {j \in 1..L : AtFrame(s, j) => Clean(s, F, j)}
    <2>1. ASSUME NEW j \in 1..L, \A m \in (j + 1)..L : m \in Good PROVE j \in Good
      BY <1>2, <2>1, RoundIsClean
    <2>2. Good \in SUBSET (1..L)
      OBVIOUS
    <2> HIDE DEF Good
    <2>3. Good = 1..L
      BY <1>0, <2>1, <2>2, DownwardInduction
    <2>4. i \in Good
      BY <2>3
    <2> QED BY <2>4 DEF Good
  <1>4. Starts(s, 1) = Starts(s, i)
    <2>1. \A m \in 1..Len(s) : HasMagic(s, m) => m \in i..Len(s)
      BY <1>0
    <2>2. \A m \in i..Len(s) : m \in 1..Len(s)
      OBVIOUS
    <2> QED BY <2>1, <2>2 DEF Starts
  <1>5. CASE Starts(s, i) # {}
    <2>1. F[1] = F[i]
      <3>1. Round(s, F, 1) = Round(s, F, i)
        BY <1>4, <1>5 DEF Round
      <3> QED BY <1>0, <1>2, <3>1
    <2> QED BY <1>1, <1>3, <2>1 DEF Clean
  <1>6. CASE Starts(s, i) = {}
    <2>1. /\ F[1] = [frames |-> <<>>, rest |-> Remainder(s, 1)]
          /\ F[i] = [frames |-> <<>>, rest |-> Remainder(s, i)]
      BY <1>0, <1>2, <1>4, <1>6 DEF Round
    <2>2. CASE i <= Len(s)
      <3>1. Max({1, Len(s)}) = Len(s) /\ Max({i, Len(s)}) = Len(s)
        BY <1>0, <2>2, MaxOfTwo
      <3>2. Remainder(s, 1) = Remainder(s, i)
        BY <3>1 DEF Remainder
      <3>3. F[1] = F[i]
        BY <2>1, <3>2
      <3> QED BY <1>1, <1>3, <3>3 DEF Clean
    <2>3. CASE i = Len(s) + 1 /\ i > 1
      <3>1. Max({1, Len(s)}) = Len(s)
        BY <1>0, <2>3, MaxOfTwo
      <3>2. Cut(s).rest = SubSeq(s, Len(s), Len(s)) /\ Cut(s).frames = F[i].frames
        <4>1. Cut(s).rest = Remainder(s, 1) /\ Cut(s).frames = <<>> /\ F[i].frames = <<>>
          BY <1>1, <2>1
        <4> QED BY <3>1, <4>1 DEF Remainder
      <3> QED BY <1>3, <2>3, <3>2 DEF Clean
    <2>4. CASE i = 1
      <3>1. Cut(s) = F[i]
        BY <1>1, <2>4
      <3> QED BY <1>3, <3>1 DEF Clean
    <2>5. i <= Len(s) \/ (i = Len(s) + 1 /\ i > 1) \/ i = 1
      BY <1>0
    <2> QED BY <2>2, <2>3, <2>4, <2>5
  <1> QED BY <1>5, <1>6

-----------------------------------------------------------------------------
(* Any bytes *)

\* No frame is complete in these bytes.
Quiet(b) == Len(b) <= 1 \/ (HasMagic(b, 1) /\ ~Complete(b, 1))

\* No more frames are whole than there are, and all are if each is.
LEMMA WholeType ==
    ASSUME NEW X, NEW fs \in Seq(X)
    PROVE  Whole(fs) \in Nat /\ Whole(fs) <= Len(fs)
           /\ ((\A i \in 1..Len(fs) : Decode(fs[i]) # {}) => Whole(fs) = Len(fs))
  <1> DEFINE W == {i \in 1..Len(fs) : Decode(fs[i]) # {}}
  <1>0. Len(fs) \in Nat
    OBVIOUS
  <1>1. IsFiniteSet(1..Len(fs)) /\ Cardinality(1..Len(fs)) = Len(fs)
    <2>1. \A n \in Nat : IsFiniteSet(1..n) /\ Cardinality(1..n) = n
      <3>1. TAKE n \in Nat
      <3>2. 1 \in Int /\ n \in Int /\ (1 > n => n = 0) /\ n - 1 + 1 = n
        OBVIOUS
      <3> QED BY <3>1, <3>2, FS_Interval
    <2> HIDE DEF W
    <2> QED BY <1>0, <2>1
  <1>2. W \in SUBSET (1..Len(fs))
    OBVIOUS
  <1>3. (\A i \in 1..Len(fs) : Decode(fs[i]) # {}) => W = 1..Len(fs)
    OBVIOUS
  <1>4. Whole(fs) = Cardinality(W)
    BY DEF Whole
  <1> HIDE DEF W
  <1>5. Cardinality(W) \in Nat /\ Cardinality(W) <= Len(fs)
    BY <1>1, <1>2, FS_Subset, FS_CardinalityType
  <1> QED BY <1>1, <1>3, <1>4, <1>5

\* How one more frame counts.
LEMMA WholeCons ==
    ASSUME NEW X, NEW fs \in Seq(X), NEW raw \in X
    PROVE  Whole(<<raw>> \o fs) = IF Decode(raw) = {} THEN Whole(fs) ELSE Whole(fs) + 1
  <1> DEFINE all == <<raw>> \o fs
             W == {i \in 1..Len(fs) : Decode(fs[i]) # {}}
             Later == {i + 1 : i \in W}
             Wall == {i \in 1..Len(all) : Decode(all[i]) # {}}
  <1>1. Len(fs) \in Nat /\ Len(all) = Len(fs) + 1 /\ all[1] = raw
        /\ \A i \in 1..Len(fs) : all[i + 1] = fs[i]
    OBVIOUS
  <1>2. IsFiniteSet(W) /\ W \in SUBSET Nat
    <2>1. IsFiniteSet(1..Len(fs))
      BY FS_Interval
    <2> QED BY <2>1, FS_Subset
  <1>3. IsFiniteSet(Later) /\ Cardinality(Later) = Cardinality(W) /\ 1 \notin Later
    <2>1. 1 \notin Later
      OBVIOUS
    <2> HIDE DEF W
    <2>2. 1 \in Nat
      OBVIOUS
    <2> QED BY <1>2, <2>1, <2>2, ShiftedCardinality
  <1>4. Wall = IF Decode(raw) = {} THEN Later ELSE Later \cup {1}
    <2> HIDE DEF all
    <2>1. \A i \in 1..Len(all) : i = 1 \/ (i - 1 \in 1..Len(fs) /\ (i - 1) + 1 = i)
      BY <1>1
    <2>2. \A i \in 1..Len(all) : i # 1 => (i \in Later <=> Decode(all[i]) # {})
      <3> SUFFICES ASSUME NEW i \in 1..Len(all), i # 1
                   PROVE  i \in Later <=> Decode(all[i]) # {}
        OBVIOUS
      <3>1. i - 1 \in 1..Len(fs) /\ (i - 1) + 1 = i /\ all[i] = fs[i - 1]
        BY <1>1, <2>1
      <3>2. \A j \in W : j + 1 = i => j = i - 1
        BY <1>1
      <3> QED BY <3>1, <3>2
    <2>3. Later \subseteq 1..Len(all)
      BY <1>1
    <2>4. 1 \in 1..Len(all) /\ (1 \in Wall <=> Decode(raw) # {})
      BY <1>1
    <2> HIDE DEF Later
    <2> QED BY <1>3, <2>2, <2>3, <2>4
  <1>5. Cardinality(W) \in Nat
    BY <1>2, FS_CardinalityType
  <1>6. Whole(fs) = Cardinality(W) /\ Whole(all) = Cardinality(Wall)
    BY DEF Whole
  <1> HIDE DEF W, Later, Wall, all
  <1>7. Cardinality(Wall) = IF Decode(raw) = {} THEN Cardinality(W) ELSE Cardinality(W) + 1
    BY <1>3, <1>4, FS_AddElement
  <1> QED BY <1>6, <1>7 DEF all

\* What a round gives out and keeps of any bytes at all.  Each frame that is
\* whole ends in a byte that ends a frame; p is a byte that the first one reaches.
Bounded(s, F, i, p) ==
    /\ F[i].frames \in Seq(Seq(Byte))
    /\ F[i].rest \in Seq(Byte) /\ Len(F[i].rest) < MaxFrameLength /\ Quiet(F[i].rest)
    /\ Whole(F[i].frames) <= Cardinality(EndsFrom(s, p))

\* The last byte of a slice is the one it ends with.
LEMMA LastOfSlice ==
    ASSUME NEW s \in Seq(Byte), NEW start \in Nat, NEW next \in Nat,
           1 <= start, start <= next - 1, next - 1 <= Len(s)
    PROVE  LET raw == SubSeq(s, start, next - 1)
           IN  Len(raw) = next - start /\ raw[next - start] = s[next - 1]
  <1> DEFINE raw == SubSeq(s, start, next - 1)
  <1>1. \A i \in start..(next - 1) : s[i] \in Byte
    BY ElementOfSeq
  <1>2. /\ Len(raw) = (next - 1) - start + 1
        /\ \A i \in 1..((next - 1) - start + 1) : raw[i] = s[start + i - 1]
    BY <1>1, SubSeqProperties
  <1>3. (next - 1) - start + 1 = next - start /\ next - start \in 1..(next - start)
        /\ start + (next - start) - 1 = next - 1
    OBVIOUS
  <1> QED BY <1>2, <1>3

\* One round over any bytes, if those further on are bounded.
LEMMA RoundIsBounded ==
    ASSUME NEW s \in Seq(Byte), NEW i \in 1..(Len(s) + 1),
           NEW F, F[i] = Round(s, F, i),
           \A j \in (i + 1)..(Len(s) + 1) : Bounded(s, F, j, j),
           NEW p \in Nat,
           LET start == Min(Starts(s, i))
           IN  Starts(s, i) # {} /\ Complete(s, start) => p < start + Total(s, start)
    PROVE  Bounded(s, F, i, p)
  <1> DEFINE start == Min(Starts(s, i))
             next == start + Total(s, start)
  <1>0. Len(s) \in Nat
    OBVIOUS
  <1>1. /\ HeaderLength \in Nat /\ MaxDataLength \in Nat /\ TrailerLength \in Nat
        /\ HeaderLength >= 2 /\ MaxFrameLength \in Nat /\ MaxFrameLength >= HeaderLength
    BY LengthType DEF MaxFrameLength
  <1>2. PICK M \in 1..2 : M = Len(Magic)
    BY LengthAssumption
  <1>3. Whole(<<>>) = 0
    BY FS_EmptySet DEF Whole
  <1>4. Cardinality(EndsFrom(s, p)) \in Nat
    BY EndsFinite
  <1>5. CASE Starts(s, i) = {}
    <2> DEFINE m == Max({i, Len(s)})
    <2>1. m \in Nat /\ m >= Len(s) /\ m >= 1
      <3>1. i \in Nat /\ i >= 1
        OBVIOUS
      <3>2. CASE i <= Len(s)
        BY <1>0, <3>1, <3>2, MaxOfTwo
      <3>3. CASE Len(s) <= i
        <4>1. {i, Len(s)} = {Len(s), i}
          OBVIOUS
        <4> QED BY <1>0, <3>1, <3>3, <4>1, MaxOfTwo
      <3> QED BY <1>0, <3>1, <3>2, <3>3
    <2>2. F[i].frames = <<>> /\ F[i].rest = SubSeq(s, m, Len(s))
      <3>1. F[i] = [frames |-> <<>>, rest |-> Remainder(s, i)]
        BY <1>5 DEF Round
      <3>2. Remainder(s, i) = SubSeq(s, m, Len(s))
        BY DEF Remainder
      <3>3. F[i].frames = <<>> /\ F[i].rest = Remainder(s, i)
        BY <3>1
      <3> QED BY <3>2, <3>3
    <2> HIDE DEF m
    <2>3. SubSeq(s, m, Len(s)) \in Seq(Byte) /\ Len(SubSeq(s, m, Len(s))) <= 1
      BY <1>0, <2>1, ElementOfSeq
    <2> QED BY <1>1, <1>3, <1>4, <2>2, <2>3 DEF Bounded, Quiet
  <1>6. CASE Starts(s, i) # {} /\ ~Complete(s, start)
    <2> DEFINE rest == SubSeq(s, start, Len(s))
    <2>1. start \in 1..Len(s) /\ HasMagic(s, start)
      BY <1>6, StartsType
    <2>2. F[i].frames = <<>> /\ F[i].rest = rest
      <3>1. F[i] = [frames |-> <<>>, rest |-> rest]
        BY <1>6 DEF Round
      <3> HIDE DEF rest
      <3> QED BY <3>1
    <2> HIDE DEF start
    <2>3. rest \in Seq(Byte) /\ Len(rest) = Len(s) - start + 1 /\ Len(rest) \in Nat
          /\ \A j \in 1..Len(rest) : rest[j] = s[start + j - 1]
      BY <1>0, <2>1, ElementOfSeq
    <2> HIDE DEF rest
    <2>4. HasMagic(rest, 1)
      <3>1. start + M - 1 <= Len(s) /\ \A j \in 1..M : Value(s[start + j - 1]) = Magic[j]
        BY <1>2, <2>1 DEF HasMagic
      <3>2. 1 + M - 1 <= Len(rest)
        BY <1>0, <2>1, <2>3, <3>1
      <3>3. \A j \in 1..M : 1 + j - 1 = j /\ rest[j] = s[start + j - 1]
        BY <1>0, <2>1, <2>3, <3>2
      <3> QED BY <1>2, <3>1, <3>2, <3>3 DEF HasMagic
    <2>5. ASSUME HeaderLength <= Len(rest)
          PROVE  /\ start + HeaderLength - 1 <= Len(s)
                 /\ Total(rest, 1) = Total(s, start)
                 /\ Total(s, start) \in 2..MaxFrameLength
                 /\ ~(Total(s, start) <= Len(rest))
      <3>1. start + HeaderLength - 1 <= Len(s)
        BY <1>0, <1>1, <2>1, <2>3, <2>5
      <3>2. rest[1 + HeaderLength - 1] = s[start + HeaderLength - 1]
        <4>1. 1 + HeaderLength - 1 = HeaderLength /\ HeaderLength \in 1..Len(rest)
          BY <1>1, <2>3, <2>5
        <4> QED BY <2>3, <4>1
      <3>3. Total(rest, 1) = Total(s, start)
        BY <3>2 DEF Total
      <3>4. Total(s, start) \in 2..MaxFrameLength
        BY <2>1, <3>1, TotalType
      <3>5. ~(start + Total(s, start) - 1 <= Len(s))
        BY <1>6, <3>1 DEF Complete, start
      <3> HIDE DEF Total
      <3> QED BY <1>0, <1>1, <2>1, <2>3, <3>1, <3>3, <3>4, <3>5
    <2>6. ~Complete(rest, 1)
      <3> SUFFICES ASSUME Complete(rest, 1) PROVE FALSE
        OBVIOUS
      <3>1. 1 + HeaderLength - 1 <= Len(rest) /\ 1 + Total(rest, 1) - 1 <= Len(rest)
        BY DEF Complete
      <3>2. HeaderLength <= Len(rest)
        BY <1>1, <2>3, <3>1
      <3> HIDE DEF Total
      <3> QED BY <1>1, <2>3, <2>5, <3>1, <3>2
    <2>7. Len(rest) < MaxFrameLength
      BY <1>1, <2>3, <2>5
    <2> QED BY <1>3, <1>4, <2>2, <2>3, <2>4, <2>6, <2>7 DEF Bounded, Quiet
  <1>7. CASE Starts(s, i) # {} /\ Complete(s, start)
    <2> DEFINE raw == SubSeq(s, start, next - 1)
    <2>1. start \in i..Len(s) /\ Total(s, start) \in 2..MaxFrameLength
          /\ next \in (i + 2)..(Len(s) + 1)
      BY <1>7, StartsType
    <2>2. next \in (i + 1)..(Len(s) + 1) /\ next \in Nat /\ next - 1 \in 1..Len(s)
      BY <1>0, <2>1
    <2>3. Bounded(s, F, next, next)
      BY <2>2
    <2>4. F[i].frames = <<raw>> \o F[next].frames /\ F[i].rest = F[next].rest
      BY <1>7 DEF Round
    <2>5. p <= next - 1
      BY <1>7, <2>2
    <2>6. raw \in Seq(Byte)
      BY <1>0, <2>1, <2>2, ElementOfSeq
    <2>7. ASSUME Decode(raw) # {} PROVE IsEnd(s[next - 1])
      <3>1. PICK k \in Kind : raw = Encode(k)
        BY <2>7 DEF Decode
      <3>2. Size(k) \in Nat /\ Size(k) >= 2 /\ Len(raw) = Size(k) /\ raw[Size(k)] = <<k, Size(k)>>
        <4>1. Size(k) \in Nat /\ Size(k) >= 2
          BY KindType
        <4>2. Size(k) \in 1..Size(k)
          BY <4>1
        <4> HIDE DEF raw
        <4> QED BY <3>1, <4>1, <4>2, EncodeType
      <3>n. start \in Nat /\ 1 <= start /\ start <= next - 1
        BY <1>0, <2>1
      <3> HIDE DEF next, start
      <3>3. Len(raw) = next - start /\ raw[next - start] = s[next - 1]
        <4>1. next \in Nat /\ next - 1 <= Len(s)
          BY <1>0, <2>2
        <4> QED BY <3>n, <4>1, LastOfSlice
      <3> HIDE DEF raw
      <3>4. s[next - 1] = <<k, Size(k)>>
        BY <3>2, <3>3
      <3> QED BY <3>4 DEF IsEnd
    <2> HIDE DEF next, raw
    <2>8. F[next].frames \in Seq(Seq(Byte)) /\ Whole(F[next].frames) \in Nat
          /\ Whole(F[next].frames) <= Cardinality(EndsFrom(s, next))
      BY <2>3, WholeType DEF Bounded
    <2>9. F[i].frames \in Seq(Seq(Byte))
      BY <2>4, <2>6, <2>8
    <2>10. Whole(F[i].frames) <= Cardinality(EndsFrom(s, p))
      <3>1. IsFiniteSet(EndsFrom(s, p)) /\ IsFiniteSet(EndsFrom(s, next))
            /\ Cardinality(EndsFrom(s, next)) \in Nat
        BY <2>2, EndsFinite
      <3>2. EndsFrom(s, next) \subseteq EndsFrom(s, p)
        BY <1>0, <2>2, <2>5 DEF EndsFrom
      <3>3. CASE Decode(raw) = {}
        <4>1. Whole(F[i].frames) = Whole(F[next].frames)
          BY <2>4, <2>6, <2>8, <3>3, WholeCons
        <4>2. Cardinality(EndsFrom(s, next)) <= Cardinality(EndsFrom(s, p))
          BY <3>1, <3>2, FS_Subset
        <4> QED BY <1>4, <2>8, <3>1, <4>1, <4>2
      <3>4. CASE Decode(raw) # {}
        <4>1. Whole(F[i].frames) = Whole(F[next].frames) + 1
          BY <2>4, <2>6, <2>8, <3>4, WholeCons
        <4>2. next - 1 \in EndsFrom(s, p) /\ next - 1 \notin EndsFrom(s, next)
          BY <1>0, <2>2, <2>5, <2>7, <3>4 DEF EndsFrom
        <4>3. Cardinality(EndsFrom(s, next) \cup {next - 1}) = Cardinality(EndsFrom(s, next)) + 1
          BY <3>1, <4>2, FS_AddElement
        <4>4. Cardinality(EndsFrom(s, next) \cup {next - 1}) <= Cardinality(EndsFrom(s, p))
          <5>1. EndsFrom(s, next) \cup {next - 1} \in SUBSET EndsFrom(s, p)
            BY <3>2, <4>2
          <5> QED BY <3>1, <5>1, FS_Subset
        <4> QED BY <1>4, <2>8, <3>1, <4>1, <4>3, <4>4
      <3> QED BY <3>3, <3>4
    <2> QED BY <2>3, <2>4, <2>9, <2>10 DEF Bounded
  <1> QED BY <1>5, <1>6, <1>7

\* Whatever it is fed, an assembler keeps less than a frame, and that without
\* cutting it off; and it gives out no more frames that are whole than end in
\* what it is fed, if no frame was complete in what it had.
LEMMA CutOfAnything ==
    ASSUME NEW s \in Seq(Byte), NEW m \in 0..Len(s), Quiet(SubSeq(s, 1, m))
    PROVE  /\ Cut(s).frames \in Seq(Seq(Byte))
           /\ Cut(s).rest \in Seq(Byte) /\ Len(Cut(s).rest) < MaxFrameLength
           /\ Quiet(Cut(s).rest)
           /\ Whole(Cut(s).frames) <= Cardinality(EndsFrom(s, m + 1))
  <1> DEFINE L == Len(s) + 1
             start == Min(Starts(s, 1))
  <1>0. L \in Nat \ {0} /\ Len(s) \in Nat /\ 1 \in 1..L
    OBVIOUS
  <1>1. PICK F : F = [j \in 1..L |-> Round(s, F, j)] /\ Cut(s) = F[1]
    BY CutUnfolds
  <1>2. \A j \in 1..L : F[j] = Round(s, F, j)
    BY <1>1
  <1>3. \A i \in 1..L : Bounded(s, F, i, i)
    <2> DEFINE Good == {j \in 1..L : Bounded(s, F, j, j)}
    <2>1. ASSUME NEW j \in 1..L, \A n \in (j + 1)..L : n \in Good PROVE j \in Good
      <3>1. LET first == Min(Starts(s, j))
            IN  Starts(s, j) # {} /\ Complete(s, first) => j < first + Total(s, first)
        BY <1>0, StartsType
      <3> QED BY <1>0, <1>2, <2>1, <3>1, RoundIsBounded
    <2>2. Good \in SUBSET (1..L)
      OBVIOUS
    <2> HIDE DEF Good
    <2>3. Good = 1..L
      BY <1>0, <2>1, <2>2, DownwardInduction
    <2> QED BY <2>3 DEF Good
  <1>4. Starts(s, 1) # {} /\ Complete(s, start) => m + 1 < start + Total(s, start)
    <2> SUFFICES ASSUME Starts(s, 1) # {}, Complete(s, start)
                 PROVE  m + 1 < start + Total(s, start)
      OBVIOUS
    <2>0. /\ HeaderLength \in Nat /\ HeaderLength >= 2
      BY LengthType
    <2>1. start \in 1..Len(s) /\ Total(s, start) \in 2..MaxFrameLength
          /\ \A j \in 1..Len(s) : HasMagic(s, j) => start <= j
      BY <1>0, StartsType
    <2>2. MaxFrameLength \in Nat
      BY LengthType DEF MaxFrameLength
    <2> DEFINE b == SubSeq(s, 1, m)
    <2>3. Len(b) = m /\ \A j \in 1..m : b[j] = s[j]
      BY <1>0, ElementOfSeq
    <2>4. CASE m <= 1
      BY <1>0, <2>1, <2>2, <2>4
    <2>5. CASE ~(m <= 1)
      <3>1. HasMagic(b, 1) /\ ~Complete(b, 1)
        BY <2>3, <2>5 DEF Quiet
      <3>2. PICK M \in 1..2 : M = Len(Magic)
        BY LengthAssumption
      <3> HIDE DEF b
      <3>3. HasMagic(s, 1)
        <4>1. 1 + M - 1 <= m /\ \A j \in 1..M : Value(b[1 + j - 1]) = Magic[j]
          BY <2>3, <3>1, <3>2 DEF HasMagic
        <4>2. \A j \in 1..M : 1 + j - 1 = j /\ b[j] = s[j]
          BY <2>3, <4>1
        <4>3. 1 + M - 1 <= Len(s)
          BY <1>0, <4>1
        <4> QED BY <3>2, <4>1, <4>2, <4>3 DEF HasMagic
      <3>4. start = 1
        BY <1>0, <2>1, <2>5, <3>3
      <3>5. ~(1 + HeaderLength - 1 <= m /\ 1 + Total(b, 1) - 1 <= m)
        BY <2>3, <3>1 DEF Complete
      <3>6. ASSUME HeaderLength <= m PROVE Total(b, 1) = Total(s, 1)
        <4>1. 1 + HeaderLength - 1 = HeaderLength /\ HeaderLength \in 1..m
          BY <1>0, <2>0, <3>6
        <4> QED BY <2>3, <4>1 DEF Total
      <3>7. Total(s, 1) >= HeaderLength
        <4>1. 1 + HeaderLength - 1 = HeaderLength /\ 1 + HeaderLength - 1 <= Len(s)
          BY <2>0, <3>4 DEF Complete
        <4>2. s[HeaderLength] \in Byte
          BY <1>0, <2>0, <4>1, ElementOfSeq
        <4>3. Value(s[HeaderLength]) \in Nat /\ TrailerLength \in Nat
          BY <4>2, ByteShape, LengthType
        <4> QED BY <2>0, <4>1, <4>3 DEF Total
      <3> HIDE DEF Total, start
      <3>8. Total(s, 1) \in Nat
        BY <2>1, <2>2, <3>4
      <3> QED BY <1>0, <2>0, <3>4, <3>5, <3>6, <3>7, <3>8
    <2> QED BY <2>4, <2>5
  <1>5. Bounded(s, F, 1, m + 1)
    <2>1. m + 1 \in Nat /\ \A j \in 2..L : Bounded(s, F, j, j)
      BY <1>0, <1>3
    <2> QED BY <1>0, <1>2, <1>4, <2>1, RoundIsBounded
  <1> QED BY <1>1, <1>5 DEF Bounded

-----------------------------------------------------------------------------
(* Streams that go on *)

\* A stream of whole frames, but for the first.
Frames(s) == Stream(s) /\ (s # <<>> => IsEnd(s[Len(s)]))

\* What is left of a stream of frames is one.
LEMMA SuffixStream ==
    ASSUME NEW s \in Seq(Byte), Stream(s), NEW j \in 1..(Len(s) + 1)
    PROVE  /\ SubSeq(s, j, Len(s)) \in Seq(Byte) /\ Stream(SubSeq(s, j, Len(s)))
           /\ Frames(s) => Frames(SubSeq(s, j, Len(s)))
           /\ Len(SubSeq(s, j, Len(s))) = (Len(s) + 1) - j
           /\ \A i \in 1..((Len(s) + 1) - j) : SubSeq(s, j, Len(s))[i] = s[i + (j - 1)]
           /\ AtFrame(s, j) => AtFrame(SubSeq(s, j, Len(s)), 1)
  <1> DEFINE t == SubSeq(s, j, Len(s))
             n == (Len(s) + 1) - j
  <1>0. Len(s) \in Nat /\ j \in Nat /\ j >= 1 /\ n \in Nat
    OBVIOUS
  <1>1. t \in Seq(Byte) /\ Len(t) = n /\ \A i \in 1..n : t[i] = s[i + (j - 1)]
    BY <1>0, ElementOfSeq
  <1>2. Stream(t)
    <2> SUFFICES ASSUME NEW i \in 1..Len(t), NEW d \in 0..(Len(t) - i)
                 PROVE  LET left == Size(t[i][1]) - t[i][2]
                        IN  /\ d <= left => t[i + d] = <<t[i][1], t[i][2] + d>>
                            /\ d = left + 1 => t[i + d][2] = 1
      BY DEF Stream
    <2>1. /\ i + (j - 1) \in 1..Len(s) /\ d \in 0..(Len(s) - (i + (j - 1)))
          /\ i + d \in 1..n /\ (i + d) + (j - 1) = (i + (j - 1)) + d
      BY <1>0, <1>1
    <2> HIDE DEF t, n
    <2>2. t[i] = s[i + (j - 1)] /\ t[i + d] = s[(i + (j - 1)) + d]
      BY <1>1, <2>1
    <2> QED BY <2>1, <2>2 DEF Stream
  <1>3. Frames(s) /\ t # <<>> => IsEnd(t[Len(t)])
    <2> SUFFICES ASSUME Frames(s), t # <<>> PROVE IsEnd(t[Len(t)])
      OBVIOUS
    <2>1. n \in 1..n /\ n + (j - 1) = Len(s) /\ s # <<>>
      <3>1. n # 0
        BY <1>1
      <3> QED BY <1>0, <3>1
    <2> HIDE DEF t, n
    <2> QED BY <1>1, <2>1 DEF Frames
  <1>4. ASSUME AtFrame(s, j) PROVE AtFrame(t, 1)
    <2>1. ASSUME 1 \in 1..Len(t) PROVE t[1][2] = 1
      <3>1. 1 + (j - 1) = j /\ j \in 1..Len(s)
        BY <1>0, <1>1, <2>1
      <3> QED BY <1>1, <1>4, <2>1, <3>1 DEF AtFrame
    <2>2. 1 - 1 \notin 1..Len(t)
      OBVIOUS
    <2> QED BY <2>1, <2>2 DEF AtFrame
  <1> QED BY <1>1, <1>2, <1>3, <1>4 DEF Frames

\* A frame is a stream of one.
LEMMA FramesOfEncode ==
    ASSUME NEW k \in Kind
    PROVE  Frames(Encode(k)) /\ AtFrame(Encode(k), 1)
  <1>1. Size(k) \in Nat /\ Size(k) >= 2
    BY KindType
  <1>2. /\ Encode(k) \in Seq(Byte) /\ Len(Encode(k)) = Size(k)
        /\ \A i \in 1..Size(k) : Encode(k)[i] = <<k, i>>
    BY EncodeType
  <1>3. Stream(Encode(k))
    BY <1>1, <1>2 DEF Stream
  <1>4. Encode(k)[Size(k)] = <<k, Size(k)>> /\ Encode(k)[1] = <<k, 1>>
    BY <1>1, <1>2
  <1>5. 1 - 1 \notin 1..Size(k)
    OBVIOUS
  <1> QED BY <1>2, <1>3, <1>4, <1>5 DEF Frames, AtFrame, IsEnd

\* A stream of frames that another frame is appended to.
LEMMA ExtendedStream ==
    ASSUME NEW s \in Seq(Byte), Frames(s), NEW k \in Kind
    PROVE  /\ s \o Encode(k) \in Seq(Byte) /\ Frames(s \o Encode(k))
           /\ AtFrame(s, 1) <=> s = <<>> \/ AtFrame(s \o Encode(k), 1)
  <1> DEFINE t == s \o Encode(k)
             n == Len(s)
  <1>1. Size(k) \in Nat /\ Size(k) >= 2 /\ n \in Nat
    BY KindType
  <1>2. /\ Encode(k) \in Seq(Byte) /\ Len(Encode(k)) = Size(k)
        /\ \A i \in 1..Size(k) : Encode(k)[i] = <<k, i>>
    BY EncodeType
  <1>3. /\ t \in Seq(Byte) /\ Len(t) = n + Size(k)
        /\ \A i \in 1..n : t[i] = s[i]
        /\ \A i \in (n + 1)..(n + Size(k)) : t[i] = <<k, i - n>>
    <2>1. /\ t \in Seq(Byte) /\ Len(t) = n + Size(k)
          /\ \A i \in 1..(n + Size(k)) : t[i] = IF i <= n THEN s[i] ELSE Encode(k)[i - n]
      BY <1>2, ConcatProperties
    <2>2. \A i \in (n + 1)..(n + Size(k)) : i - n \in 1..Size(k)
      BY <1>1
    <2> HIDE DEF t
    <2> QED BY <1>1, <1>2, <2>1, <2>2
  <1> HIDE DEF t
  <1>4. Stream(t)
    <2> SUFFICES ASSUME NEW i \in 1..Len(t), NEW d \in 0..(Len(t) - i)
                 PROVE  LET left == Size(t[i][1]) - t[i][2]
                        IN  /\ d <= left => t[i + d] = <<t[i][1], t[i][2] + d>>
                            /\ d = left + 1 => t[i + d][2] = 1
      BY DEF Stream
    <2> DEFINE left == Size(t[i][1]) - t[i][2]
    <2>1. i + d \in 1..(n + Size(k)) /\ i \in Nat /\ d \in Nat /\ i >= 1
      BY <1>1, <1>3
    <2>2. CASE i > n
      <3>1. t[i] = <<k, i - n>> /\ t[i + d] = <<k, (i + d) - n>> /\ (i + d) - n = (i - n) + d
        BY <1>1, <1>3, <2>1, <2>2
      <3>2. ~(d = left + 1)
        BY <1>1, <1>3, <2>1, <3>1
      <3> QED BY <3>1, <3>2
    <2>3. CASE i + d <= n
      <3>1. i \in 1..n /\ d \in 0..(n - i) /\ t[i] = s[i] /\ t[i + d] = s[i + d]
        BY <1>1, <1>3, <2>1, <2>3
      <3> QED BY <3>1 DEF Frames, Stream
    <2>4. CASE i <= n /\ n < i + d
      <3> DEFINE e == n - i
      <3>1. i \in 1..n /\ e \in 0..(n - i) /\ i + e = n /\ t[i] = s[i] /\ s # <<>>
        BY <1>1, <1>3, <2>1, <2>4
      <3>0. /\ left = Size(s[i][1]) - s[i][2] /\ left \in Nat
            /\ Size(s[i][1]) \in Nat /\ s[i][2] \in Nat
        <4>1. s[i] \in Byte
          BY <3>1, ElementOfSeq
        <4>2. s[i][1] \in Kind /\ s[i][2] \in 1..Size(s[i][1])
          BY <4>1, ByteShape
        <4>3. Size(s[i][1]) \in Nat
          BY <4>2, KindType
        <4> QED BY <3>1, <4>2, <4>3
      <3> HIDE DEF left
      <3>2. left \in Nat /\ e \in Nat /\ i + e = n
        BY <3>0, <3>1
      <3>3. e <= left => s[n] = <<s[i][1], s[i][2] + e>>
        <4> HIDE DEF e
        <4> QED BY <3>0, <3>1 DEF Frames, Stream
      <3>4. IsEnd(s[n])
        BY <3>1 DEF Frames
      <3>5. left <= e
        <4>1. ASSUME e <= left PROVE s[i][2] + e = Size(s[i][1])
          BY <3>3, <3>4, <4>1 DEF IsEnd
        <4> HIDE DEF e
        <4>2. e <= left => left = e
          BY <3>0, <3>2, <4>1
        <4> QED BY <3>2, <4>2
      <3> HIDE DEF e
      <3>6. ~(d <= left)
        BY <1>1, <2>1, <2>4, <3>2, <3>5
      <3>7. ASSUME d = left + 1 PROVE t[i + d][2] = 1
        <4>1. i + d = n + 1
          BY <1>1, <2>1, <2>4, <3>2, <3>5, <3>7
        <4>2. n + 1 \in (n + 1)..(n + Size(k)) /\ (n + 1) - n = 1
          BY <1>1
        <4>3. t[n + 1] = <<k, 1>>
          BY <1>3, <4>2
        <4> QED BY <4>1, <4>3
      <3> QED BY <3>6, <3>7 DEF left
    <2> QED BY <1>1, <2>1, <2>2, <2>3, <2>4
  <1>5. IsEnd(t[Len(t)])
    <2>1. n + Size(k) \in (n + 1)..(n + Size(k)) /\ (n + Size(k)) - n = Size(k)
      BY <1>1
    <2>2. t[Len(t)] = <<k, Size(k)>>
      BY <1>3, <2>1
    <2> QED BY <2>2 DEF IsEnd
  <1>6. AtFrame(s, 1) <=> s = <<>> \/ AtFrame(t, 1)
    <2>1. 1 - 1 = 0 /\ 0 \notin 1..Len(t) /\ 0 \notin 1..n
      OBVIOUS
    <2>2. CASE s = <<>>
      BY <2>1, <2>2 DEF AtFrame
    <2>3. CASE s # <<>>
      <3>1. n # 0
        BY <2>3
      <3>2. 1 \in 1..n /\ 1 \in 1..Len(t) /\ t[1] = s[1]
        BY <1>1, <1>3, <3>1
      <3> QED BY <2>1, <2>3, <3>2 DEF AtFrame
    <2> QED BY <2>2, <2>3
  <1> QED BY <1>3, <1>4, <1>5, <1>6 DEF Frames, t

-----------------------------------------------------------------------------
(* What is fed *)

\* The bytes of a suffix.
LEMMA Suffix ==
    ASSUME NEW s \in Seq(Byte), NEW j \in 1..(Len(s) + 1)
    PROVE  /\ SubSeq(s, j, Len(s)) \in Seq(Byte)
           /\ Len(SubSeq(s, j, Len(s))) = (Len(s) + 1) - j
           /\ \A i \in 1..((Len(s) + 1) - j) : SubSeq(s, j, Len(s))[i] = s[i + (j - 1)]
  <1> DEFINE n == (Len(s) + 1) - j
  <1>0. Len(s) \in Nat /\ j \in Nat /\ j >= 1 /\ n \in Nat
    OBVIOUS
  <1> QED BY <1>0, ElementOfSeq

\* A notification with the chunk takes over some of the bytes a that are on their
\* way, next to those, b, that the session keeps.
Fed(b, a, n, all, chunk, s, later) ==
    /\ all \in Seq(Byte) /\ s \in Seq(Byte) /\ later \in Seq(Byte)
    /\ chunk \in Seq(Byte) /\ Len(chunk) = n
    /\ Len(s) = Len(b) + n /\ Len(s) \in 1..Len(all)
    /\ \A i \in 1..Len(s) : s[i] = all[i]
    /\ SubSeq(s, 1, Len(b)) = b
    /\ \A j \in 1..(Len(s) + 1) : SubSeq(s, j, Len(s)) \o later = SubSeq(all, j, Len(all))
    /\ Ends(chunk) = Cardinality(EndsFrom(s, Len(b) + 1))

\* Whatever the size of the notification.
LEMMA Feeding ==
    ASSUME NEW b \in Seq(Byte), NEW a \in Seq(Byte), NEW n \in 1..Len(a)
    PROVE  Fed(b, a, n, b \o a, SubSeq(a, 1, n), b \o SubSeq(a, 1, n),
               SubSeq(a, n + 1, Len(a)))
  <1> DEFINE all == b \o a
             chunk == SubSeq(a, 1, n)
             s == b \o chunk
             later == SubSeq(a, n + 1, Len(a))
  <1>0. Len(b) \in Nat /\ Len(a) \in Nat /\ n \in Nat /\ n >= 1 /\ n <= Len(a)
    OBVIOUS
  <1>1. /\ all \in Seq(Byte) /\ Len(all) = Len(b) + Len(a)
        /\ \A i \in 1..(Len(b) + Len(a)) : all[i] = IF i <= Len(b) THEN b[i] ELSE a[i - Len(b)]
    BY ConcatProperties
  <1>2. chunk \in Seq(Byte) /\ Len(chunk) = n /\ \A i \in 1..n : chunk[i] = a[i]
    BY <1>0
  <1>3. /\ later \in Seq(Byte) /\ Len(later) = Len(a) - n
        /\ \A i \in 1..(Len(a) - n) : later[i] = a[i + n]
    BY <1>0
  <1> HIDE DEF all, chunk, later
  <1>4. /\ s \in Seq(Byte) /\ Len(s) = Len(b) + n
        /\ \A i \in 1..(Len(b) + n) : s[i] = IF i <= Len(b) THEN b[i] ELSE chunk[i - Len(b)]
    BY <1>2, ConcatProperties
  <1>5. s = b \o chunk
    OBVIOUS
  <1> HIDE DEF s
  <1>6. \A i \in 1..Len(s) : s[i] = all[i]
    <2> SUFFICES ASSUME NEW i \in 1..Len(s) PROVE s[i] = all[i]
      OBVIOUS
    <2>1. i \in 1..(Len(b) + n) /\ i \in 1..(Len(b) + Len(a))
      BY <1>0, <1>4
    <2>2. CASE i <= Len(b)
      BY <1>1, <1>4, <2>1, <2>2
    <2>3. CASE ~(i <= Len(b))
      <3>1. i - Len(b) \in 1..n
        BY <1>0, <2>1, <2>3
      <3> QED BY <1>1, <1>2, <1>4, <2>1, <2>3, <3>1
    <2> QED BY <2>2, <2>3
  <1>7. Len(s) \in 1..Len(all)
    BY <1>0, <1>1, <1>4
  <1>8. SubSeq(s, 1, Len(b)) = b
    <2> DEFINE t == SubSeq(s, 1, Len(b))
    <2>1. t \in Seq(Byte) /\ Len(t) = Len(b) /\ \A i \in 1..Len(b) : t[i] = s[i]
      BY <1>0, <1>4
    <2> HIDE DEF t
    <2>2. \A i \in 1..Len(b) : t[i] = b[i]
      BY <1>0, <1>4, <2>1
    <2>3. t = b
      BY <2>1, <2>2, SeqEqual
    <2> QED BY <2>3 DEF t
  <1>9. ASSUME NEW j \in 1..(Len(s) + 1)
        PROVE  SubSeq(s, j, Len(s)) \o later = SubSeq(all, j, Len(all))
    <2> DEFINE u == SubSeq(s, j, Len(s))
               v == SubSeq(all, j, Len(all))
               m == (Len(s) + 1) - j
               w == (Len(all) + 1) - j
    <2>0. m \in Nat /\ w \in Nat /\ w = m + (Len(a) - n) /\ j \in Nat /\ j >= 1
      BY <1>0, <1>1, <1>4
    <2>1. u \in Seq(Byte) /\ Len(u) = m /\ \A i \in 1..m : u[i] = s[i + (j - 1)]
      BY <1>4, Suffix
    <2>2. v \in Seq(Byte) /\ Len(v) = w /\ \A i \in 1..w : v[i] = all[i + (j - 1)]
      <3>1. j \in 1..(Len(all) + 1)
        BY <1>0, <1>7
      <3> QED BY <1>1, <3>1, Suffix
    <2> HIDE DEF u, v
    <2> DEFINE x == u \o later
    <2>3. /\ x \in Seq(Byte) /\ Len(x) = w
          /\ \A i \in 1..w : x[i] = IF i <= m THEN u[i] ELSE later[i - m]
      <3>1. Len(u) + Len(later) = w
        BY <1>0, <1>3, <2>0, <2>1
      <3>2. /\ x \in Seq(Byte) /\ Len(x) = Len(u) + Len(later)
            /\ \A i \in 1..(Len(u) + Len(later)) :
                  x[i] = IF i <= Len(u) THEN u[i] ELSE later[i - Len(u)]
        BY <1>3, <2>1, ConcatProperties
      <3> HIDE DEF x, m, w
      <3> QED BY <2>1, <3>1, <3>2
    <2> HIDE DEF x
    <2>4. \A i \in 1..w : x[i] = v[i]
      <3> SUFFICES ASSUME NEW i \in 1..w PROVE x[i] = v[i]
        OBVIOUS
      <3>1. CASE i <= m
        <4>1. i \in 1..m /\ i + (j - 1) \in 1..Len(s)
          BY <1>0, <1>4, <2>0, <3>1
        <4> QED BY <1>6, <2>1, <2>2, <2>3, <3>1, <4>1
      <3>2. CASE ~(i <= m)
        <4>1. /\ i - m \in 1..(Len(a) - n) /\ i + (j - 1) \in 1..(Len(b) + Len(a))
              /\ ~(i + (j - 1) <= Len(b)) /\ (i + (j - 1)) - Len(b) = (i - m) + n
          BY <1>0, <1>1, <1>4, <2>0, <3>2
        <4>2. x[i] = a[(i - m) + n]
          BY <1>3, <2>3, <3>2, <4>1
        <4>3. v[i] = a[(i + (j - 1)) - Len(b)]
          BY <1>1, <2>2, <4>1
        <4> QED BY <4>1, <4>2, <4>3
      <3> QED BY <3>1, <3>2
    <2>5. x = v
      BY <2>2, <2>3, <2>4, SeqEqual
    <2> QED BY <2>5 DEF x, u, v
  <1>10. Ends(chunk) = Cardinality(EndsFrom(s, Len(b) + 1))
    <2> DEFINE S == {i \in 1..Len(chunk) : IsEnd(chunk[i])}
               T == {i + Len(b) : i \in S}
    <2>1. S \in SUBSET Nat /\ IsFiniteSet(S)
      <3>1. S \in SUBSET (1..Len(chunk)) /\ IsFiniteSet(1..Len(chunk))
        BY <1>0, <1>2, FS_Interval
      <3> HIDE DEF S
      <3>2. 1..Len(chunk) \subseteq Nat
        OBVIOUS
      <3> QED BY <3>1, <3>2, FS_Subset
    <2>2. Cardinality(T) = Cardinality(S)
      <3> HIDE DEF S
      <3> QED BY <1>0, <2>1, ShiftedCardinality
    <2>3. EndsFrom(s, Len(b) + 1) = T
      <3>1. ASSUME NEW i \in S PROVE i + Len(b) \in EndsFrom(s, Len(b) + 1)
        <4>1. i \in 1..n /\ IsEnd(chunk[i])
          BY <1>2
        <4>2. /\ i + Len(b) \in (Len(b) + 1)..Len(s) /\ i + Len(b) \in 1..(Len(b) + n)
              /\ ~(i + Len(b) <= Len(b)) /\ (i + Len(b)) - Len(b) = i
          BY <1>0, <1>4, <4>1
        <4>3. s[i + Len(b)] = chunk[i]
          BY <1>4, <4>2
        <4> QED BY <4>1, <4>2, <4>3 DEF EndsFrom
      <3>2. ASSUME NEW j \in EndsFrom(s, Len(b) + 1) PROVE j \in T
        <4>1. j \in (Len(b) + 1)..Len(s) /\ IsEnd(s[j])
          BY DEF EndsFrom
        <4>2. /\ j - Len(b) \in 1..n /\ (j - Len(b)) + Len(b) = j
              /\ j \in 1..(Len(b) + n) /\ ~(j <= Len(b))
          BY <1>0, <1>4, <4>1
        <4>3. s[j] = chunk[j - Len(b)]
          BY <1>4, <4>2
        <4>4. j - Len(b) \in S
          BY <1>2, <4>1, <4>2, <4>3
        <4> HIDE DEF S
        <4> QED BY <4>2, <4>4
      <3> HIDE DEF S
      <3> QED BY <3>1, <3>2
    <2>4. Ends(chunk) = Cardinality(S)
      BY DEF Ends, IsEnd
    <2> QED BY <2>2, <2>3, <2>4
  <1> QED BY <1>1, <1>2, <1>3, <1>4, <1>6, <1>7, <1>8, <1>9, <1>10 DEF Fed, all, chunk, later, s

\* The first bytes of a stream are one, and frames begin where they did.
LEMMA PrefixStream ==
    ASSUME NEW t \in Seq(Byte), Stream(t), NEW s \in Seq(Byte), Len(s) \in 1..Len(t),
           \A i \in 1..Len(s) : s[i] = t[i]
    PROVE  /\ Stream(s)
           /\ \A j \in 1..(Len(s) + 1) : AtFrame(s, j) => AtFrame(t, j)
           /\ AtFrame(t, 1) => AtFrame(s, 1)
  <1>0. Len(s) \in Nat /\ Len(t) \in Nat /\ Len(s) >= 1 /\ Len(s) <= Len(t)
    OBVIOUS
  <1>1. Stream(s)
    <2> SUFFICES ASSUME NEW i \in 1..Len(s), NEW d \in 0..(Len(s) - i)
                 PROVE  LET left == Size(s[i][1]) - s[i][2]
                        IN  /\ d <= left => s[i + d] = <<s[i][1], s[i][2] + d>>
                            /\ d = left + 1 => s[i + d][2] = 1
      BY DEF Stream
    <2>1. i \in 1..Len(t) /\ d \in 0..(Len(t) - i) /\ i + d \in 1..Len(s)
      BY <1>0
    <2>2. s[i] = t[i] /\ s[i + d] = t[i + d]
      BY <2>1
    <2> QED BY <2>1, <2>2 DEF Stream
  <1>2. ASSUME NEW j \in 1..(Len(s) + 1), AtFrame(s, j) PROVE AtFrame(t, j)
    <2>1. CASE j \in 1..Len(s)
      <3>1. j - 1 \in 1..Len(t) => j - 1 \in 1..Len(s)
        BY <1>0, <2>1
      <3> QED BY <1>2, <2>1, <3>1 DEF AtFrame
    <2>2. CASE j = Len(s) + 1
      <3>1. j - 1 = Len(s) /\ Len(s) \in 1..Len(s) /\ Len(s) \in 1..Len(t)
        BY <1>0, <2>2
      <3>2. IsEnd(t[Len(s)]) /\ s[Len(s)] = t[Len(s)]
        BY <1>2, <3>1 DEF AtFrame
      <3>3. ASSUME j \in 1..Len(t) PROVE t[j][2] = 1
        <4>1. 1 \in 0..(Len(t) - Len(s)) /\ Len(s) + 1 = j
          BY <1>0, <2>2, <3>3
        <4>2. t[Len(s)] \in Byte
          BY <3>1, ElementOfSeq
        <4>3. Size(t[Len(s)][1]) \in Nat /\ t[Len(s)][2] = Size(t[Len(s)][1])
          <5>1. t[Len(s)][1] \in Kind
            BY <4>2, ByteShape
          <5> QED BY <3>2, <5>1, KindType DEF IsEnd
        <4>4. 1 = (Size(t[Len(s)][1]) - t[Len(s)][2]) + 1
          BY <4>3
        <4> QED BY <3>1, <4>1, <4>4 DEF Stream
      <3> QED BY <3>1, <3>2, <3>3 DEF AtFrame
    <2> QED BY <1>0, <2>1, <2>2
  <1>3. ASSUME AtFrame(t, 1) PROVE AtFrame(s, 1)
    <2>1. 1 \in 1..Len(s) /\ 1 \in 1..Len(t) /\ 1 - 1 \notin 1..Len(s)
      BY <1>0
    <2> QED BY <1>3, <2>1 DEF AtFrame
  <1> QED BY <1>1, <1>2, <1>3

\* A stream that begins with a frame and in which none ends is the beginning of one.
LEMMA Beginning ==
    ASSUME NEW t \in Seq(Byte), Stream(t), AtFrame(t, 1), EndsFrom(t, 1) = {}
    PROVE  \E k \in Kind : \E n \in 0..(Size(k) - 1) : t = SubSeq(Encode(k), 1, n)
  <1>1. CASE t = <<>>
    <2>1. PICK k \in Kind : TRUE
      BY ImageAssumption
    <2>2. 0 \in 0..(Size(k) - 1)
      BY KindType
    <2>3. SubSeq(Encode(k), 1, 0) = <<>>
      BY EncodeType
    <2> QED BY <1>1, <2>2, <2>3
  <1>2. CASE t # <<>>
    <2>0. Len(t) \in Nat /\ Len(t) >= 1
      BY <1>2
    <2>1. 1 \in 1..Len(t)
      BY <2>0
    <2>2. PICK k \in Kind : t[1] = <<k, 1>>
      BY <2>1, ByteShape, ElementOfSeq DEF AtFrame
    <2>3. Size(k) \in Nat /\ Size(k) >= 2
      BY KindType
    <2>4. \A d \in 0..(Size(k) - 1) : 1 + d <= Len(t) => t[1 + d] = <<k, d + 1>>
      BY <2>1, <2>2, FrameAt
    <2>5. Len(t) <= Size(k) - 1
      <3> SUFFICES ASSUME Size(k) <= Len(t) PROVE FALSE
        BY <2>0, <2>3
      <3>1. Size(k) - 1 \in 0..(Size(k) - 1) /\ 1 + (Size(k) - 1) = Size(k)
            /\ (Size(k) - 1) + 1 = Size(k) /\ Size(k) \in 1..Len(t)
        BY <2>0, <2>3
      <3>2. t[Size(k)] = <<k, Size(k)>>
        BY <2>4, <3>1
      <3> QED BY <3>1, <3>2 DEF EndsFrom, IsEnd
    <2> DEFINE r == SubSeq(Encode(k), 1, Len(t))
    <2>6. r \in Seq(Byte) /\ Len(r) = Len(t) /\ \A i \in 1..Len(t) : r[i] = Encode(k)[i]
      BY <2>0, <2>3, <2>5, EncodeType
    <2> HIDE DEF r
    <2>7. \A i \in 1..Len(t) : r[i] = t[i]
      <3> SUFFICES ASSUME NEW i \in 1..Len(t) PROVE r[i] = t[i]
        OBVIOUS
      <3>1. i - 1 \in 0..(Size(k) - 1) /\ 1 + (i - 1) = i /\ (i - 1) + 1 = i /\ i \in 1..Size(k)
        BY <2>0, <2>3, <2>5
      <3>2. t[i] = <<k, i>>
        BY <2>4, <3>1
      <3> QED BY <2>6, <3>1, <3>2, EncodeType
    <2>8. t = r
      BY <2>6, <2>7, SeqEqual
    <2>9. Len(t) \in 0..(Size(k) - 1)
      BY <2>0, <2>3, <2>5
    <2> QED BY <2>8, <2>9 DEF r
  <1> QED BY <1>1, <1>2

-----------------------------------------------------------------------------
(* Streams that are entered within a frame *)

KindsOf(s) == {s[i][1] : i \in 1..Len(s)}

\* Without a magic there is nothing to give out, and one byte is kept.
LEMMA CutOfNothing ==
    ASSUME NEW s \in Seq(Byte), Len(s) >= 1, \A m \in 1..Len(s) : ~HasMagic(s, m)
    PROVE  Cut(s).frames = <<>> /\ Cut(s).rest = SubSeq(s, Len(s), Len(s))
  <1>0. Len(s) \in Nat /\ 1 \in 1..(Len(s) + 1)
    OBVIOUS
  <1>1. PICK F : F = [j \in 1..(Len(s) + 1) |-> Round(s, F, j)] /\ Cut(s) = F[1]
    BY CutUnfolds
  <1>2. Cut(s) = Round(s, F, 1)
    BY <1>0, <1>1
  <1>3. Starts(s, 1) = {}
    BY DEF Starts
  <1>4. Cut(s) = [frames |-> <<>>, rest |-> Remainder(s, 1)]
    BY <1>2, <1>3 DEF Round
  <1>5. Max({1, Len(s)}) = Len(s)
    BY <1>0, MaxOfTwo
  <1>6. Cut(s).frames = <<>> /\ Cut(s).rest = Remainder(s, 1)
    BY <1>4
  <1> QED BY <1>5, <1>6 DEF Remainder

\* Inside a plain frame, and over its end, nothing looks like the beginning of one.
LEMMA InsideIsPlain ==
    ASSUME NEW s \in Seq(Byte), Stream(s), ~AtFrame(s, 1), KindsOf(s) \subseteq PlainKind,
           NEW e \in 1..Len(s), \A i \in 1..(e - 1) : ~IsEnd(s[i]), NEW m \in 1..e
    PROVE  ~HasMagic(s, m)
  <1>0. Len(s) \in Nat /\ e \in Nat /\ m \in Nat /\ 1 \in 1..Len(s) /\ m \in 1..Len(s)
    OBVIOUS
  <1>1. PICK k \in Kind, x \in Nat : s[1] = <<k, x>> /\ x \in 1..Size(k)
    <2>1. s[1] \in Byte
      BY <1>0, ElementOfSeq
    <2> QED BY <2>1, ByteShape
  <1>2. Size(k) \in Nat /\ Size(k) >= 2
    BY KindType
  <1>3. x >= 2
    <2>1. 1 - 1 \notin 1..Len(s)
      OBVIOUS
    <2>2. x # 1
      BY <1>1, <2>1 DEF AtFrame
    <2> QED BY <1>1, <2>2
  <1>4. k \in PlainKind
    BY <1>0, <1>1 DEF KindsOf
  <1>5. \A d \in 0..(Size(k) - x) : 1 + d <= Len(s) => s[1 + d] = <<k, x + d>>
    <2> SUFFICES ASSUME NEW d \in 0..(Size(k) - x), 1 + d <= Len(s)
                 PROVE  s[1 + d] = <<k, x + d>>
      OBVIOUS
    <2>1. d \in 0..(Len(s) - 1) /\ d <= Size(k) - x
      BY <1>0, <1>1, <1>2
    <2>2. s[1][1] = k /\ s[1][2] = x
      BY <1>1
    <2> QED BY <1>0, <2>1, <2>2 DEF Stream
  <1> DEFINE y == x + (m - 1)
  <1>6. m - 1 \in 0..(Size(k) - x)
    <2> SUFFICES ASSUME ~(m - 1 <= Size(k) - x) PROVE FALSE
      BY <1>0, <1>1, <1>2
    <2>1. /\ Size(k) - x \in 0..(Size(k) - x) /\ 1 + (Size(k) - x) \in 1..(e - 1)
          /\ 1 + (Size(k) - x) <= Len(s) /\ x + (Size(k) - x) = Size(k)
      BY <1>0, <1>1, <1>2
    <2>2. s[1 + (Size(k) - x)] = <<k, Size(k)>>
      BY <1>5, <2>1
    <2> QED BY <2>1, <2>2 DEF IsEnd
  <1>7. y \in 2..Size(k) /\ s[m] = <<k, y>> /\ Encode(k)[y] = <<k, y>> /\ Len(Encode(k)) = Size(k)
    <2>1. y \in 2..Size(k) /\ y \in 1..Size(k) /\ 1 + (m - 1) = m
      BY <1>0, <1>1, <1>2, <1>3, <1>6
    <2>2. s[m] = <<k, y>>
      BY <1>0, <1>5, <1>6, <2>1
    <2> HIDE DEF y
    <2> QED BY <2>1, <2>2, EncodeType
  <1> HIDE DEF y
  <1>8. ~HasMagic(Encode(k), y)
    BY <1>4, <1>7 DEF PlainKind
  <1>9. PICK M \in 1..2 : M = Len(Magic)
    BY LengthAssumption
  <1> SUFFICES ASSUME HasMagic(s, m) PROVE FALSE
    OBVIOUS
  <1>10. Value(s[m]) = Magic[1] /\ Value(Encode(k)[y]) = Magic[1]
    <2>1. 1 \in 1..M /\ m + 1 - 1 = m
      BY <1>0
    <2>2. Value(s[m]) = Magic[1]
      BY <1>9, <2>1 DEF HasMagic
    <2> QED BY <1>7, <2>2
  <1>11. CASE M = 1
    <2>1. y + M - 1 = y /\ y <= Size(k)
      BY <1>7, <1>11
    <2>2. \A j \in 1..M : j = 1 /\ y + j - 1 = y
      BY <1>7, <1>11
    <2>3. HasMagic(Encode(k), y)
      BY <1>7, <1>9, <1>10, <2>1, <2>2 DEF HasMagic
    <2> QED BY <1>8, <2>3
  <1>12. CASE M = 2
    <2>1. m + 1 \in 1..Len(s) /\ Value(s[m + 1]) = Magic[2]
      <3>1. m + M - 1 <= Len(s) /\ \A j \in 1..M : Value(s[m + j - 1]) = Magic[j]
        BY <1>9 DEF HasMagic
      <3>2. m + M - 1 = m + 1 /\ 2 \in 1..M /\ m + 2 - 1 = m + 1
        BY <1>0, <1>12
      <3>3. Value(s[m + 1]) = Magic[2]
        BY <3>1, <3>2
      <3> QED BY <1>0, <3>1, <3>2, <3>3
    <2>2. 1 \in 0..(Len(s) - m)
      BY <1>0, <2>1
    <2>3. s[m][1] = k /\ s[m][2] = y
      BY <1>7
    <2>4. CASE y = Size(k)
      <3>1. 1 = (Size(k) - y) + 1
        BY <1>2, <2>4
      <3>2. s[m + 1][2] = 1
        BY <1>0, <2>2, <2>3, <3>1 DEF Stream
      <3>3. PICK l \in Kind : s[m + 1] = <<l, 1>>
        <4>1. s[m + 1] \in Byte
          BY <2>1, ElementOfSeq
        <4> QED BY <3>2, <4>1, ByteShape
      <3>4. Image[l][1] = Magic[1]
        <4>1. Image[l] \in Seq(0..MaxDataLength) /\ SubSeq(Image[l], 1, Len(Magic)) = Magic
          BY ImageAssumption
        <4>2. Len(Image[l]) \in Nat /\ Len(Image[l]) >= 2
          BY KindType DEF Size
        <4>3. SubSeq(Image[l], 1, 2)[1] = Image[l][1]
          BY <4>1, <4>2
        <4> QED BY <1>9, <1>12, <4>1, <4>3
      <3>5. Magic[1] = Magic[2]
        BY <2>1, <3>3, <3>4 DEF Value
      <3> QED BY <1>9, <1>12, <3>5, MagicAssumption
    <2>5. CASE y # Size(k)
      <3>1. y + 1 \in 1..Size(k) /\ y + M - 1 = y + 1 /\ y + M - 1 <= Size(k)
            /\ 1 <= Size(k) - y /\ y + 1 - 1 = y /\ y + 2 - 1 = y + 1
        BY <1>2, <1>7, <1>12, <2>5
      <3>2. s[m + 1] = <<k, y + 1>>
        BY <1>0, <2>2, <2>3, <3>1 DEF Stream
      <3>3. Value(Encode(k)[y + 1]) = Magic[2]
        BY <2>1, <3>1, <3>2, EncodeType
      <3>4. \A j \in 1..M : Value(Encode(k)[y + j - 1]) = Magic[j]
        <4>1. \A j \in 1..M : j = 1 \/ j = 2
          BY <1>12
        <4> QED BY <1>10, <3>1, <3>3, <4>1
      <3>5. HasMagic(Encode(k), y)
        BY <1>7, <1>9, <3>1, <3>4 DEF HasMagic
      <3> QED BY <1>8, <3>5
    <2> QED BY <2>4, <2>5
  <1> QED BY <1>11, <1>12

\* What feed makes of a stream that begins inside a frame, if all are plain: it
\* comes into step with the frame that follows the first end.
LEMMA CutOfTorn ==
    ASSUME NEW s \in Seq(Byte), Stream(s), ~AtFrame(s, 1), Len(s) >= 1,
           KindsOf(s) \subseteq PlainKind
    PROVE  \/ /\ EndsFrom(s, 1) = {}
              /\ Cut(s).frames = <<>> /\ Cut(s).rest = SubSeq(s, Len(s), Len(s))
           \/ \E e \in EndsFrom(s, 1) :
                /\ \A i \in EndsFrom(s, 1) : e <= i
                /\ Cut(s).frames \in Seq({Encode(s[j][1]) : j \in (e + 1)..Len(s)})
                /\ Len(Cut(s).frames) = Cardinality(EndsFrom(s, e + 1))
                /\ \/ \E j \in (e + 1)..(Len(s) + 1) :
                         /\ AtFrame(s, j) /\ EndsFrom(s, j) = {}
                         /\ Cut(s).rest = SubSeq(s, j, Len(s))
                   \/ e = Len(s) /\ Cut(s).rest = SubSeq(s, Len(s), Len(s))
  <1>0. Len(s) \in Nat
    OBVIOUS
  <1>1. CASE EndsFrom(s, 1) = {}
    <2>1. Len(s) \in 1..Len(s) /\ \A i \in 1..(Len(s) - 1) : ~IsEnd(s[i])
      BY <1>0, <1>1 DEF EndsFrom
    <2>2. \A m \in 1..Len(s) : ~HasMagic(s, m)
      BY <2>1, InsideIsPlain
    <2> QED BY <1>1, <2>2, CutOfNothing
  <1>2. CASE EndsFrom(s, 1) # {}
    <2>1. EndsFrom(s, 1) \subseteq Nat
      BY DEF EndsFrom
    <2>2. PICK e \in EndsFrom(s, 1) : \A i \in EndsFrom(s, 1) : e <= i
      BY <1>2, <2>1, LeastNatural
    <2>3. e \in 1..Len(s) /\ IsEnd(s[e]) /\ \A i \in 1..(e - 1) : ~IsEnd(s[i])
      <3>1. e \in 1..Len(s) /\ IsEnd(s[e])
        BY <2>2 DEF EndsFrom
      <3>2. ASSUME NEW i \in 1..(e - 1), IsEnd(s[i]) PROVE FALSE
        <4>1. i \in 1..Len(s) /\ ~(e <= i)
          BY <1>0, <3>1
        <4> QED BY <2>2, <3>2, <4>1 DEF EndsFrom
      <3> QED BY <3>1, <3>2
    <2>4. e + 1 \in 1..(Len(s) + 1) /\ (e + 1) - 1 = e
      BY <1>0, <2>3
    <2>5. \A m \in 1..((e + 1) - 1) : ~HasMagic(s, m)
      BY <2>3, <2>4, InsideIsPlain
    <2>6. AtFrame(s, e + 1)
      <3>1. ASSUME e + 1 \in 1..Len(s) PROVE s[e + 1][2] = 1
        <4>1. s[e] \in Byte
          BY <2>3, ElementOfSeq
        <4>2. s[e][1] \in Kind
          BY <4>1, ByteShape
        <4>3. 1 = (Size(s[e][1]) - s[e][2]) + 1
          BY <2>3, <4>2, KindType DEF IsEnd
        <4>4. 1 \in 0..(Len(s) - e)
          BY <1>0, <2>3, <3>1
        <4> QED BY <2>3, <4>3, <4>4 DEF Stream
      <3> QED BY <2>3, <2>4, <3>1 DEF AtFrame
    <2>7. /\ Cut(s).frames \in Seq({Encode(s[j][1]) : j \in (e + 1)..Len(s)})
          /\ Len(Cut(s).frames) = Cardinality(EndsFrom(s, e + 1))
          /\ \/ \E j \in (e + 1)..(Len(s) + 1) : /\ AtFrame(s, j) /\ EndsFrom(s, j) = {}
                                                /\ Cut(s).rest = SubSeq(s, j, Len(s))
             \/ /\ e + 1 = Len(s) + 1 /\ e + 1 > 1
                /\ Cut(s).rest = SubSeq(s, Len(s), Len(s))
      BY <2>4, <2>5, <2>6, CutOfStream
    <2>8. e + 1 = Len(s) + 1 => e = Len(s)
      BY <1>0, <2>3
    <2> QED BY <2>2, <2>7, <2>8
  <1> QED BY <1>1, <1>2

-----------------------------------------------------------------------------
(* Turns *)

\* Whose command is out.
InFlight == {c \in Callers : callers[c].stage \in {"writing", "waiting"}}

\* A command is out exactly while its caller has the turn, which is only in the
\* body; before a session connects there is no connection.
SessionInv ==
    /\ callers \in [Callers -> Caller]
    /\ InFlight = {turn} \ {NoCaller}
    /\ turn # NoCaller => stage = "body"
    /\ stage \in {"idle", "connecting"} /\ ~abandoned => link = "closed"

\* No call of execute leaves with the turn, whatever ends it.
LEMMA LeaveInv ==
    ASSUME SessionInv, NEW c \in InFlight, NEW outcome \in Outcome,
           Leave(c, outcome), turn' = NoCaller
    PROVE  callers' \in [Callers -> Caller] /\ InFlight' = {turn'} \ {NoCaller}
  <1>1. c \in Callers /\ InFlight = {c}
    BY DEF SessionInv, InFlight
  <1>2. callers' = [callers EXCEPT ![c] = [stage |-> "over", outcome |-> outcome]]
    BY DEF Leave
  <1>3. callers' \in [Callers -> Caller]
    BY <1>1, <1>2 DEF SessionInv, Caller
  <1>4. \A d \in Callers : callers'[d].stage \notin {"writing", "waiting"}
    BY <1>1, <1>2 DEF SessionInv, InFlight
  <1> QED BY <1>3, <1>4 DEF InFlight

\* The steps of execute.
LEMMA ExecuteInv ==
    ASSUME SessionInv, NEW c \in Callers, Execute(c)
    PROVE  SessionInv'
  <1>0. callers \in [Callers -> Caller] /\ c # NoCaller /\ stage' = stage /\ link' = link
        /\ abandoned' = abandoned
    BY CallerAssumption
    DEF SessionInv, Execute, TakeTurn, Write, Receive, TimeOut, historyVars
  <1>s. ASSUME callers' \in [Callers -> Caller], InFlight' = {turn'} \ {NoCaller},
               turn' # NoCaller => stage = "body"
        PROVE  SessionInv'
    BY <1>0, <1>s DEF SessionInv
  <1>1. CASE TakeTurn(c)
    <2>1. InFlight = {} /\ turn' = c /\ stage = "body"
          /\ callers' = [callers EXCEPT ![c].stage = "writing"]
      BY <1>1 DEF TakeTurn, SessionInv
    <2>2. callers' \in [Callers -> Caller]
      BY <1>0, <2>1 DEF Caller
    <2>3. InFlight' = {c}
      BY <1>0, <2>1 DEF InFlight, Caller
    <2> QED BY <1>0, <1>s, <2>1, <2>2, <2>3
  <1>2. CASE Write(c)
    <2>1. c \in InFlight
      BY <1>2 DEF Write, InFlight
    <2>2. turn = c /\ stage = "body" /\ InFlight = {c}
      BY <2>1 DEF SessionInv
    <2>3. CASE callers' = [callers EXCEPT ![c].stage = "waiting"] /\ turn' = turn
      <3>1. callers' \in [Callers -> Caller]
        BY <1>0, <2>3 DEF Caller
      <3>2. InFlight' = {c}
        BY <1>0, <2>2, <2>3 DEF InFlight, Caller
      <3> QED BY <1>0, <1>s, <2>2, <2>3, <3>1, <3>2
    <2>4. CASE Leave(c, "failed") /\ Release
      BY <1>s, <2>1, <2>4, LeaveInv DEF Release, Outcome
    <2> QED BY <1>2, <2>3, <2>4 DEF Write
  <1>3. CASE Receive(c)
    <2>1. c \in InFlight
      BY <1>3 DEF Receive, InFlight
    <2>2. PICK outcome \in Outcome : Leave(c, outcome)
      <3>1. CASE Decode(pending.raw) = {}
        BY <1>3, <3>1 DEF Receive, Outcome
      <3>2. CASE Decode(pending.raw) # {}
        <4>1. (CHOOSE k \in Decode(pending.raw) : TRUE) \in Kind
          BY <3>2 DEF Decode
        <4> QED BY <1>3, <3>2, <4>1 DEF Receive, Outcome
      <3> QED BY <3>1, <3>2
    <2> QED BY <1>3, <1>s, <2>1, <2>2, LeaveInv DEF Receive, Release
  <1>4. CASE TimeOut(c)
    <2>1. c \in InFlight
      BY <1>4 DEF TimeOut, InFlight
    <2> QED BY <1>4, <1>s, <2>1, LeaveInv DEF TimeOut, Release, Outcome
  <1> QED BY <1>1, <1>2, <1>3, <1>4 DEF Execute

\* Opening, closing and cancelling.
LEMMA ContextInv ==
    ASSUME SessionInv, Open \/ Session \/ Cancel
    PROVE  SessionInv'
  <1>1. CASE Open
    <2>1. callers' \in [Callers -> Caller] /\ InFlight' = {} /\ turn = NoCaller
      BY <1>1 DEF Open, NewCaller, Caller, Outcome, InFlight, SessionInv
    <2> QED BY <1>1, <2>1 DEF Open, SessionInv
  <1>2. CASE Connect
    BY <1>2 DEF Connect, SessionInv, InFlight
  <1>3. CASE Start
    BY <1>3 DEF Start, SessionInv, InFlight
  <1>4. CASE EndBody
    <2>1. InFlight = {}
      BY <1>4 DEF EndBody, InFlight
    <2> QED BY <1>4, <2>1 DEF EndBody, SessionInv, InFlight, historyVars
  <1>5. CASE Stop
    BY <1>5 DEF Stop, SessionInv, InFlight, historyVars
  <1>6. CASE Disconnect
    BY <1>6 DEF Disconnect, Hangup, SessionInv, InFlight, historyVars
  <1>7. CASE CancelBody
    <2>1. \A c \in Callers : callers'[c].stage = "over" /\ callers'[c] \in Caller
      BY <1>7 DEF CancelBody, SessionInv, Caller, Outcome
    <2>2. callers' \in [Callers -> Caller] /\ InFlight' = {}
      BY <1>7, <2>1 DEF CancelBody, InFlight
    <2> QED BY <1>7, <2>2 DEF CancelBody, Release, SessionInv
  <1>8. CASE CancelClosing
    BY <1>8 DEF CancelClosing, SessionInv, InFlight
  <1>9. CASE CancelConnecting
    BY <1>9 DEF CancelConnecting, SessionInv, InFlight
  <1> QED
    BY <1>1, <1>2, <1>3, <1>4, <1>5, <1>6, <1>7, <1>8, <1>9 DEF Session, Cancel

\* Every step keeps who has the turn.
LEMMA StepSessionInv == SessionInv /\ [Next]_vars => SessionInv'
  <1> SUFFICES ASSUME SessionInv, [Next]_vars PROVE SessionInv'
    OBVIOUS
  <1>1. CASE Open \/ Session \/ Cancel
    BY <1>1, ContextInv
  <1>2. CASE \E c \in Callers : Execute(c)
    BY <1>2, ExecuteInv
  <1>3. CASE LockReports \/ Notify \/ \E c \in Callers : LockAnswers(c)
    BY <1>3 DEF LockReports, Notify, LockAnswers, SessionInv, InFlight
  <1>4. CASE LinkDrops
    BY <1>4 DEF LinkDrops, Hangup, SessionInv, InFlight, historyVars
  <1>5. CASE UNCHANGED vars
    BY <1>5 DEF vars, historyVars, SessionInv, InFlight
  <1> QED BY <1>1, <1>2, <1>3, <1>4, <1>5 DEF Next

-----------------------------------------------------------------------------
(* What is kept *)

\* No frame is complete in what is kept.
BufferInv == TypeOK /\ Quiet(buffer)

\* An empty buffer.
LEMMA QuietNothing ==
    <<>> \in Seq(Byte) /\ Len(<<>>) = 0 /\ Len(<<>>) < MaxFrameLength /\ Quiet(<<>>)
  <1>1. 0 < MaxFrameLength
    BY LengthType DEF MaxFrameLength
  <1> QED BY <1>1 DEF Quiet

Pending == [of : Callers \cup {NoCaller}, raw : Seq(Byte)]

\* The pending future, if there is none.
LEMMA NothingType == Nothing \in Pending
  BY QuietNothing DEF Nothing, Pending

\* The count of faults.
LEMMA FaultType == ASSUME BufferInv, faults' = faults \/ Fault PROVE faults' \in Nat
  BY DEF BufferInv, TypeOK, Fault

\* The history of the stream, where it begins.
LEMMA WatchType == ASSUME Watch PROVE torn' \in BOOLEAN /\ missed' \in Nat
  BY DEF Watch, MidFrame

\* A notification leaves no complete frame behind, and not more frames come out
\* than ended in it.
LEMMA NotifyBuffer ==
    ASSUME BufferInv, Notify
    PROVE  BufferInv'
  <1>1. PICK n \in 1..Len(air) :
          LET chunk == SubSeq(air, 1, n)
              fed == Assemble(chunk)
          IN /\ air' = SubSeq(air, n + 1, Len(air))
             /\ IF subscribed
                THEN /\ buffer' = fed.rest
                     /\ pending' = Resolve(fed.frames)
                     /\ missed' = (missed + Ends(chunk)) - Whole(fed.frames)
                ELSE UNCHANGED <<buffer, pending, missed>>
    BY DEF Notify
  <1> DEFINE chunk == SubSeq(air, 1, n)
             s == buffer \o chunk
  <1>2. buffer \in Seq(Byte) /\ air \in Seq(Byte) /\ missed \in Nat
        /\ pending \in [of : Callers \cup {NoCaller}, raw : Seq(Byte)]
        /\ Len(buffer) < MaxFrameLength /\ Quiet(buffer)
    BY DEF BufferInv, TypeOK
  <1>d. Fed(buffer, air, n, buffer \o air, chunk, s, SubSeq(air, n + 1, Len(air)))
    BY <1>2, Feeding
  <1> HIDE DEF chunk, s
  <1>3. /\ s \in Seq(Byte) /\ SubSeq(air, n + 1, Len(air)) \in Seq(Byte)
        /\ Len(s) = Len(buffer) + n
        /\ SubSeq(s, 1, Len(buffer)) = buffer
        /\ Ends(chunk) = Cardinality(EndsFrom(s, Len(buffer) + 1))
    BY <1>d DEF Fed
  <1>4. Len(buffer) \in Nat /\ Len(buffer) \in 0..Len(s)
    BY <1>2, <1>3
  <1>5. /\ Cut(s).frames \in Seq(Seq(Byte))
        /\ Cut(s).rest \in Seq(Byte) /\ Len(Cut(s).rest) < MaxFrameLength
        /\ Quiet(Cut(s).rest)
        /\ Whole(Cut(s).frames) <= Cardinality(EndsFrom(s, Len(buffer) + 1))
    BY <1>2, <1>3, <1>4, CutOfAnything
  <1>6. Assemble(chunk) = Cut(s)
    BY DEF Assemble, Feed, s
  <1>7. buffer' \in Seq(Byte) /\ Len(buffer') < MaxFrameLength /\ Quiet(buffer')
        /\ air' \in Seq(Byte)
    BY <1>1, <1>2, <1>3, <1>5, <1>6 DEF chunk
  <1>8. missed' \in Nat
    <2>1. Ends(chunk) \in Nat /\ Whole(Cut(s).frames) \in Nat
      <3>1. Len(buffer) + 1 \in Nat
        BY <1>4
      <3>2. Ends(chunk) \in Nat
        BY <1>3, <3>1, EndsFinite
      <3>3. Whole(Cut(s).frames) \in Nat
        BY <1>5, WholeType
      <3> QED BY <3>2, <3>3
    <2>2. subscribed => missed' = (missed + Ends(chunk)) - Whole(Cut(s).frames)
      BY <1>1, <1>6 DEF chunk
    <2>3. ~subscribed => missed' = missed
      BY <1>1
    <2> QED BY <1>2, <1>3, <1>5, <2>1, <2>2, <2>3
  <1>9. pending' \in [of : Callers \cup {NoCaller}, raw : Seq(Byte)]
    <2>1. ASSUME subscribed PROVE pending' = Resolve(Cut(s).frames)
      BY <1>1, <1>6, <2>1 DEF chunk
    <2>2. Cut(s).frames # <<>> => Head(Cut(s).frames) \in Seq(Byte)
      BY <1>5
    <2>3. ASSUME subscribed PROVE pending' \in [of : Callers \cup {NoCaller}, raw : Seq(Byte)]
      BY <1>2, <2>1, <2>2, <2>3 DEF Resolve
    <2>4. ~subscribed => pending' = pending
      BY <1>1
    <2> QED BY <1>2, <2>3, <2>4
  <1> QED BY <1>7, <1>8, <1>9 DEF BufferInv, TypeOK, Notify, boundVars

\* The steps of execute.
LEMMA ExecuteBuffer ==
    ASSUME BufferInv, SessionInv', NEW c \in Callers, Execute(c)
    PROVE  BufferInv'
  <1>0. callers' \in [Callers -> Caller]
    BY DEF SessionInv
  <1>1. CASE TakeTurn(c)
    BY <1>0, <1>1, QuietNothing
    DEF TakeTurn, BufferInv, TypeOK, Watch, MidFrame, lockVars, boundVars
  <1>2. CASE Write(c)
    <2>1. faults' \in Nat
      <3>1. faults' = faults \/ Fault
        BY <1>2 DEF Write
      <3> QED BY <3>1, FaultType
    <2>2. pending' \in Pending /\ turn' \in Callers \cup {NoCaller}
      BY <1>2, NothingType DEF Write, Release, BufferInv, TypeOK, Pending
    <2>3. asked' \subseteq Callers
      BY <1>2 DEF Write, BufferInv, TypeOK
    <2> QED BY <1>0, <1>2, <2>1, <2>2, <2>3
            DEF Write, BufferInv, TypeOK, Pending, historyVars, streamVars
  <1>3. CASE Receive(c)
    BY <1>0, <1>3, QuietNothing
    DEF Receive, Release, Nothing, BufferInv, TypeOK, lockVars, boundVars, historyVars, streamVars
  <1>4. CASE TimeOut(c)
    BY <1>0, <1>4, QuietNothing
    DEF TimeOut, Release, Nothing, BufferInv, TypeOK, lockVars, boundVars, streamVars
  <1> QED BY <1>1, <1>2, <1>3, <1>4 DEF Execute

\* Whatever the lock sends are bytes of frames.
LEMMA SendType ==
    ASSUME BufferInv, NEW k \in Kind, Send(k)
    PROVE  air' \in Seq(Byte) /\ sent' \subseteq Kind
  <1>1. Encode(k) \in Seq(Byte) /\ air \in Seq(Byte) /\ sent \subseteq Kind
    BY EncodeType DEF BufferInv, TypeOK
  <1> QED BY <1>1 DEF Send

\* Every step keeps the types, and no frame is complete in the buffer.
LEMMA StepBuffer ==
    ASSUME BufferInv, SessionInv', [Next]_vars
    PROVE  BufferInv'
  <1>0. callers' \in [Callers -> Caller]
    BY DEF SessionInv
  <1>1. CASE Open
    BY <1>0, <1>1, QuietNothing
    DEF Open, BufferInv, TypeOK, Stage, lockVars, boundVars
  <1>2. CASE Connect
    <2>1. faults' \in Nat
      <3>1. faults' = faults \/ Fault
        BY <1>2 DEF Connect
      <3> QED BY <3>1, FaultType
    <2>2. stage' \in Stage /\ link' \in {"closed", "open"} /\ abandoned' \in BOOLEAN
      BY <1>2 DEF Connect, BufferInv, TypeOK, Stage
    <2> QED BY <1>0, <1>2, <2>1, <2>2 DEF Connect, BufferInv, TypeOK, lockVars, streamVars
  <1>3. CASE Start
    <2>1. faults' \in Nat
      <3>1. faults' = faults \/ Fault
        BY <1>3 DEF Start
      <3> QED BY <3>1, FaultType
    <2>2. stage' \in Stage /\ subscribed' \in BOOLEAN /\ torn' \in BOOLEAN /\ missed' \in Nat
      BY <1>3, WatchType DEF Start, BufferInv, TypeOK, Stage, streamVars
    <2> QED BY <1>0, <1>3, <2>1, <2>2 DEF Start, BufferInv, TypeOK, lockVars
  <1>4. CASE EndBody \/ Stop
    <2>1. faults' \in Nat
      <3>1. faults' = faults \/ Fault
        BY <1>4 DEF EndBody, Stop, boundVars
      <3> QED BY <3>1, FaultType
    <2>2. stage' \in Stage /\ subscribed' \in BOOLEAN
      BY <1>4 DEF EndBody, Stop, BufferInv, TypeOK, Stage
    <2> QED
      BY <1>0, <1>4, <2>1, <2>2
      DEF EndBody, Stop, BufferInv, TypeOK, lockVars, boundVars, historyVars, streamVars
  <1>5. CASE Disconnect
    <2>1. faults' \in Nat
      <3>1. faults' = faults \/ Fault
        BY <1>5 DEF Disconnect
      <3> QED BY <3>1, FaultType
    <2>2. /\ stage' \in Stage /\ link' \in {"closed", "open"} /\ subscribed' \in BOOLEAN
          /\ abandoned' \in BOOLEAN
      BY <1>5 DEF Disconnect, Hangup, BufferInv, TypeOK, Stage
    <2>3. air' \in Seq(Byte) /\ asked' \subseteq Callers
      <3>1. <<>> \in Seq(Byte) /\ {} \subseteq Callers
        OBVIOUS
      <3>2. air \in Seq(Byte) /\ asked \subseteq Callers
        BY DEF BufferInv, TypeOK
      <3>3. (air' = <<>> /\ asked' = {}) \/ (air' = air /\ asked' = asked)
        BY <1>5 DEF Disconnect, Hangup, lockVars
      <3> QED BY <3>1, <3>2, <3>3
    <2> QED
      BY <1>0, <1>5, <2>1, <2>2, <2>3
      DEF Disconnect, BufferInv, TypeOK, streamVars
  <1>6. CASE Cancel
    <2>1. cancels' \in Nat
      BY <1>6 DEF Cancel, BufferInv, TypeOK
    <2>2. CancelConnecting \/ CancelBody \/ CancelClosing
      BY <1>6 DEF Cancel
    <2>3. stage' \in Stage /\ abandoned' \in BOOLEAN /\ link' = link /\ subscribed' = subscribed
      BY <2>2 DEF CancelConnecting, CancelBody, CancelClosing, BufferInv, TypeOK, Stage
    <2>4. turn' \in Callers \cup {NoCaller} /\ pending' \in Pending
      BY <2>2, NothingType
      DEF CancelConnecting, CancelBody, CancelClosing, Release, BufferInv, TypeOK, Pending
    <2> QED BY <1>0, <1>6, <2>1, <2>3, <2>4
            DEF Cancel, BufferInv, TypeOK, Pending, lockVars, streamVars
  <1>7. CASE \E c \in Callers : Execute(c)
    BY <1>7, ExecuteBuffer
  <1>8. CASE \E c \in Callers : LockAnswers(c)
    <2>1. PICK c \in Callers : LockAnswers(c)
      BY <1>8
    <2>2. air' \in Seq(Byte) /\ sent' \subseteq Kind
      BY <2>1, SendType, CallerAssumption DEF LockAnswers
    <2> QED BY <1>0, <2>1, <2>2 DEF LockAnswers, BufferInv, TypeOK, boundVars, streamVars
  <1>9. CASE LockReports
    <2>1. air' \in Seq(Byte) /\ sent' \subseteq Kind
      BY <1>9, SendType DEF LockReports
    <2> QED BY <1>0, <1>9, <2>1 DEF LockReports, BufferInv, TypeOK, streamVars
  <1>10. CASE Notify
    BY <1>10, NotifyBuffer
  <1>11. CASE LinkDrops
    <2>1. faults' \in Nat
      BY <1>11, FaultType DEF LinkDrops
    <2>2. air' \in Seq(Byte) /\ asked' \subseteq Callers /\ subscribed' \in BOOLEAN
          /\ link' \in {"closed", "open"}
      BY <1>11, QuietNothing DEF LinkDrops, Hangup
    <2> QED BY <1>0, <1>11, <2>1, <2>2
            DEF LinkDrops, BufferInv, TypeOK, historyVars, streamVars
  <1>12. CASE UNCHANGED vars
    BY <1>12 DEF vars, lockVars, boundVars, historyVars, streamVars, BufferInv, TypeOK
  <1> QED BY <1>1, <1>2, <1>3, <1>4, <1>5, <1>6, <1>7, <1>8, <1>9, <1>10, <1>11, <1>12
          DEF Next, Session

-----------------------------------------------------------------------------
(* The wire *)

\* The kinds of frames that the bytes of a suffix are from.
LEMMA SuffixKinds ==
    ASSUME NEW s \in Seq(Byte), NEW j \in 1..(Len(s) + 1)
    PROVE  KindsOf(SubSeq(s, j, Len(s))) \subseteq KindsOf(s)
  <1> DEFINE t == SubSeq(s, j, Len(s))
  <1>1. /\ Len(t) = (Len(s) + 1) - j
        /\ \A i \in 1..((Len(s) + 1) - j) : t[i] = s[i + (j - 1)]
    BY Suffix
  <1> HIDE DEF t
  <1>2. ASSUME NEW i \in 1..Len(t) PROVE t[i][1] \in KindsOf(s)
    <2>1. i \in 1..((Len(s) + 1) - j) /\ i + (j - 1) \in 1..Len(s)
      BY <1>1
    <2>2. t[i] = s[i + (j - 1)]
      BY <1>1, <2>1
    <2> QED BY <2>1, <2>2 DEF KindsOf
  <1>3. KindsOf(t) \subseteq KindsOf(s)
    BY <1>2 DEF KindsOf
  <1> QED BY <1>3 DEF t

\* The kinds of frames in a stream that another one is appended to.
LEMMA ExtendedKinds ==
    ASSUME NEW s \in Seq(Byte), NEW k \in Kind
    PROVE  KindsOf(s \o Encode(k)) \subseteq KindsOf(s) \cup {k}
  <1>1. /\ Encode(k) \in Seq(Byte) /\ Len(Encode(k)) = Size(k) /\ Size(k) \in Nat
        /\ \A i \in 1..Size(k) : Encode(k)[i] = <<k, i>>
    BY EncodeType, KindType
  <1> DEFINE t == s \o Encode(k)
  <1>2. /\ Len(t) = Len(s) + Size(k)
        /\ \A i \in 1..(Len(s) + Size(k)) :
              t[i] = IF i <= Len(s) THEN s[i] ELSE Encode(k)[i - Len(s)]
    BY <1>1, ConcatProperties
  <1> HIDE DEF t
  <1>3. ASSUME NEW i \in 1..Len(t) PROVE t[i][1] \in KindsOf(s) \cup {k}
    <2>1. i \in 1..(Len(s) + Size(k))
      BY <1>2
    <2>2. CASE i <= Len(s)
      <3>1. t[i] = s[i] /\ i \in 1..Len(s)
        BY <1>2, <2>1, <2>2
      <3> QED BY <3>1 DEF KindsOf
    <2>3. CASE ~(i <= Len(s))
      <3>1. i - Len(s) \in 1..Size(k)
        BY <1>1, <2>1, <2>3
      <3>2. t[i] = <<k, i - Len(s)>>
        BY <1>1, <1>2, <2>1, <2>3, <3>1
      <3> QED BY <3>2
    <2> QED BY <2>2, <2>3
  <1>4. KindsOf(t) \subseteq KindsOf(s) \cup {k}
    BY <1>3 DEF KindsOf
  <1> QED BY <1>4 DEF t

\* No bytes.
LEMMA FramesOfNothing ==
    /\ <<>> \in Seq(Byte) /\ Frames(<<>>) /\ AtFrame(<<>>, 1)
    /\ KindsOf(<<>>) = {} /\ EndsFrom(<<>>, 1) = {}
  <1>1. Len(<<>>) = 0 /\ 1..0 = {} /\ 1 - 1 = 0
    OBVIOUS
  <1> QED BY <1>1 DEF Frames, Stream, AtFrame, KindsOf, EndsFrom

\* Only an open link carries anything; and what is on its way was sent in this
\* session, once the session may listen.
WireInv ==
    /\ link = "closed" => air = <<>> /\ asked = {} /\ ~subscribed
    /\ stage \in {"connecting", "subscribing"} => buffer = <<>> /\ ~subscribed
    /\ Frames(air)
    /\ subscribed \/ stage \in {"subscribing", "body"} => KindsOf(air) \subseteq sent

\* The lock sends a frame.
LEMMA SendWire ==
    ASSUME WireInv, BufferInv, NEW k \in Kind, Send(k), link = "open",
           UNCHANGED <<link, stage, subscribed, buffer>>
    PROVE  WireInv'
  <1>1. air \in Seq(Byte) /\ Frames(air)
    BY DEF WireInv, BufferInv, TypeOK
  <1>2. Frames(air') /\ KindsOf(air') \subseteq KindsOf(air) \cup {k} /\ sent' = sent \cup {k}
    BY <1>1, ExtendedStream, ExtendedKinds DEF Send
  <1> QED BY <1>2 DEF WireInv

\* Every step keeps what is known of the wire.
LEMMA StepWire ==
    ASSUME WireInv, BufferInv, SessionInv, [Next]_vars
    PROVE  WireInv'
  <1>1. CASE Open
    BY <1>1 DEF Open, WireInv, lockVars
  <1>2. CASE Connect
    BY <1>2, FramesOfNothing DEF Connect, WireInv, lockVars
  <1>3. CASE Start
    BY <1>3 DEF Start, WireInv, lockVars
  <1>4. CASE EndBody \/ Stop
    BY <1>4 DEF EndBody, Stop, WireInv, lockVars, historyVars
  <1>5. CASE Disconnect
    BY <1>5, FramesOfNothing DEF Disconnect, Hangup, WireInv, lockVars
  <1>6. CASE Cancel
    BY <1>6 DEF Cancel, CancelConnecting, CancelBody, CancelClosing, WireInv, lockVars
  <1>7. CASE \E c \in Callers : Execute(c)
    <2>1. PICK c \in Callers : Execute(c)
      BY <1>7
    <2>2. CASE TakeTurn(c)
      BY <2>2 DEF TakeTurn, WireInv, lockVars
    <2>3. CASE Write(c)
      BY <2>3 DEF Write, WireInv, historyVars
    <2>4. CASE Receive(c) \/ TimeOut(c)
      BY <2>4 DEF Receive, TimeOut, WireInv, lockVars, historyVars
    <2> QED BY <2>1, <2>2, <2>3, <2>4 DEF Execute
  <1>8. CASE \E c \in Callers : LockAnswers(c)
    <2>1. PICK c \in Callers : LockAnswers(c)
      BY <1>8
    <2>2. link = "open"
      BY <2>1 DEF LockAnswers, WireInv, BufferInv, TypeOK
    <2>3. UNCHANGED <<link, stage, subscribed, buffer>> /\ Send(Answer[c]) /\ Answer[c] \in Kind
      BY <2>1, CallerAssumption DEF LockAnswers
    <2> QED BY <2>2, <2>3, SendWire
  <1>9. CASE LockReports
    <2>1. PICK k \in Kind : Send(k)
      BY <1>9 DEF LockReports
    <2>2. UNCHANGED <<link, stage, subscribed, buffer>> /\ link = "open"
      BY <1>9 DEF LockReports
    <2> QED BY <2>1, <2>2, SendWire
  <1>10. CASE Notify
    <2>1. PICK n \in 1..Len(air) : air' = SubSeq(air, n + 1, Len(air))
      BY <1>10 DEF Notify
    <2>2. air \in Seq(Byte) /\ Frames(air) /\ n + 1 \in 1..(Len(air) + 1)
      BY DEF BufferInv, TypeOK, WireInv
    <2>3. Frames(air') /\ KindsOf(air') \subseteq KindsOf(air)
      <3>1. Stream(air)
        BY <2>2 DEF Frames
      <3>2. Frames(air')
        BY <2>1, <2>2, <3>1, SuffixStream
      <3> QED BY <2>1, <2>2, <3>2, SuffixKinds
    <2>4. link = "open" /\ UNCHANGED <<link, stage, subscribed, sent>>
          /\ (subscribed \/ buffer' = buffer)
      BY <1>10 DEF Notify
    <2> QED BY <2>3, <2>4 DEF WireInv
  <1>11. CASE LinkDrops
    BY <1>11, FramesOfNothing DEF LinkDrops, Hangup, WireInv, historyVars
  <1>12. CASE UNCHANGED vars
    BY <1>12 DEF vars, lockVars, historyVars, WireInv
  <1> QED BY <1>1, <1>2, <1>3, <1>4, <1>5, <1>6, <1>7, <1>8, <1>9, <1>10, <1>11, <1>12
          DEF Next, Session

-----------------------------------------------------------------------------
(* In step *)

\* Nothing ends in a suffix if nothing ends from there on.
LEMMA SuffixEnds ==
    ASSUME NEW s \in Seq(Byte), NEW j \in 1..(Len(s) + 1), EndsFrom(s, j) = {}
    PROVE  EndsFrom(SubSeq(s, j, Len(s)), 1) = {}
  <1> DEFINE t == SubSeq(s, j, Len(s))
  <1>1. /\ Len(t) = (Len(s) + 1) - j
        /\ \A i \in 1..((Len(s) + 1) - j) : t[i] = s[i + (j - 1)]
    BY Suffix
  <1> HIDE DEF t
  <1>2. ASSUME NEW i \in 1..Len(t), IsEnd(t[i]) PROVE FALSE
    <2>1. i \in 1..((Len(s) + 1) - j) /\ i + (j - 1) \in j..Len(s)
      BY <1>1
    <2>2. IsEnd(s[i + (j - 1)])
      BY <1>1, <1>2, <2>1
    <2> QED BY <2>1, <2>2 DEF EndsFrom
  <1>3. EndsFrom(t, 1) = {}
    BY <1>2 DEF EndsFrom
  <1> QED BY <1>3 DEF t

\* All frames that come out of a stream are whole.
LEMMA AllWhole ==
    ASSUME NEW s \in Seq(Byte), NEW i \in 1..(Len(s) + 1),
           NEW fs \in Seq({Encode(s[j][1]) : j \in i..Len(s)})
    PROVE  Whole(fs) = Len(fs)
  <1>1. \A m \in 1..Len(fs) : Decode(fs[m]) # {}
    <2> SUFFICES ASSUME NEW m \in 1..Len(fs) PROVE Decode(fs[m]) # {}
      OBVIOUS
    <2>1. fs[m] \in {Encode(s[j][1]) : j \in i..Len(s)}
      BY ElementOfSeq
    <2>2. PICK j \in i..Len(s) : fs[m] = Encode(s[j][1])
      BY <2>1
    <2>3. s[j] \in Byte
      BY ElementOfSeq
    <2>4. s[j][1] \in Kind
      BY <2>3, ByteShape
    <2> QED BY <2>2, <2>4 DEF Decode
  <1> QED BY <1>1, WholeType

\* The beginning of a frame, or nothing.
Begun(r) == \E k \in Kind : \E n \in 0..(Size(k) - 1) : r = SubSeq(Encode(k), 1, n)

\* Who begins between two frames stays in step.
LEMMA FedInStep ==
    ASSUME NEW b \in Seq(Byte), NEW a \in Seq(Byte), NEW n \in 1..Len(a),
           Frames(b \o a), AtFrame(b \o a, 1), EndsFrom(b, 1) = {}
    PROVE  LET chunk == SubSeq(a, 1, n)
               fed == Cut(b \o chunk)
               coming == fed.rest \o SubSeq(a, n + 1, Len(a))
           IN  /\ Ends(chunk) = Whole(fed.frames) /\ Ends(chunk) \in Nat
               /\ Begun(fed.rest)
               /\ Frames(coming) /\ AtFrame(coming, 1) /\ EndsFrom(fed.rest, 1) = {}
               /\ KindsOf(coming) \subseteq KindsOf(b \o a)
  <1> DEFINE t == b \o a
             chunk == SubSeq(a, 1, n)
             s == b \o chunk
             later == SubSeq(a, n + 1, Len(a))
             fed == Cut(s)
  <1>d. Fed(b, a, n, t, chunk, s, later)
    BY Feeding
  <1>2. Frames(t) /\ Stream(t) /\ AtFrame(t, 1)
    BY DEF Frames
  <1> HIDE DEF t, chunk, s, later
  <1>1. /\ t \in Seq(Byte) /\ s \in Seq(Byte)
        /\ Len(s) = Len(b) + n /\ Len(s) \in 1..Len(t)
        /\ \A i \in 1..Len(s) : s[i] = t[i]
        /\ SubSeq(s, 1, Len(b)) = b
        /\ \A j \in 1..(Len(s) + 1) : SubSeq(s, j, Len(s)) \o later = SubSeq(t, j, Len(t))
        /\ Ends(chunk) = Cardinality(EndsFrom(s, Len(b) + 1))
    BY <1>d DEF Fed
  <1>3. Stream(s) /\ AtFrame(s, 1) /\ \A j \in 1..(Len(s) + 1) : AtFrame(s, j) => AtFrame(t, j)
    BY <1>1, <1>2, PrefixStream
  <1>4. Len(s) \in Nat /\ Len(b) \in Nat /\ 1 \in 1..(Len(s) + 1) /\ Len(t) \in Nat
    BY <1>1
  <1>5. /\ fed.frames \in Seq({Encode(s[j][1]) : j \in 1..Len(s)})
        /\ Len(fed.frames) = Cardinality(EndsFrom(s, 1))
        /\ \E j \in 1..(Len(s) + 1) : /\ AtFrame(s, j) /\ EndsFrom(s, j) = {}
                                     /\ fed.rest = SubSeq(s, j, Len(s))
    <2>1. \A m \in 1..(1 - 1) : ~HasMagic(s, m)
      OBVIOUS
    <2>2. ~(1 > 1)
      OBVIOUS
    <2>3. /\ Cut(s).frames \in Seq({Encode(s[j][1]) : j \in 1..Len(s)})
          /\ Len(Cut(s).frames) = Cardinality(EndsFrom(s, 1))
          /\ \/ \E j \in 1..(Len(s) + 1) : /\ AtFrame(s, j) /\ EndsFrom(s, j) = {}
                                           /\ Cut(s).rest = SubSeq(s, j, Len(s))
             \/ /\ 1 = Len(s) + 1 /\ 1 > 1
                /\ Cut(s).rest = SubSeq(s, Len(s), Len(s))
      BY <1>1, <1>3, <1>4, <2>1, CutOfStream, Zenon
    <2> QED BY <2>2, <2>3
  <1> HIDE DEF fed
  <1>6. PICK j \in 1..(Len(s) + 1) : /\ AtFrame(s, j) /\ EndsFrom(s, j) = {}
                                    /\ fed.rest = SubSeq(s, j, Len(s))
    BY <1>5
  <1>7. EndsFrom(s, Len(b) + 1) = EndsFrom(s, 1)
    <2>1. \A i \in 1..Len(b) : s[i] = b[i] /\ i \in 1..Len(s)
      BY <1>1, <1>4
    <2>2. \A i \in 1..Len(b) : ~IsEnd(s[i])
      BY <2>1 DEF EndsFrom
    <2>3. \A i \in 1..Len(s) : i \in 1..Len(b) \/ i \in (Len(b) + 1)..Len(s)
      BY <1>4
    <2>4. \A i \in (Len(b) + 1)..Len(s) : i \in 1..Len(s)
      BY <1>4
    <2> QED BY <2>2, <2>3, <2>4 DEF EndsFrom
  <1>8. Ends(chunk) = Whole(fed.frames) /\ Ends(chunk) \in Nat
    <2>1. Whole(fed.frames) = Len(fed.frames)
      BY <1>1, <1>4, <1>5, AllWhole
    <2>2. Cardinality(EndsFrom(s, 1)) \in Nat
      BY <1>1, EndsFinite
    <2> QED BY <1>1, <1>5, <1>7, <2>1, <2>2
  <1>9. fed.rest \in Seq(Byte) /\ Stream(fed.rest) /\ AtFrame(fed.rest, 1)
    BY <1>1, <1>3, <1>6, SuffixStream
  <1>10. EndsFrom(fed.rest, 1) = {}
    BY <1>1, <1>6, SuffixEnds
  <1>11. Begun(fed.rest)
    BY <1>9, <1>10, Beginning DEF Begun
  <1>12. fed.rest \o later = SubSeq(t, j, Len(t)) /\ j \in 1..(Len(t) + 1) /\ AtFrame(t, j)
    <2>1. j \in 1..(Len(t) + 1)
      BY <1>1, <1>4
    <2>2. AtFrame(t, j)
      BY <1>3, <1>6
    <2>3. SubSeq(s, j, Len(s)) \o later = SubSeq(t, j, Len(t))
      BY <1>1
    <2> QED BY <1>6, <2>1, <2>2, <2>3
  <1>13. Frames(SubSeq(t, j, Len(t))) /\ AtFrame(SubSeq(t, j, Len(t)), 1)
    BY <1>1, <1>2, <1>12, SuffixStream
  <1>14. KindsOf(SubSeq(t, j, Len(t))) \subseteq KindsOf(t)
    BY <1>1, <1>12, SuffixKinds
  <1> QED BY <1>8, <1>10, <1>11, <1>12, <1>13, <1>14 DEF t, s, fed, chunk, later

-----------------------------------------------------------------------------
(* Out of step *)

\* Who began inside a plain frame misses that one, and comes into step.
LEMMA FedTorn ==
    ASSUME NEW b \in Seq(Byte), NEW a \in Seq(Byte), NEW n \in 1..Len(a),
           Frames(b \o a), ~AtFrame(b \o a, 1), KindsOf(b \o a) \subseteq PlainKind, Len(b) <= 1
    PROVE  LET chunk == SubSeq(a, 1, n)
               fed == Cut(b \o chunk)
               coming == fed.rest \o SubSeq(a, n + 1, Len(a))
           IN  /\ Whole(fed.frames) \in Nat
               /\ \/ Ends(chunk) = Whole(fed.frames)
                  \/ Ends(chunk) = Whole(fed.frames) + 1 /\ EndsFrom(b, 1) = {}
               /\ Frames(coming) /\ KindsOf(coming) \subseteq KindsOf(b \o a)
               /\ AtFrame(coming, 1) => EndsFrom(fed.rest, 1) = {}
               /\ ~AtFrame(coming, 1) =>
                    /\ Len(fed.rest) <= 1
                    /\ EndsFrom(fed.rest, 1) = {} =>
                         EndsFrom(b, 1) = {} /\ Ends(chunk) = Whole(fed.frames)
  <1> DEFINE t == b \o a
             chunk == SubSeq(a, 1, n)
             s == b \o chunk
             later == SubSeq(a, n + 1, Len(a))
             fed == Cut(s)
             coming == fed.rest \o later
             e1 == Ends(chunk)
             w == Whole(fed.frames)
  <1>d. Fed(b, a, n, t, chunk, s, later)
    BY Feeding
  <1>2. Frames(t) /\ Stream(t) /\ ~AtFrame(t, 1) /\ KindsOf(t) \subseteq PlainKind
    BY DEF Frames
  <1> HIDE DEF t, chunk, s, later
  <1>1. /\ t \in Seq(Byte) /\ s \in Seq(Byte)
        /\ Len(s) = Len(b) + n /\ Len(s) \in 1..Len(t)
        /\ \A i \in 1..Len(s) : s[i] = t[i]
        /\ SubSeq(s, 1, Len(b)) = b
        /\ \A j \in 1..(Len(s) + 1) : SubSeq(s, j, Len(s)) \o later = SubSeq(t, j, Len(t))
        /\ e1 = Cardinality(EndsFrom(s, Len(b) + 1))
    BY <1>d DEF Fed
  <1>3. Stream(s) /\ \A j \in 1..(Len(s) + 1) : AtFrame(s, j) => AtFrame(t, j)
    BY <1>1, <1>2, PrefixStream
  <1>4. Len(s) \in Nat /\ Len(b) \in Nat /\ n \in Nat /\ Len(t) \in Nat /\ Len(s) >= 1
        /\ Len(s) \in 1..(Len(s) + 1) /\ 1 \in 1..(Len(s) + 1)
    BY <1>1
  <1>5. ~AtFrame(s, 1) /\ KindsOf(s) \subseteq PlainKind
    <2>1. KindsOf(s) \subseteq KindsOf(t)
      <3>1. \A i \in 1..Len(s) : i \in 1..Len(t)
        BY <1>1, <1>4
      <3> QED BY <1>1, <3>1 DEF KindsOf
    <2> QED BY <1>2, <1>3, <1>4, <2>1
  <1>6. \A i \in 1..Len(b) : s[i] = b[i] /\ i \in 1..Len(s)
    BY <1>1, <1>4
  <1>7. EndsFrom(s, 1) = {} => EndsFrom(b, 1) = {}
    BY <1>6 DEF EndsFrom
  \* What follows from a rest that is what was fed from byte j on.
  <1>8. ASSUME NEW j \in 1..(Len(s) + 1), fed.rest = SubSeq(s, j, Len(s))
        PROVE  /\ Frames(coming) /\ KindsOf(coming) \subseteq KindsOf(t)
               /\ AtFrame(t, j) => AtFrame(coming, 1)
               /\ coming = SubSeq(t, j, Len(t)) /\ j \in 1..(Len(t) + 1)
    <2>1. coming = SubSeq(t, j, Len(t)) /\ j \in 1..(Len(t) + 1)
      <3>1. j \in 1..(Len(t) + 1)
        BY <1>1, <1>4
      <3>2. SubSeq(s, j, Len(s)) \o later = SubSeq(t, j, Len(t))
        BY <1>1
      <3> QED BY <1>8, <3>1, <3>2
    <2>2. Frames(SubSeq(t, j, Len(t))) /\ (AtFrame(t, j) => AtFrame(SubSeq(t, j, Len(t)), 1))
      BY <1>1, <1>2, <2>1, SuffixStream
    <2>3. KindsOf(SubSeq(t, j, Len(t))) \subseteq KindsOf(t)
      BY <1>1, <2>1, SuffixKinds
    <2> QED BY <2>1, <2>2, <2>3
  <1>9. Len(SubSeq(s, Len(s), Len(s))) <= 1
    <2>1. (Len(s) + 1) - Len(s) = 1
      BY <1>4
    <2> QED BY <1>1, <1>4, <2>1, Suffix
  <1>10. CASE EndsFrom(s, 1) = {} /\ fed.frames = <<>> /\ fed.rest = SubSeq(s, Len(s), Len(s))
    <2>1. w = 0
      BY <1>10, FS_EmptySet DEF Whole
    <2>2. EndsFrom(s, Len(b) + 1) = {} /\ EndsFrom(s, Len(s)) = {}
      <3>1. \A i \in (Len(b) + 1)..Len(s) : i \in 1..Len(s)
        BY <1>4
      <3>2. \A i \in Len(s)..Len(s) : i \in 1..Len(s)
        BY <1>4
      <3> QED BY <1>10, <3>1, <3>2 DEF EndsFrom
    <2>3. e1 = 0
      BY <1>1, <2>2, FS_EmptySet
    <2>4. EndsFrom(fed.rest, 1) = {}
      BY <1>1, <1>4, <1>10, <2>2, SuffixEnds
    <2>5. Frames(coming) /\ KindsOf(coming) \subseteq KindsOf(t)
      BY <1>4, <1>8, <1>10
    <2>6. Len(fed.rest) <= 1 /\ EndsFrom(b, 1) = {}
      BY <1>7, <1>9, <1>10
    <2> HIDE DEF fed, e1, w, coming
    <2>7. w \in Nat /\ e1 = w
      BY <2>1, <2>3
    <2> QED BY <2>4, <2>5, <2>6, <2>7 DEF fed, e1, w, coming, t, s, chunk, later
  <1>11. ASSUME NEW e \in EndsFrom(s, 1), \A i \in EndsFrom(s, 1) : e <= i,
                fed.frames \in Seq({Encode(s[j][1]) : j \in (e + 1)..Len(s)}),
                Len(fed.frames) = Cardinality(EndsFrom(s, e + 1)),
                \/ \E j \in (e + 1)..(Len(s) + 1) :
                      /\ AtFrame(s, j) /\ EndsFrom(s, j) = {}
                      /\ fed.rest = SubSeq(s, j, Len(s))
                \/ e = Len(s) /\ fed.rest = SubSeq(s, Len(s), Len(s))
         PROVE  /\ w \in Nat /\ (e1 = w \/ (e1 = w + 1 /\ EndsFrom(b, 1) = {}))
                /\ Frames(coming) /\ KindsOf(coming) \subseteq KindsOf(t)
                /\ AtFrame(coming, 1) => EndsFrom(fed.rest, 1) = {}
                /\ ~AtFrame(coming, 1) => Len(fed.rest) <= 1 /\ EndsFrom(fed.rest, 1) # {}
    <2>1. e \in 1..Len(s) /\ e \in Nat /\ IsEnd(s[e]) /\ e + 1 \in 1..(Len(s) + 1) /\ e + 1 \in Nat
      <3>1. e \in 1..Len(s) /\ IsEnd(s[e])
        BY DEF EndsFrom
      <3> QED BY <1>4, <3>1
    <2>2. w = Cardinality(EndsFrom(s, e + 1)) /\ w \in Nat
      <3>1. w = Len(fed.frames)
        BY <1>1, <1>11, <2>1, AllWhole
      <3>2. Cardinality(EndsFrom(s, e + 1)) \in Nat
        BY <1>1, <2>1, EndsFinite
      <3> QED BY <1>11, <3>1, <3>2
    <2>3. e1 = w \/ (e1 = w + 1 /\ EndsFrom(b, 1) = {})
      <3>1. CASE e <= Len(b)
        <4>1. e = Len(b)
          BY <1>4, <2>1, <3>1
        <4> QED BY <1>1, <2>2, <4>1
      <3>2. CASE ~(e <= Len(b))
        <4>1. EndsFrom(s, Len(b) + 1) = EndsFrom(s, e + 1) \cup {e}
          <5>1. ASSUME NEW i \in EndsFrom(s, Len(b) + 1)
                PROVE  i \in EndsFrom(s, e + 1) \cup {e}
            <6>1. i \in 1..Len(s) /\ IsEnd(s[i])
              BY <1>4 DEF EndsFrom
            <6>2. e <= i
              BY <1>11, <6>1 DEF EndsFrom
            <6>3. i = e \/ i \in (e + 1)..Len(s)
              BY <1>4, <2>1, <6>1, <6>2
            <6> QED BY <6>1, <6>3 DEF EndsFrom
          <5>2. ASSUME NEW i \in EndsFrom(s, e + 1) PROVE i \in EndsFrom(s, Len(b) + 1)
            <6>1. i \in (e + 1)..Len(s) /\ IsEnd(s[i])
              BY DEF EndsFrom
            <6>2. i \in (Len(b) + 1)..Len(s)
              BY <1>4, <2>1, <3>2, <6>1
            <6> QED BY <6>1, <6>2 DEF EndsFrom
          <5>3. e \in EndsFrom(s, Len(b) + 1)
            <6>1. e \in (Len(b) + 1)..Len(s)
              BY <1>4, <2>1, <3>2
            <6> QED BY <2>1, <6>1 DEF EndsFrom
          <5> QED BY <5>1, <5>2, <5>3
        <4>2. e \notin EndsFrom(s, e + 1)
          BY <2>1 DEF EndsFrom
        <4>3. IsFiniteSet(EndsFrom(s, e + 1))
          BY <1>1, <2>1, EndsFinite
        <4>4. Cardinality(EndsFrom(s, e + 1) \cup {e}) = Cardinality(EndsFrom(s, e + 1)) + 1
          BY <4>2, <4>3, FS_AddElement
        <4>5. EndsFrom(b, 1) = {}
          <5>1. ASSUME NEW i \in 1..Len(b), IsEnd(b[i]) PROVE FALSE
            <6>1. i \in 1..Len(s) /\ IsEnd(s[i])
              BY <1>6, <5>1
            <6>2. e <= i
              BY <1>11, <6>1 DEF EndsFrom
            <6> QED BY <1>4, <2>1, <3>2, <6>2
          <5> QED BY <5>1 DEF EndsFrom
        <4> QED BY <1>1, <2>2, <4>1, <4>4, <4>5
      <3> QED BY <3>1, <3>2
    <2>4. CASE \E j \in (e + 1)..(Len(s) + 1) :
                  /\ AtFrame(s, j) /\ EndsFrom(s, j) = {}
                  /\ fed.rest = SubSeq(s, j, Len(s))
      <3>1. PICK j \in (e + 1)..(Len(s) + 1) : /\ AtFrame(s, j) /\ EndsFrom(s, j) = {}
                                              /\ fed.rest = SubSeq(s, j, Len(s))
        BY <2>4
      <3>2. j \in 1..(Len(s) + 1)
        BY <1>4, <2>1
      <3>3. EndsFrom(fed.rest, 1) = {}
        BY <1>1, <3>1, <3>2, SuffixEnds
      <3>4. AtFrame(t, j)
        BY <1>3, <3>1, <3>2
      <3>5. Frames(coming) /\ KindsOf(coming) \subseteq KindsOf(t) /\ AtFrame(coming, 1)
        BY <1>8, <3>1, <3>2, <3>4
      <3> QED BY <2>2, <2>3, <3>3, <3>5
    <2>5. CASE e = Len(s) /\ fed.rest = SubSeq(s, Len(s), Len(s))
      <3>1. Frames(coming) /\ KindsOf(coming) \subseteq KindsOf(t)
            /\ coming = SubSeq(t, Len(s), Len(t)) /\ Len(s) \in 1..(Len(t) + 1)
        BY <1>4, <1>8, <2>5
      <3>2. 1 \in 1..((Len(s) + 1) - Len(s)) /\ 1 + (Len(s) - 1) = Len(s)
            /\ (Len(s) + 1) - Len(s) = 1
            /\ 1 \in 1..((Len(t) + 1) - Len(s)) /\ Len(s) \in 1..Len(s)
        BY <1>1, <1>4
      <3>3. fed.rest[1] = s[e] /\ Len(fed.rest) = 1
        BY <1>1, <1>4, <2>5, <3>2, Suffix
      <3>4. EndsFrom(fed.rest, 1) # {}
        <4>1. 1 \in 1..Len(fed.rest) /\ IsEnd(fed.rest[1])
          BY <2>1, <3>3
        <4> QED BY <4>1 DEF EndsFrom
      <3>5. ~AtFrame(coming, 1)
        <4>1. coming[1] = s[e] /\ 1 \in 1..Len(coming)
          <5>1. Len(coming) = (Len(t) + 1) - Len(s) /\ coming[1] = t[1 + (Len(s) - 1)]
            BY <1>1, <3>1, <3>2, Suffix
          <5> QED BY <1>1, <2>5, <3>2, <5>1
        <4>2. s[e] \in Byte
          BY <1>1, <2>1, ElementOfSeq
        <4>3. s[e][2] # 1
          <5>1. s[e][1] \in Kind
            BY <4>2, ByteShape
          <5>2. Size(s[e][1]) \in Nat /\ Size(s[e][1]) >= 2
            BY <5>1, KindType
          <5> QED BY <2>1, <5>2 DEF IsEnd
        <4> QED BY <4>1, <4>3 DEF AtFrame
      <3>6. Len(fed.rest) <= 1
        BY <3>3
      <3> QED BY <2>2, <2>3, <3>1, <3>4, <3>5, <3>6
    <2> QED BY <1>11, <2>4, <2>5
  <1>12. CASE \E e \in EndsFrom(s, 1) :
                /\ \A i \in EndsFrom(s, 1) : e <= i
                /\ fed.frames \in Seq({Encode(s[j][1]) : j \in (e + 1)..Len(s)})
                /\ Len(fed.frames) = Cardinality(EndsFrom(s, e + 1))
                /\ \/ \E j \in (e + 1)..(Len(s) + 1) :
                         /\ AtFrame(s, j) /\ EndsFrom(s, j) = {}
                         /\ fed.rest = SubSeq(s, j, Len(s))
                   \/ e = Len(s) /\ fed.rest = SubSeq(s, Len(s), Len(s))
    <2>1. /\ w \in Nat /\ (e1 = w \/ (e1 = w + 1 /\ EndsFrom(b, 1) = {}))
          /\ Frames(coming) /\ KindsOf(coming) \subseteq KindsOf(t)
          /\ AtFrame(coming, 1) => EndsFrom(fed.rest, 1) = {}
          /\ ~AtFrame(coming, 1) => Len(fed.rest) <= 1 /\ EndsFrom(fed.rest, 1) # {}
      BY <1>11, <1>12
    <2> HIDE DEF fed, e1, w, coming
    <2> QED BY <2>1 DEF fed, e1, w, coming, t, s, chunk, later
  <1> HIDE DEF fed
  <1>13. \/ EndsFrom(s, 1) = {} /\ fed.frames = <<>> /\ fed.rest = SubSeq(s, Len(s), Len(s))
         \/ \E e \in EndsFrom(s, 1) :
                /\ \A i \in EndsFrom(s, 1) : e <= i
                /\ fed.frames \in Seq({Encode(s[j][1]) : j \in (e + 1)..Len(s)})
                /\ Len(fed.frames) = Cardinality(EndsFrom(s, e + 1))
                /\ \/ \E j \in (e + 1)..(Len(s) + 1) :
                         /\ AtFrame(s, j) /\ EndsFrom(s, j) = {}
                         /\ fed.rest = SubSeq(s, j, Len(s))
                   \/ e = Len(s) /\ fed.rest = SubSeq(s, Len(s), Len(s))
    BY <1>1, <1>3, <1>4, <1>5, CutOfTorn, Zenon DEF fed
  <1> QED BY <1>10, <1>12, <1>13

-----------------------------------------------------------------------------
(* How the assembler fares *)

\* The bytes that the session keeps and those on their way to it.
Coming == buffer \o air

\* Is it known how the assembler fares with them.
Followed == subscribed /\ (~torn \/ sent \subseteq PlainKind)

\* The assembler is at the beginning of a frame, with nothing kept that ended, or
\* inside the first one.
Sync ==
    /\ Frames(Coming)
    /\ ~torn => AtFrame(Coming, 1)
    /\ AtFrame(Coming, 1) => EndsFrom(buffer, 1) = {}
    /\ torn => KindsOf(Coming) \subseteq PlainKind
    /\ ~AtFrame(Coming, 1) =>
         Len(buffer) <= 1 /\ (EndsFrom(buffer, 1) = {} => missed = 0)

SyncInv == InStep /\ PlainStartCostsOneFrame /\ (Followed => Sync)

\* An empty buffer is the beginning of any frame.
LEMMA NothingBegins ==
    \E k \in Kind : \E n \in 0..(Size(k) - 1) : <<>> = SubSeq(Encode(k), 1, n)
  BY FramesOfNothing, Beginning DEF Frames

\* The assembler begins.
LEMMA WatchSync ==
    ASSUME WireInv, BufferInv, Watch, buffer' = <<>>, air' = air, sent' = sent,
           subscribed' => KindsOf(air) \subseteq sent
    PROVE  SyncInv'
  <1>1. air \in Seq(Byte) /\ Frames(air)
    BY DEF BufferInv, TypeOK, WireInv
  <1>2. Coming' = air
    BY <1>1 DEF Coming
  <1>3. torn' = MidFrame /\ missed' = 0
    BY DEF Watch
  <1>4. ~torn' => AtFrame(air, 1)
    <2> SUFFICES ASSUME ~MidFrame PROVE AtFrame(air, 1)
      BY <1>3
    <2>1. air = <<>> \/ air[1][2] = 1
      BY <1>1 DEF MidFrame
    <2>2. 1 - 1 = 0 /\ 0 \notin 1..Len(air)
      OBVIOUS
    <2>3. air = <<>> => 1 \notin 1..Len(air)
      OBVIOUS
    <2> QED BY <2>1, <2>2, <2>3 DEF AtFrame
  <1>5. EndsFrom(buffer, 1)' = {} /\ Len(buffer') <= 1
    BY FramesOfNothing DEF EndsFrom
  <1>6. Followed' => Sync'
    <2> SUFFICES ASSUME Followed' PROVE Sync'
      OBVIOUS
    <2>1. torn' => KindsOf(air) \subseteq PlainKind
      BY DEF Followed
    <2> QED BY <1>1, <1>2, <1>3, <1>4, <1>5, <2>1 DEF Sync
  <1>7. InStep'
    BY <1>3, NothingBegins DEF InStep
  <1>8. PlainStartCostsOneFrame'
    BY <1>3 DEF PlainStartCostsOneFrame
  <1> QED BY <1>6, <1>7, <1>8 DEF SyncInv

\* Nothing arrives, or nobody listens any more.
LEMMA IdleSync ==
    ASSUME SyncInv, UNCHANGED <<buffer, torn, missed, sent>>,
           ~subscribed' \/ UNCHANGED <<subscribed, air>>
    PROVE  SyncInv'
  <1>1. InStep' /\ PlainStartCostsOneFrame'
    BY DEF SyncInv, InStep, PlainStartCostsOneFrame
  <1>2. Followed' => Followed /\ Coming' = Coming
    BY DEF Followed, Coming
  <1>3. Followed' => Sync'
    BY <1>2 DEF SyncInv, Sync
  <1> QED BY <1>1, <1>3 DEF SyncInv

\* The lock sends a frame: those that are followed are followed by one more.
LEMMA SendSync ==
    ASSUME SyncInv, BufferInv, NEW k \in Kind, Send(k),
           UNCHANGED <<buffer, torn, missed, subscribed>>
    PROVE  SyncInv'
  <1>1. InStep' /\ PlainStartCostsOneFrame' /\ sent' = sent \cup {k}
    BY DEF SyncInv, InStep, PlainStartCostsOneFrame, Send
  <1>2. SUFFICES ASSUME Followed' PROVE Sync'
    BY <1>1 DEF SyncInv
  <1>3. Followed /\ Sync /\ (torn => k \in PlainKind)
    BY <1>1, <1>2 DEF Followed, SyncInv
  <1>4. Coming \in Seq(Byte) /\ Coming' = Coming \o Encode(k)
    <2>1. buffer \in Seq(Byte) /\ air \in Seq(Byte) /\ Encode(k) \in Seq(Byte)
      BY EncodeType DEF BufferInv, TypeOK
    <2>2. buffer \o (air \o Encode(k)) = (buffer \o air) \o Encode(k)
      BY <2>1, ConcatAssociative
    <2> QED BY <2>1, <2>2 DEF Coming, Send
  <1>5. Frames(Coming') /\ (AtFrame(Coming, 1) <=> Coming = <<>> \/ AtFrame(Coming', 1))
    BY <1>3, <1>4, ExtendedStream DEF Sync
  <1>6. KindsOf(Coming') \subseteq KindsOf(Coming) \cup {k}
    BY <1>4, ExtendedKinds
  <1>7. Coming = <<>> => AtFrame(Coming', 1)
    BY <1>4, FramesOfEncode, EncodeType
  <1> QED BY <1>3, <1>5, <1>6, <1>7 DEF Sync

\* A notification.
LEMMA NotifySync ==
    ASSUME SyncInv, BufferInv, Notify
    PROVE  SyncInv'
  <1>1. PICK n \in 1..Len(air) :
          LET chunk == SubSeq(air, 1, n)
              fed == Assemble(chunk)
          IN /\ air' = SubSeq(air, n + 1, Len(air))
             /\ IF subscribed
                THEN /\ buffer' = fed.rest
                     /\ pending' = Resolve(fed.frames)
                     /\ missed' = (missed + Ends(chunk)) - Whole(fed.frames)
                ELSE UNCHANGED <<buffer, pending, missed>>
    BY DEF Notify
  <1>2. UNCHANGED <<torn, sent, subscribed>>
    BY DEF Notify
  <1>3. CASE ~subscribed
    BY <1>1, <1>2, <1>3, IdleSync
  <1>4. CASE subscribed
    <2> DEFINE chunk == SubSeq(air, 1, n)
               fed == Cut(buffer \o chunk)
               later == SubSeq(air, n + 1, Len(air))
    <2>1. /\ buffer' = fed.rest /\ missed' = (missed + Ends(chunk)) - Whole(fed.frames)
          /\ air' = later
      BY <1>1, <1>4 DEF Assemble, Feed
    <2>2. buffer \in Seq(Byte) /\ air \in Seq(Byte) /\ missed \in Nat
      BY DEF BufferInv, TypeOK
    <2>3. Coming' = fed.rest \o later
      BY <2>1 DEF Coming
    <2>4. CASE ~Followed
      <3>1. torn /\ ~(sent \subseteq PlainKind)
        BY <1>4, <2>4 DEF Followed
      <3> QED BY <1>2, <3>1 DEF SyncInv, InStep, PlainStartCostsOneFrame, Followed
    <2>5. CASE Followed /\ AtFrame(Coming, 1)
      <3>1. Frames(Coming) /\ EndsFrom(buffer, 1) = {} /\ (torn => KindsOf(Coming) \subseteq PlainKind)
        BY <2>5 DEF SyncInv, Sync
      <3>2. /\ Ends(chunk) = Whole(fed.frames) /\ Ends(chunk) \in Nat
            /\ Begun(fed.rest)
            /\ Frames(fed.rest \o later) /\ AtFrame(fed.rest \o later, 1)
            /\ EndsFrom(fed.rest, 1) = {}
            /\ KindsOf(fed.rest \o later) \subseteq KindsOf(Coming)
        BY <2>2, <2>5, <3>1, FedInStep DEF Coming
      <3> HIDE DEF fed, later, chunk
      <3>3. missed' = missed
        BY <2>1, <2>2, <3>2
      <3>4. InStep'
        BY <1>2, <2>1, <3>2, <3>3 DEF SyncInv, InStep, Begun
      <3>5. PlainStartCostsOneFrame'
        BY <1>2, <3>3 DEF SyncInv, PlainStartCostsOneFrame
      <3>6. Sync'
        BY <1>2, <2>1, <2>3, <3>1, <3>2 DEF Sync
      <3> QED BY <3>4, <3>5, <3>6 DEF SyncInv
    <2>6. CASE Followed /\ ~AtFrame(Coming, 1)
      <3>1. /\ Frames(Coming) /\ torn /\ KindsOf(Coming) \subseteq PlainKind /\ Len(buffer) <= 1
            /\ EndsFrom(buffer, 1) = {} => missed = 0
        BY <2>6 DEF SyncInv, Sync
      <3>2. /\ Whole(fed.frames) \in Nat
            /\ \/ Ends(chunk) = Whole(fed.frames)
               \/ Ends(chunk) = Whole(fed.frames) + 1 /\ EndsFrom(buffer, 1) = {}
            /\ Frames(fed.rest \o later) /\ KindsOf(fed.rest \o later) \subseteq KindsOf(Coming)
            /\ AtFrame(fed.rest \o later, 1) => EndsFrom(fed.rest, 1) = {}
            /\ ~AtFrame(fed.rest \o later, 1) =>
                 /\ Len(fed.rest) <= 1
                 /\ EndsFrom(fed.rest, 1) = {} =>
                      EndsFrom(buffer, 1) = {} /\ Ends(chunk) = Whole(fed.frames)
        BY <2>2, <2>6, <3>1, FedTorn DEF Coming
      <3> HIDE DEF fed, later, chunk
      <3>3. Ends(chunk) = Whole(fed.frames) => missed' = missed
        BY <2>1, <2>2, <3>2
      <3>4. InStep'
        BY <1>2, <3>1 DEF InStep
      <3>5. sent \subseteq PlainKind /\ missed <= 1
        BY <2>6, <3>1 DEF Followed, SyncInv, PlainStartCostsOneFrame
      <3>6. missed' <= 1
        <4>1. CASE Ends(chunk) = Whole(fed.frames)
          BY <3>3, <3>5, <4>1
        <4>2. CASE Ends(chunk) = Whole(fed.frames) + 1 /\ EndsFrom(buffer, 1) = {}
          BY <2>1, <3>1, <3>2, <4>2
        <4> QED BY <3>2, <4>1, <4>2
      <3>7. Sync'
        BY <1>2, <2>1, <2>3, <3>1, <3>2, <3>3 DEF Sync
      <3> QED BY <3>4, <3>6, <3>7 DEF SyncInv, PlainStartCostsOneFrame
    <2> QED BY <2>4, <2>5, <2>6
  <1> QED BY <1>3, <1>4

\* Every step keeps how the assembler fares.
LEMMA StepSync ==
    ASSUME SyncInv, WireInv, BufferInv, [Next]_vars
    PROVE  SyncInv'
  <1>1. CASE Open
    <2>1. ~torn' /\ missed' = 0 /\ buffer' = <<>> /\ ~subscribed'
      BY <1>1 DEF Open
    <2> QED BY <2>1, NothingBegins
            DEF SyncInv, InStep, PlainStartCostsOneFrame, Followed
  <1>2. CASE Connect
    BY <1>2, IdleSync DEF Connect, lockVars, streamVars
  <1>3. CASE Start
    <2>1. buffer = <<>> /\ ~subscribed /\ KindsOf(air) \subseteq sent
      BY <1>3 DEF Start, WireInv
    <2>2. UNCHANGED <<buffer, air, sent>> /\ (Watch \/ UNCHANGED <<subscribed, streamVars>>)
      BY <1>3 DEF Start, lockVars
    <2> QED BY <2>1, <2>2, WatchSync, IdleSync DEF streamVars
  <1>4. CASE EndBody \/ Stop \/ Disconnect \/ Cancel \/ LinkDrops
    BY <1>4, IdleSync
    DEF EndBody, Stop, Disconnect, Cancel, CancelConnecting, CancelBody, CancelClosing,
        LinkDrops, Hangup, lockVars, streamVars, historyVars
  <1>5. CASE \E c \in Callers : Execute(c)
    <2>1. PICK c \in Callers : Execute(c)
      BY <1>5
    <2>2. CASE TakeTurn(c)
      <3>1. Watch /\ buffer' = <<>> /\ UNCHANGED <<air, sent, subscribed>> /\ stage = "body"
        BY <2>2 DEF TakeTurn, lockVars
      <3>2. KindsOf(air) \subseteq sent
        BY <3>1 DEF WireInv
      <3> QED BY <3>1, <3>2, WatchSync
    <2>3. CASE Write(c) \/ Receive(c) \/ TimeOut(c)
      BY <2>3, IdleSync DEF Write, Receive, TimeOut, lockVars, streamVars, historyVars
    <2> QED BY <2>1, <2>2, <2>3 DEF Execute
  <1>6. CASE \E c \in Callers : LockAnswers(c)
    <2>1. PICK c \in Callers : LockAnswers(c)
      BY <1>6
    <2>2. Send(Answer[c]) /\ Answer[c] \in Kind /\ UNCHANGED <<buffer, torn, missed, subscribed>>
      BY <2>1, CallerAssumption DEF LockAnswers, streamVars
    <2> QED BY <2>2, SendSync
  <1>7. CASE LockReports
    <2>1. PICK k \in Kind : Send(k)
      BY <1>7 DEF LockReports
    <2>2. UNCHANGED <<buffer, torn, missed, subscribed>>
      BY <1>7 DEF LockReports, streamVars
    <2> QED BY <2>1, <2>2, SendSync
  <1>8. CASE Notify
    BY <1>8, NotifySync
  <1>9. CASE UNCHANGED vars
    BY <1>9, IdleSync DEF vars, lockVars, streamVars, historyVars
  <1> QED BY <1>1, <1>2, <1>3, <1>4, <1>5, <1>6, <1>7, <1>8, <1>9 DEF Next, Session

-----------------------------------------------------------------------------
(* Answers *)

\* A frame is decoded to what was encoded, and only that.
LEMMA DecodeEncode ==
    ASSUME NEW k \in Kind
    PROVE  Decode(Encode(k)) = {k} /\ Encode(k) # <<>>
  <1>1. \A l \in Kind : 1 \in 1..Size(l) /\ Encode(l)[1] = <<l, 1>>
    BY KindType, EncodeType
  <1>2. \A l \in Kind : Encode(k) = Encode(l) => k = l
    <2> SUFFICES ASSUME NEW l \in Kind, Encode(k) = Encode(l) PROVE k = l
      OBVIOUS
    <2>1. <<k, 1>> = <<l, 1>>
      BY <1>1
    <2> QED BY <2>1
  <1>3. Encode(k) # <<>>
    <2>1. Len(Encode(k)) # 0
      BY KindType, EncodeType
    <2> QED BY <2>1
  <1> QED BY <1>2, <1>3 DEF Decode

\* An answer that arrives in pieces is given out with its last one.
LEMMA FedAnswer ==
    ASSUME NEW b \in Seq(Byte), NEW a \in Seq(Byte), NEW n \in 1..Len(a), NEW k \in Kind,
           b \o a = Encode(k)
    PROVE  LET fed == Cut(b \o SubSeq(a, 1, n))
               later == SubSeq(a, n + 1, Len(a))
           IN  \/ later = <<>> /\ fed.frames # <<>> /\ Head(fed.frames) = Encode(k)
               \/ later # <<>> /\ fed.frames = <<>> /\ fed.rest \o later = Encode(k)
  <1> DEFINE t == b \o a
             chunk == SubSeq(a, 1, n)
             s == b \o chunk
             later == SubSeq(a, n + 1, Len(a))
             fed == Cut(s)
  <1>d. Fed(b, a, n, t, chunk, s, later)
    BY Feeding
  <1>0. t = Encode(k) /\ Len(a) \in Nat /\ Len(t) = Len(b) + Len(a) /\ n \in Nat /\ n <= Len(a)
    OBVIOUS
  <1>a. later \in Seq(Byte) /\ Len(later) = Len(a) - n
    BY <1>0
  <1> HIDE DEF t, chunk, s, later
  <1>1. /\ t \in Seq(Byte) /\ s \in Seq(Byte)
        /\ Len(s) = Len(b) + n /\ Len(s) \in 1..Len(t)
        /\ \A i \in 1..Len(s) : s[i] = t[i]
        /\ \A j \in 1..(Len(s) + 1) : SubSeq(s, j, Len(s)) \o later = SubSeq(t, j, Len(t))
    BY <1>d DEF Fed
  <1>2. Frames(t) /\ Stream(t) /\ AtFrame(t, 1) /\ Len(t) = Size(k) /\ Size(k) \in Nat
    BY <1>0, FramesOfEncode, EncodeType, KindType DEF Frames
  <1>3. Stream(s) /\ AtFrame(s, 1)
    BY <1>1, <1>2, PrefixStream
  <1>4. Len(s) \in Nat /\ Len(b) \in Nat /\ 1 \in 1..(Len(s) + 1) /\ Len(s) <= Size(k)
        /\ Len(s) >= 1
    BY <1>1, <1>2
  <1>5. \A i \in 1..Len(s) : s[i] = <<k, i>> /\ (IsEnd(s[i]) <=> i = Size(k))
    <2> SUFFICES ASSUME NEW i \in 1..Len(s)
                 PROVE  s[i] = <<k, i>> /\ (IsEnd(s[i]) <=> i = Size(k))
      OBVIOUS
    <2>1. i \in 1..Size(k)
      BY <1>2, <1>4
    <2>2. s[i] = <<k, i>>
      BY <1>0, <1>1, <2>1, EncodeType
    <2> QED BY <2>2 DEF IsEnd
  <1>6. /\ fed.frames \in Seq({Encode(s[j][1]) : j \in 1..Len(s)})
        /\ Len(fed.frames) = Cardinality(EndsFrom(s, 1))
        /\ \E j \in 1..(Len(s) + 1) : /\ AtFrame(s, j) /\ EndsFrom(s, j) = {}
                                     /\ fed.rest = SubSeq(s, j, Len(s))
    <2>1. \A m \in 1..(1 - 1) : ~HasMagic(s, m)
      OBVIOUS
    <2>2. ~(1 > 1)
      OBVIOUS
    <2>3. /\ Cut(s).frames \in Seq({Encode(s[j][1]) : j \in 1..Len(s)})
          /\ Len(Cut(s).frames) = Cardinality(EndsFrom(s, 1))
          /\ \/ \E j \in 1..(Len(s) + 1) : /\ AtFrame(s, j) /\ EndsFrom(s, j) = {}
                                           /\ Cut(s).rest = SubSeq(s, j, Len(s))
             \/ /\ 1 = Len(s) + 1 /\ 1 > 1
                /\ Cut(s).rest = SubSeq(s, Len(s), Len(s))
      BY <1>1, <1>3, <1>4, <2>1, CutOfStream, Zenon
    <2> QED BY <2>2, <2>3
  <1> HIDE DEF fed
  <1>7. fed.frames \in Seq({Encode(k)})
    <2>1. {Encode(s[j][1]) : j \in 1..Len(s)} \subseteq {Encode(k)}
      BY <1>5
    <2> QED BY <1>6, <2>1, SeqMonotonic
  <1>8. CASE n = Len(a)
    <2>1. later = <<>>
      BY <1>0, <1>8, <1>a
    <2>2. Len(s) = Size(k)
      BY <1>0, <1>1, <1>2, <1>8
    <2>3. Size(k) \in EndsFrom(s, 1)
      <3>1. Size(k) \in 1..Len(s)
        BY <1>2, <1>4, <2>2
      <3> QED BY <1>5, <3>1 DEF EndsFrom
    <2>4. Cardinality(EndsFrom(s, 1)) # 0
      <3>1. IsFiniteSet(EndsFrom(s, 1))
        BY <1>1, EndsFinite
      <3> QED BY <2>3, <3>1, FS_EmptySet
    <2>5. fed.frames # <<>>
      BY <1>6, <2>4
    <2>6. Head(fed.frames) = Encode(k)
      BY <1>7, <2>5
    <2> QED BY <2>1, <2>5, <2>6 DEF fed, s, chunk, later
  <1>9. CASE n # Len(a)
    <2>1. later # <<>>
      <3>1. Len(later) # 0
        BY <1>0, <1>9, <1>a
      <3> QED BY <3>1
    <2>2. Len(s) < Size(k)
      BY <1>0, <1>1, <1>2, <1>4, <1>9
    <2>3. \A i \in 1..Len(s) : ~IsEnd(s[i])
      BY <1>2, <1>4, <1>5, <2>2
    <2>4. fed.frames = <<>>
      <3>1. EndsFrom(s, 1) = {}
        BY <2>3 DEF EndsFrom
      <3>2. Len(fed.frames) = 0
        BY <1>6, <3>1, FS_EmptySet
      <3> QED BY <1>7, <3>2
    <2>5. PICK j \in 1..(Len(s) + 1) : AtFrame(s, j) /\ fed.rest = SubSeq(s, j, Len(s))
      BY <1>6
    <2>6. j = 1
      <3>1. CASE j \in 1..Len(s)
        BY <1>5, <2>5, <3>1 DEF AtFrame
      <3>2. CASE j = Len(s) + 1
        <4>1. j - 1 = Len(s) /\ Len(s) \in 1..Len(s)
          BY <1>4, <3>2
        <4> QED BY <2>3, <2>5, <4>1 DEF AtFrame
      <3> QED BY <1>4, <3>1, <3>2
    <2>7. fed.rest \o later = SubSeq(t, 1, Len(t))
      BY <1>1, <1>4, <2>5, <2>6
    <2>8. SubSeq(t, 1, Len(t)) = t
      BY <1>1
    <2> QED BY <1>0, <2>1, <2>4, <2>7, <2>8 DEF fed, s, chunk, later
  <1> QED BY <1>8, <1>9

\* A session that nothing disturbed.
Alone == ~disturbed /\ stage \in {"subscribing", "body"}

\* Whoever waits does so for a lock that has the command or for an answer that is
\* on its way; or has the answer, or has lost the link.
Awaits(c) ==
    \/ asked = {c} /\ air = <<>> /\ buffer = <<>> /\ pending.raw = <<>>
    \/ asked = {} /\ air # <<>> /\ Coming = Encode(Answer[c]) /\ pending.raw = <<>>
    \/ asked = {} /\ air = <<>> /\ pending.raw = Encode(Answer[c])
    \/ asked = {} /\ link = "closed" /\ pending.raw = <<>>

Own ==
    \/ turn = NoCaller /\ asked = {} /\ air = <<>>
    \/ /\ turn # NoCaller /\ callers[turn].stage = "writing"
       /\ asked = {} /\ air = <<>> /\ buffer = <<>> /\ pending.raw = <<>>
    \/ turn # NoCaller /\ callers[turn].stage = "waiting" /\ Awaits(turn)

OwnInv ==
    /\ pending.of = turn
    /\ SerialAnswerIsOwn
    /\ stage = "body" /\ link = "open" => subscribed
    /\ Alone => Own

\* Results do not change unless a call ends.
LEMMA SameOutcomes ==
    ASSUME OwnInv, \A c \in Callers : callers'[c].outcome = callers[c].outcome,
           ~disturbed' => ~disturbed
    PROVE  SerialAnswerIsOwn'
  BY DEF OwnInv, SerialAnswerIsOwn, AnswerIsOwn

\* A call ends, with a result that is its own.
LEMMA LeaveOwn ==
    ASSUME OwnInv, SessionInv, NEW c \in Callers, NEW outcome, Leave(c, outcome),
           ~disturbed' => /\ ~disturbed
                          /\ outcome \in {Answer[c], "none", "silent", "failed", "cancelled"}
    PROVE  SerialAnswerIsOwn'
  <1>1. \A d \in Callers : callers'[d].outcome = IF d = c THEN outcome ELSE callers[d].outcome
    BY DEF Leave, SessionInv
  <1> QED BY <1>1 DEF OwnInv, SerialAnswerIsOwn, AnswerIsOwn

\* The steps of execute: only who waits gets the frame, and it is the answer.
LEMMA ExecuteOwn ==
    ASSUME OwnInv, WireInv, BufferInv, SessionInv, NEW c \in Callers, Execute(c)
    PROVE  OwnInv'
  <1>0. /\ callers \in [Callers -> Caller] /\ c # NoCaller
        /\ UNCHANGED <<stage, link, subscribed>>
        /\ stage = "body" /\ link = "open" => subscribed
    BY CallerAssumption
    DEF SessionInv, OwnInv, Execute, TakeTurn, Write, Receive, TimeOut
  <1>1. CASE TakeTurn(c)
    <2>1. /\ turn = NoCaller /\ turn' = c /\ buffer' = <<>> /\ pending' = [of |-> c, raw |-> <<>>]
          /\ UNCHANGED <<asked, air, disturbed>>
          /\ callers' = [callers EXCEPT ![c].stage = "writing"]
      BY <1>1 DEF TakeTurn, lockVars
    <2>2. /\ callers'[c].stage = "writing" /\ pending'.of = c /\ pending'.raw = <<>>
          /\ \A d \in Callers : callers'[d].outcome = callers[d].outcome
      BY <1>0, <2>1 DEF Caller
    <2>3. SerialAnswerIsOwn'
      BY <2>1, <2>2, SameOutcomes
    <2>4. Alone' => Own'
      BY <1>0, <2>1, <2>2 DEF OwnInv, Alone, Own
    <2> QED BY <1>0, <2>1, <2>2, <2>3, <2>4 DEF OwnInv
  <1>2. CASE Write(c)
    <2>1. c \in InFlight /\ callers[c].stage = "writing"
      BY <1>2 DEF Write, InFlight
    <2>2. turn = c /\ stage = "body"
      BY <2>1 DEF SessionInv
    <2>3. CASE link = "open" /\ asked' = asked \cup {c} /\ UNCHANGED <<turn, pending>>
               /\ callers' = [callers EXCEPT ![c].stage = "waiting"]
      <3>1. /\ callers'[c].stage = "waiting"
            /\ \A d \in Callers : callers'[d].outcome = callers[d].outcome
        BY <1>0, <2>3 DEF Caller
      <3>2. UNCHANGED <<air, buffer, disturbed>>
        BY <1>2 DEF Write, historyVars
      <3>3. SerialAnswerIsOwn'
        BY <3>1, <3>2, SameOutcomes
      <3>4. Alone' => Own'
        BY <1>0, <2>1, <2>2, <2>3, <3>1, <3>2 DEF OwnInv, Alone, Own, Awaits
      <3> QED BY <1>0, <2>3, <3>3, <3>4 DEF OwnInv
    <2>4. CASE Leave(c, "failed") /\ Release /\ UNCHANGED asked
      <3>1. UNCHANGED <<air, buffer, disturbed>>
        BY <1>2 DEF Write, historyVars
      <3>2. SerialAnswerIsOwn'
        BY <2>4, <3>1, LeaveOwn
      <3>3. Alone' => Own'
        BY <1>0, <2>1, <2>2, <2>4, <3>1 DEF OwnInv, Alone, Own, Release
      <3> QED BY <1>0, <2>4, <3>2, <3>3 DEF OwnInv, Release, Nothing
    <2> QED BY <1>2, <2>3, <2>4 DEF Write
  <1>3. CASE Receive(c)
    <2>1. c \in InFlight /\ callers[c].stage = "waiting" /\ pending.raw # <<>>
      BY <1>3 DEF Receive, InFlight
    <2>2. turn = c /\ stage = "body"
      BY <2>1 DEF SessionInv
    <2>3. Release /\ UNCHANGED <<asked, air, disturbed>>
      BY <1>3 DEF Receive, lockVars, historyVars
    <2>4. ASSUME ~disturbed PROVE pending.raw = Encode(Answer[c]) /\ asked = {} /\ air = <<>>
      BY <1>0, <2>1, <2>2, <2>4 DEF OwnInv, Alone, Own, Awaits
    <2>5. PICK outcome : Leave(c, outcome) /\ (~disturbed => outcome = Answer[c])
      <3>1. Leave(c, IF Decode(pending.raw) = {} THEN "garbled"
                     ELSE CHOOSE k \in Decode(pending.raw) : TRUE)
        BY <1>3 DEF Receive
      <3>2. ASSUME ~disturbed
            PROVE  (IF Decode(pending.raw) = {} THEN "garbled"
                    ELSE CHOOSE k \in Decode(pending.raw) : TRUE) = Answer[c]
        <4>1. Answer[c] \in Kind
          BY CallerAssumption
        <4>2. Decode(pending.raw) = {Answer[c]}
          BY <2>4, <3>2, <4>1, DecodeEncode
        <4> QED BY <4>2
      <3> QED BY <3>1, <3>2
    <2>6. SerialAnswerIsOwn'
      BY <2>3, <2>5, LeaveOwn
    <2>7. Alone' => Own'
      BY <2>3, <2>4 DEF Alone, Own, Release
    <2> QED BY <1>0, <2>3, <2>6, <2>7 DEF OwnInv, Release, Nothing
  <1>4. CASE TimeOut(c)
    <2>1. disturbed' /\ Release
      BY <1>4 DEF TimeOut
    <2> QED BY <1>0, <2>1 DEF OwnInv, SerialAnswerIsOwn, Alone, Release, Nothing
  <1> QED BY <1>1, <1>2, <1>3, <1>4 DEF Execute

\* A notification brings the answer a piece nearer, and the last piece all of it.
LEMMA NotifyOwn ==
    ASSUME OwnInv, WireInv, BufferInv, SessionInv, Notify
    PROVE  OwnInv'
  <1>1. PICK n \in 1..Len(air) :
          LET chunk == SubSeq(air, 1, n)
              fed == Assemble(chunk)
          IN /\ air' = SubSeq(air, n + 1, Len(air))
             /\ IF subscribed
                THEN /\ buffer' = fed.rest
                     /\ pending' = Resolve(fed.frames)
                     /\ missed' = (missed + Ends(chunk)) - Whole(fed.frames)
                ELSE UNCHANGED <<buffer, pending, missed>>
    BY DEF Notify
  <1>2. UNCHANGED <<stage, link, subscribed, turn, callers, asked, disturbed>> /\ link = "open"
    BY DEF Notify
  <1>3. SerialAnswerIsOwn'
    BY <1>2 DEF OwnInv, SerialAnswerIsOwn, AnswerIsOwn
  <1> DEFINE chunk == SubSeq(air, 1, n)
             fed == Cut(buffer \o chunk)
             later == SubSeq(air, n + 1, Len(air))
  <1>4. pending'.of = turn'
    <2>1. \A frames : Resolve(frames).of = pending.of
      BY DEF Resolve, BufferInv, TypeOK
    <2> QED BY <1>1, <1>2, <2>1 DEF OwnInv
  <1>5. ASSUME Alone' PROVE Own'
    <2>1. Alone /\ Own
      BY <1>2, <1>5 DEF Alone, OwnInv
    <2>2. air # <<>> /\ air \in Seq(Byte) /\ buffer \in Seq(Byte)
          /\ pending \in [of : Callers \cup {NoCaller}, raw : Seq(Byte)]
          /\ turn \in Callers \cup {NoCaller}
      BY DEF BufferInv, TypeOK
    <2>3. /\ turn # NoCaller /\ callers[turn].stage = "waiting" /\ asked = {}
          /\ Coming = Encode(Answer[turn]) /\ pending.raw = <<>>
      BY <1>2, <2>1, <2>2 DEF Own, Awaits
    <2>4. turn \in Callers /\ Answer[turn] \in Kind /\ stage = "body" /\ subscribed
      BY <1>2, <2>2, <2>3, CallerAssumption DEF SessionInv, OwnInv
    <2>5. buffer' = fed.rest /\ pending' = Resolve(fed.frames) /\ air' = later
      BY <1>1, <2>4 DEF Assemble, Feed
    <2>6. \/ later = <<>> /\ fed.frames # <<>> /\ Head(fed.frames) = Encode(Answer[turn])
          \/ later # <<>> /\ fed.frames = <<>> /\ fed.rest \o later = Encode(Answer[turn])
      <3>1. buffer \o air = Encode(Answer[turn])
        BY <2>3 DEF Coming
      <3>2. n \in 1..Len(air)
        BY <2>2
      <3>3. PICK k \in Kind : k = Answer[turn]
        BY <2>4
      <3>4. buffer \o air = Encode(k)
        BY <3>1, <3>3
      <3> QED BY <2>2, <3>2, <3>3, <3>4, FedAnswer
    <2> HIDE DEF fed, later
    <2>7. pending.of # NoCaller
      BY <2>3 DEF OwnInv
    <2>8. CASE later = <<>> /\ fed.frames # <<>> /\ Head(fed.frames) = Encode(Answer[turn])
      <3>1. pending'.raw = Encode(Answer[turn])
        BY <2>2, <2>3, <2>5, <2>7, <2>8 DEF Resolve
      <3> QED BY <1>2, <2>3, <2>5, <2>8, <3>1 DEF Own, Awaits
    <2>9. CASE later # <<>> /\ fed.frames = <<>> /\ fed.rest \o later = Encode(Answer[turn])
      <3>1. pending' = pending
        BY <2>5, <2>9 DEF Resolve
      <3> QED BY <1>2, <2>3, <2>5, <2>9, <3>1 DEF Own, Awaits, Coming
    <2> QED BY <2>6, <2>8, <2>9
  <1> QED BY <1>2, <1>3, <1>4, <1>5 DEF OwnInv

\* Every step keeps that answers are their callers' own.
LEMMA StepOwn ==
    ASSUME OwnInv, WireInv, BufferInv, SessionInv, [Next]_vars
    PROVE  OwnInv'
  <1>1. CASE Open
    BY <1>1 DEF Open, NewCaller, OwnInv, SerialAnswerIsOwn, AnswerIsOwn, Alone
  <1>2. CASE Connect
    <2>1. SerialAnswerIsOwn' /\ pending'.of = turn' /\ stage' # "body"
      BY <1>2 DEF Connect, OwnInv, SerialAnswerIsOwn, AnswerIsOwn
    <2>2. ASSUME Alone' PROVE Own'
      <3>1. link = "closed" /\ stage = "connecting"
        BY <1>2, <2>2 DEF Connect, Alone
      <3>2. turn = NoCaller /\ asked = {} /\ air = <<>>
        BY <3>1 DEF WireInv, SessionInv
      <3> QED BY <1>2, <3>2 DEF Connect, lockVars, Own
    <2> QED BY <2>1, <2>2 DEF OwnInv
  <1>3. CASE Start
    <2>1. SerialAnswerIsOwn' /\ pending'.of = turn'
      BY <1>3 DEF Start, OwnInv, SerialAnswerIsOwn, AnswerIsOwn
    <2>2. stage' = "body" => subscribed'
      BY <1>3 DEF Start
    <2>3. ASSUME Alone' PROVE Own'
      <3>1. Alone /\ turn = NoCaller
        BY <1>3, <2>3 DEF Start, Alone, SessionInv
      <3> QED BY <1>3, <3>1 DEF Start, lockVars, OwnInv, Own
    <2> QED BY <2>1, <2>2, <2>3 DEF OwnInv
  <1>4. CASE EndBody \/ Stop \/ Disconnect
    BY <1>4 DEF EndBody, Stop, Disconnect, historyVars, OwnInv, SerialAnswerIsOwn, AnswerIsOwn, Alone
  <1>5. CASE Cancel
    <2>1. disturbed' = disturbed /\ (CancelConnecting \/ CancelBody \/ CancelClosing)
      BY <1>5 DEF Cancel
    <2>2. stage' \in {"idle", "stopping"} /\ pending'.of = turn'
      BY <2>1
      DEF CancelConnecting, CancelBody, CancelClosing, Release, Nothing, OwnInv
    <2>3. \A c \in Callers : callers'[c] = callers[c] \/ callers'[c].outcome = "cancelled"
      BY <2>1 DEF CancelConnecting, CancelBody, CancelClosing
    <2>4. SerialAnswerIsOwn'
      BY <2>1, <2>3 DEF OwnInv, SerialAnswerIsOwn, AnswerIsOwn
    <2> QED BY <2>2, <2>4 DEF OwnInv, Alone
  <1>6. CASE \E c \in Callers : Execute(c)
    BY <1>6, ExecuteOwn
  <1>7. CASE \E c \in Callers : LockAnswers(c)
    <2>1. PICK c \in Callers : LockAnswers(c)
      BY <1>7
    <2>2. /\ c \in asked /\ asked' = asked \ {c} /\ air' = air \o Encode(Answer[c])
          /\ UNCHANGED <<stage, link, subscribed, buffer, turn, pending, callers, disturbed>>
      BY <2>1 DEF LockAnswers, Send
    <2>3. SerialAnswerIsOwn'
      BY <2>2 DEF OwnInv, SerialAnswerIsOwn, AnswerIsOwn
    <2>4. ASSUME Alone' PROVE Own'
      <3>1. Alone
        BY <2>2, <2>4 DEF Alone
      <3>2. /\ turn # NoCaller /\ callers[turn].stage = "waiting" /\ asked = {turn}
            /\ air = <<>> /\ buffer = <<>> /\ pending.raw = <<>>
        BY <2>2, <3>1 DEF OwnInv, Own, Awaits
      <3>3. c = turn
        BY <2>2, <3>2
      <3>4. Answer[c] \in Kind /\ Encode(Answer[c]) \in Seq(Byte)
        BY CallerAssumption, EncodeType
      <3>5. asked' = {} /\ air' = Encode(Answer[c]) /\ Coming' = Encode(Answer[c])
        BY <2>2, <3>2, <3>3, <3>4 DEF Coming
      <3>6. air' # <<>>
        BY <3>4, <3>5, DecodeEncode
      <3> QED BY <2>2, <3>2, <3>3, <3>5, <3>6 DEF Own, Awaits
    <2> QED BY <2>2, <2>3, <2>4 DEF OwnInv
  <1>8. CASE LockReports
    BY <1>8 DEF LockReports, OwnInv, SerialAnswerIsOwn, Alone
  <1>9. CASE Notify
    BY <1>9, NotifyOwn
  <1>10. CASE LinkDrops
    <2>1. /\ link' = "closed" /\ air' = <<>> /\ asked' = {}
          /\ UNCHANGED <<stage, buffer, turn, pending, callers, disturbed>>
      BY <1>10 DEF LinkDrops, Hangup, historyVars
    <2>2. SerialAnswerIsOwn'
      BY <2>1 DEF OwnInv, SerialAnswerIsOwn, AnswerIsOwn
    <2>3. ASSUME Alone' PROVE Own'
      BY <2>1, <2>3 DEF Alone, OwnInv, Own, Awaits
    <2> QED BY <2>1, <2>2, <2>3 DEF OwnInv
  <1>11. CASE UNCHANGED vars
    BY <1>11 DEF vars, lockVars, historyVars, OwnInv, SerialAnswerIsOwn, AnswerIsOwn,
                 Alone, Own, Awaits, Coming
  <1> QED BY <1>1, <1>2, <1>3, <1>4, <1>5, <1>6, <1>7, <1>8, <1>9, <1>10, <1>11
          DEF Next, Session

-----------------------------------------------------------------------------
(* The invariant *)

\* A call has a result once it is over.
ResultInv == \A c \in Callers : callers[c].outcome = "none" <=> callers[c].stage # "over"

\* Every step keeps that results are of calls that are over.
LEMMA StepResult ==
    ASSUME ResultInv, SessionInv, [Next]_vars
    PROVE  ResultInv'
  <1>0. callers \in [Callers -> Caller]
    BY DEF SessionInv
  <1>1. CASE Open
    BY <1>1 DEF Open, NewCaller, ResultInv
  <1>2. CASE Session
    BY <1>2 DEF Session, Connect, Start, EndBody, Stop, Disconnect, ResultInv
  <1>3. CASE Cancel
    BY <1>3 DEF Cancel, CancelConnecting, CancelBody, CancelClosing, ResultInv
  <1>4. ASSUME NEW c \in Callers, Execute(c) PROVE ResultInv'
    <2>1. ASSUME NEW outcome, Leave(c, outcome), outcome # "none" PROVE ResultInv'
      BY <1>0, <2>1 DEF Leave, ResultInv
    <2>2. CASE TakeTurn(c)
      BY <1>0, <2>2 DEF TakeTurn, ResultInv, Caller
    <2>3. CASE Write(c)
      <3>1. CASE Leave(c, "failed")
        BY <2>1, <3>1
      <3>2. CASE callers' = [callers EXCEPT ![c].stage = "waiting"]
        BY <1>0, <2>3, <3>2 DEF Write, ResultInv, Caller
      <3> QED BY <2>3, <3>1, <3>2 DEF Write
    <2>4. CASE Receive(c)
      <3>1. Leave(c, IF Decode(pending.raw) = {} THEN "garbled"
                     ELSE CHOOSE k \in Decode(pending.raw) : TRUE)
        BY <2>4 DEF Receive
      <3>2. Decode(pending.raw) # {} => (CHOOSE k \in Decode(pending.raw) : TRUE) \in Kind
        BY DEF Decode
      <3>3. (IF Decode(pending.raw) = {} THEN "garbled"
             ELSE CHOOSE k \in Decode(pending.raw) : TRUE) # "none"
        BY <3>2, CallerAssumption
      <3> QED BY <2>1, <3>1, <3>3
    <2>5. CASE TimeOut(c)
      <3>1. Leave(c, "silent") /\ "silent" # "none"
        BY <2>5 DEF TimeOut
      <3> QED BY <2>1, <3>1
    <2> QED BY <1>4, <2>2, <2>3, <2>4, <2>5 DEF Execute
  <1>5. CASE LockReports \/ Notify \/ LinkDrops \/ \E c \in Callers : LockAnswers(c)
    BY <1>5 DEF LockReports, Notify, LinkDrops, LockAnswers, ResultInv
  <1>6. CASE UNCHANGED vars
    BY <1>6 DEF vars, ResultInv
  <1> QED BY <1>1, <1>2, <1>3, <1>4, <1>5, <1>6 DEF Next

\* The inductive invariant.
IInv == SessionInv /\ BufferInv /\ WireInv /\ SyncInv /\ OwnInv /\ ResultInv

\* It holds in the beginning,
LEMMA InitIInv == Init => IInv
  <1> SUFFICES ASSUME Init PROVE IInv
    OBVIOUS
  <1>1. callers \in [Callers -> Caller] /\ InFlight = {}
    BY DEF Init, NewCaller, Caller, Outcome, InFlight
  <1>2. SessionInv
    BY <1>1 DEF Init, SessionInv
  <1>3. BufferInv
    BY <1>1, QuietNothing, NothingType DEF Init, BufferInv, TypeOK, Stage, Pending
  <1>4. WireInv
    BY FramesOfNothing DEF Init, WireInv
  <1>5. SyncInv
    BY NothingBegins DEF Init, SyncInv, InStep, PlainStartCostsOneFrame, Followed
  <1>6. OwnInv
    BY DEF Init, OwnInv, SerialAnswerIsOwn, AnswerIsOwn, Alone, Nothing, NewCaller
  <1>7. ResultInv
    BY DEF Init, ResultInv, NewCaller
  <1> QED BY <1>2, <1>3, <1>4, <1>5, <1>6, <1>7 DEF IInv

\* and every step keeps it.
LEMMA StepIInv == IInv /\ [Next]_vars => IInv'
  <1> SUFFICES ASSUME IInv, [Next]_vars PROVE IInv'
    OBVIOUS
  <1>1. SessionInv'
    BY StepSessionInv DEF IInv
  <1> QED BY <1>1, StepBuffer, StepWire, StepSync, StepOwn, StepResult DEF IInv

\* The invariant holds throughout.
THEOREM Invariant == Spec => []IInv
  BY InitIInv, StepIInv, PTL DEF Spec

\* All variables have their types; and although feed has no cap on its buffer, it
\* never holds as many bytes as the longest frame, whatever the lock sends and
\* however it is cut into notifications.
THEOREM TypeCorrect == Spec => []TypeOK
  <1>1. IInv => TypeOK
    BY DEF IInv, BufferInv
  <1> QED BY <1>1, Invariant, PTL

\* An assembler that began between two frames gives out every frame that ended,
\* whatever the sizes of the notifications and whatever its data looks like, and
\* keeps just the beginning of the next one.
THEOREM StaysInStep == Spec => []InStep
  <1>1. IInv => InStep
    BY DEF IInv, SyncInv
  <1> QED BY <1>1, Invariant, PTL

\* One that began inside a frame misses that frame only, if no data has a magic
\* in it (FrameAssembler: "starting mid-frame costs one frame").
THEOREM PlainStart == Spec => []PlainStartCostsOneFrame
  <1>1. IInv => PlainStartCostsOneFrame
    BY DEF IInv, SyncInv
  <1> QED BY <1>1, Invariant, PTL

\* Each execute gets the answer to its own command, as long as the lock sends
\* nothing unasked and answers in time.
THEOREM AnswersAreOwn == Spec => []SerialAnswerIsOwn
  <1>1. IInv => SerialAnswerIsOwn
    BY DEF IInv, OwnInv
  <1> QED BY <1>1, Invariant, PTL

\* A session that is over has released the turn, and has closed its connection
\* unless it was cancelled while it closed or its disconnect raised.
THEOREM SessionClosed == Spec => []SessionCloses
  <1>1. IInv => SessionCloses
    BY DEF IInv, SessionInv, SessionCloses
  <1> QED BY <1>1, Invariant, PTL

-----------------------------------------------------------------------------
(* Refinement *)

\* What the exchange sees of a session.
Result == [c \in Callers |-> callers[c].outcome]

\* What does not touch callers, turn or the opening is no step of the exchange.
LEMMA StutterExchange ==
    ASSUME UNCHANGED <<turn, callers, disturbed>>, (stage # "idle") = (stage' # "idle")
    PROVE  UNCHANGED Exchange!vars
  BY DEF Exchange!vars

\* A session is closed with no command out.
LEMMA CloseExchange ==
    ASSUME IInv, UNCHANGED <<turn, callers, disturbed>>,
           stage \notin {"idle", "body"}, stage' = "idle"
    PROVE  Exchange!Close
  BY DEF IInv, SessionInv, Exchange!Close

\* A call that leaves execute ends its command.
LEMMA LeaveExchange ==
    ASSUME SessionInv, NEW c \in Callers, turn = c, Release, UNCHANGED stage,
           NEW outcome, Leave(c, outcome)
    PROVE  Exchange!Ends(c, outcome)
  <1>1. [d \in Callers |-> callers'[d].outcome] = [Result EXCEPT ![c] = outcome]
    BY DEF Leave, Result, SessionInv
  <1> QED BY <1>1 DEF Exchange!Ends, Release, Result

\* The steps of execute are those of a command.
LEMMA ExecuteExchange ==
    ASSUME IInv, NEW c \in Callers, Execute(c)
    PROVE  Exchange!Next \/ UNCHANGED Exchange!vars
  <1>0. callers \in [Callers -> Caller] /\ c # NoCaller /\ UNCHANGED stage
    BY CallerAssumption DEF IInv, SessionInv, Execute, TakeTurn, Write, Receive, TimeOut
  <1>1. CASE TakeTurn(c)
    <2>1. stage = "body" /\ turn = NoCaller /\ turn' = c /\ disturbed' = disturbed
          /\ callers' = [callers EXCEPT ![c].stage = "writing"] /\ callers[c].outcome = "none"
      BY <1>1 DEF TakeTurn, IInv, ResultInv
    <2>2. [d \in Callers |-> callers'[d].outcome] = [d \in Callers |-> callers[d].outcome]
      BY <1>0, <2>1 DEF Caller
    <2>3. Exchange!Ask(c)
      BY <1>0, <2>1, <2>2 DEF Exchange!Ask
    <2> QED BY <2>3 DEF Exchange!Next
  <1>2. CASE Write(c)
    <2>1. c \in InFlight /\ disturbed' = disturbed
      BY <1>2 DEF Write, InFlight, historyVars
    <2>2. turn = c
      BY <2>1 DEF IInv, SessionInv
    <2>3. CASE callers' = [callers EXCEPT ![c].stage = "waiting"] /\ turn' = turn
      <3>1. [d \in Callers |-> callers'[d].outcome] = [d \in Callers |-> callers[d].outcome]
        BY <1>0, <2>3 DEF Caller
      <3> QED BY <1>0, <2>1, <2>3, <3>1 DEF Exchange!vars
    <2>4. CASE Leave(c, "failed") /\ Release
      <3>1. Exchange!Ends(c, "failed")
        BY <1>0, <2>2, <2>4, LeaveExchange DEF IInv
      <3> QED BY <2>1, <3>1 DEF Exchange!Fail, Exchange!Next
    <2> QED BY <1>2, <2>3, <2>4 DEF Write
  <1>3. CASE Receive(c)
    <2>1. /\ c \in InFlight /\ disturbed' = disturbed /\ Release
          /\ callers[c].stage = "waiting" /\ pending.raw # <<>>
      BY <1>3 DEF Receive, InFlight, historyVars
    <2>2. turn = c /\ stage = "body"
      BY <2>1 DEF IInv, SessionInv
    <2> DEFINE given == IF Decode(pending.raw) = {} THEN "garbled"
                        ELSE CHOOSE k \in Decode(pending.raw) : TRUE
    <2>3. Leave(c, given)
      BY <1>3 DEF Receive
    <2>4. given \in IF disturbed THEN Kind \cup {"garbled"} ELSE {Answer[c]}
      <3>1. CASE disturbed
        <4>1. Decode(pending.raw) # {} => (CHOOSE k \in Decode(pending.raw) : TRUE) \in Kind
          BY DEF Decode
        <4> QED BY <3>1, <4>1
      <3>2. CASE ~disturbed
        <4>1. pending.raw = Encode(Answer[c])
          BY <1>0, <2>1, <2>2, <3>2 DEF IInv, OwnInv, Alone, Own, Awaits
        <4>2. Decode(pending.raw) = {Answer[c]}
          BY <4>1, DecodeEncode, CallerAssumption
        <4> QED BY <3>2, <4>2
      <3> QED BY <3>1, <3>2
    <2> HIDE DEF given
    <2>r. PICK reply : /\ Leave(c, reply)
                       /\ reply \in IF disturbed THEN Kind \cup {"garbled"} ELSE {Answer[c]}
      BY <2>3, <2>4
    <2>5. Exchange!Ends(c, reply)
      BY <1>0, <2>1, <2>2, <2>r, LeaveExchange DEF IInv
    <2>6. Exchange!Reply(c)
      BY <2>1, <2>r, <2>5 DEF Exchange!Reply
    <2> QED BY <2>6 DEF Exchange!Next
  <1>4. CASE TimeOut(c)
    <2>1. c \in InFlight /\ disturbed' = TRUE /\ Release /\ Leave(c, "silent")
      BY <1>4 DEF TimeOut, InFlight
    <2>2. turn = c
      BY <2>1 DEF IInv, SessionInv
    <2>3. Exchange!Ends(c, "silent")
      BY <1>0, <2>1, <2>2, LeaveExchange DEF IInv
    <2> QED BY <2>1, <2>3 DEF Exchange!TimeOut, Exchange!Next
  <1> QED BY <1>1, <1>2, <1>3, <1>4 DEF Execute

\* Every step of a session is one of the exchange, or none.
LEMMA StepExchange ==
    ASSUME IInv, [Next]_vars
    PROVE  Exchange!Next \/ UNCHANGED Exchange!vars
  <1>1. CASE Open
    <2>1. Exchange!Open
      BY <1>1 DEF Open, NewCaller, Exchange!Open, Exchange!NoResults
    <2> QED BY <2>1 DEF Exchange!Next
  <1>2. CASE Connect \/ Disconnect
    <2>1. CASE stage' = "idle"
      <3>1. UNCHANGED <<turn, callers, disturbed>> /\ stage \notin {"idle", "body"}
        BY <1>2 DEF Connect, Disconnect, historyVars
      <3> QED BY <2>1, <3>1, CloseExchange DEF Exchange!Next
    <2>2. CASE stage' # "idle"
      BY <1>2, <2>2, StutterExchange DEF Connect, Disconnect
    <2> QED BY <2>1, <2>2
  <1>3. CASE Start \/ EndBody \/ Stop
    BY <1>3, StutterExchange DEF Start, EndBody, Stop, historyVars
  <1>4. CASE Cancel
    <2>1. disturbed' = disturbed
      BY <1>4 DEF Cancel
    <2>2. CASE CancelConnecting \/ CancelClosing
      <3>1. UNCHANGED <<turn, callers, disturbed>> /\ stage \notin {"idle", "body"} /\ stage' = "idle"
        BY <2>1, <2>2 DEF CancelConnecting, CancelClosing
      <3> QED BY <3>1, CloseExchange DEF Exchange!Next
    <2>3. CASE CancelBody
      <3>1. stage # "idle" /\ stage' # "idle" /\ turn' = NoCaller
        BY <2>3 DEF CancelBody, Release
      <3>2. \A c \in Callers : callers'[c].outcome =
                IF callers[c].outcome = "none" THEN "cancelled" ELSE callers[c].outcome
        BY <2>3 DEF CancelBody, IInv, ResultInv
      <3>3. Exchange!Cancel
        BY <2>1, <3>1, <3>2 DEF Exchange!Cancel
      <3> QED BY <3>3 DEF Exchange!Next
    <2> QED BY <1>4, <2>2, <2>3 DEF Cancel
  <1>5. CASE \E c \in Callers : Execute(c)
    BY <1>5, ExecuteExchange
  <1>6. CASE LockReports
    BY <1>6 DEF LockReports, Exchange!Disturb, Exchange!Next
  <1>7. CASE Notify \/ LinkDrops \/ \E c \in Callers : LockAnswers(c)
    BY <1>7, StutterExchange DEF Notify, LinkDrops, LockAnswers, historyVars
  <1>8. CASE UNCHANGED vars
    BY <1>8, StutterExchange DEF vars, historyVars
  <1> QED BY <1>1, <1>2, <1>3, <1>4, <1>5, <1>6, <1>7, <1>8 DEF Next, Session

\* A session implements the exchange of commands: turns, futures, notifications
\* and frames come to one command at a time, each with one result, which is its
\* own reply unless something disturbed the session.
THEOREM ExchangeImplemented == Spec => ExchangesCommands
  <1>1. Init => Exchange!Init
    BY DEF Init, Exchange!Init, Exchange!NoResults, NewCaller
  <1>2. IInv /\ [Next]_vars => [Exchange!Next]_(Exchange!vars)
    BY StepExchange
  <1> QED BY <1>1, <1>2, Invariant, PTL DEF Spec, ExchangesCommands, Exchange!Spec

=============================================================================
