---------------------------- MODULE CanId_proofs ----------------------------
(***************************************************************************)
(* Proofs about CanId, for any sizes of frames, words and messages, any    *)
(* number of identifiers and any number of messages and losses.            *)
(***************************************************************************)
EXTENDS CanId, SequenceTheorems, TLAPS

Byte == Data \cup {Start, Stop}

Frame == {f \in [identifier : Identifier, data : Seq(Byte)] :
            f.identifier.idType = "standard" => f.identifier.id < StandardIds}

Configured == /\ kind \in {"static", "dynamic"}
              /\ maxSize \in MessageSizes
              /\ Dynamic => maxSize <= MaxDynamicSize

-----------------------------------------------------------------------------
(* Arithmetic of the cut into frames.                                      *)

LEMMA ProductGrows ==
  ASSUME NEW a \in Nat, NEW b \in Nat, NEW c \in Nat, a <= b
  PROVE  a * c <= b * c
OBVIOUS

LEMMA Quotient ==
  ASSUME NEW a \in Nat, NEW c \in Nat \ {0}
  PROVE  /\ a \div c \in Nat
         /\ (a \div c) * c <= a
         /\ a < (a \div c) * c + c
OBVIOUS

(* The number of frames for n bytes: all but the last are full.            *)
LEMMA FullFrames ==
  ASSUME NEW n \in Nat \ {0}, NEW c \in Nat \ {0},
         NEW k, k = (n + c - 1) \div c
  PROVE  /\ k \in Nat \ {0}
         /\ n <= k * c
         /\ \A i \in Nat : i < k => i * c < n
<1>1. k \in Nat /\ k * c <= n + c - 1 /\ n + c - 1 < k * c + c
      BY Quotient
<1>2. k # 0
      BY <1>1
<1>3. ASSUME NEW i \in Nat, i < k
      PROVE  i * c < n
  <2>1. (i + 1) * c <= k * c
        BY <1>1, <1>3, ProductGrows
  <2>2. (i + 1) * c = i * c + c /\ i * c \in Nat /\ k * c \in Nat
        BY <1>1
  <2> QED BY <1>1, <2>1, <2>2
<1> QED BY <1>1, <1>2, <1>3

-----------------------------------------------------------------------------
(* The Escaper: markers, chunks, and what the decoder makes of them.       *)

LEMMA EncodedMessage ==
  ASSUME NEW m \in Seq(Data)
  PROVE  /\ Encoded(m) \in Seq(Byte) /\ Len(Encoded(m)) = Len(m) + 2
         /\ Encoded(m)[1] = Start /\ Encoded(m)[Len(m) + 2] = Stop
         /\ \A i \in 2..(Len(m) + 1) : Encoded(m)[i] = m[i - 1] /\ Encoded(m)[i] \in Data
<1> DEFINE front == <<Start>> \o m
<1>1. m \in Seq(Byte) /\ <<Start>> \in Seq(Byte) /\ <<Stop>> \in Seq(Byte)
      BY DEF Byte
<1>2. front \in Seq(Byte) /\ Len(front) = Len(m) + 1 /\ front[1] = Start
      BY <1>1, ConcatProperties
<1>3. \A i \in 2..(Len(m) + 1) : front[i] = m[i - 1]
      BY <1>1, ConcatProperties
<1>4. Encoded(m) = front \o <<Stop>>
      BY DEF Encoded
<1> HIDE DEF front
<1>5. /\ Encoded(m) \in Seq(Byte) /\ Len(Encoded(m)) = Len(m) + 2
      /\ \A i \in 1..(Len(m) + 1) : Encoded(m)[i] = front[i]
      /\ Encoded(m)[Len(m) + 2] = Stop
      BY <1>1, <1>2, <1>4, ConcatProperties
<1> QED BY <1>2, <1>3, <1>5

End(s, i) == IF i * FrameSize < Len(s) THEN i * FrameSize ELSE Len(s)
Before(i) == (i - 1) * FrameSize

(* Chunks are full frames but for the last, follow each other, and end     *)
(* with the sequence they are cut from.                                    *)
LEMMA ChunksOf ==
  ASSUME NEW s \in Seq(Byte), s # <<>>
  PROVE  /\ Len(Chunks(s)) \in Nat \ {0} /\ DOMAIN Chunks(s) = 1..Len(Chunks(s))
         /\ \A i \in 1..Len(Chunks(s)) :
              /\ Chunks(s)[i] = SubSeq(s, Before(i) + 1, End(s, i))
              /\ Before(i) \in Nat /\ End(s, i) \in (Before(i) + 1)..Len(s)
              /\ End(s, i) <= Before(i) + FrameSize
              /\ End(s, i) = IF i = Len(Chunks(s)) THEN Len(s) ELSE i * FrameSize
<1> USE SizesAssumption
<1> DEFINE k == (Len(s) + FrameSize - 1) \div FrameSize
<1>1. Len(s) \in Nat \ {0}
      BY EmptySeq
<1>2. /\ k \in Nat \ {0} /\ Len(s) <= k * FrameSize
      /\ \A i \in Nat : i < k => i * FrameSize < Len(s)
      BY <1>1, FullFrames
<1>3. Chunks(s) = [i \in 1..k |-> Chunk(s, i)]
      BY DEF Chunks
<1> HIDE DEF k
<1>4. Len(Chunks(s)) = k /\ DOMAIN Chunks(s) = 1..k
      BY <1>2, <1>3
<1>5. ASSUME NEW i \in 1..k
      PROVE  /\ Chunks(s)[i] = SubSeq(s, Before(i) + 1, End(s, i))
             /\ Before(i) \in Nat /\ End(s, i) \in (Before(i) + 1)..Len(s)
             /\ End(s, i) <= Before(i) + FrameSize
             /\ End(s, i) = IF i = k THEN Len(s) ELSE i * FrameSize
  <2>1. Chunks(s)[i] = SubSeq(s, Before(i) + 1, End(s, i))
        BY <1>3 DEF Chunk, Before, End
  <2>2. Before(i) \in Nat /\ Before(i) < Len(s) /\ i * FrameSize = Before(i) + FrameSize
    <3>1. i - 1 \in Nat /\ i - 1 < k
          BY <1>2
    <3>2. (i - 1) * FrameSize < Len(s)
          BY <1>2, <3>1
    <3>3. (i - 1) * FrameSize \in Nat /\ i * FrameSize = (i - 1) * FrameSize + FrameSize
          BY <3>1
    <3> QED BY <3>2, <3>3 DEF Before
  <2>3. End(s, i) = IF i = k THEN Len(s) ELSE i * FrameSize
        BY <1>1, <1>2 DEF End
  <2> QED BY <1>1, <2>1, <2>2, <2>3 DEF End
<1> QED BY <1>2, <1>4, <1>5

(* A chunk as a frame carries it.                                          *)
LEMMA ChunkBytes ==
  ASSUME NEW s \in Seq(Byte), s # <<>>, NEW i \in 1..Len(Chunks(s))
  PROVE  /\ Chunks(s)[i] \in Seq(Byte)
         /\ Len(Chunks(s)[i]) = End(s, i) - Before(i)
         /\ Len(Chunks(s)[i]) \in 1..FrameSize
         /\ \A j \in 1..Len(Chunks(s)[i]) : Chunks(s)[i][j] = s[Before(i) + j]
<1>1. /\ Chunks(s)[i] = SubSeq(s, Before(i) + 1, End(s, i))
      /\ Before(i) \in Nat /\ End(s, i) \in (Before(i) + 1)..Len(s)
      /\ End(s, i) <= Before(i) + FrameSize
      BY ChunksOf
<1>2. \A j \in (Before(i) + 1)..End(s, i) : s[j] \in Byte
      BY <1>1
<1>3. /\ SubSeq(s, Before(i) + 1, End(s, i)) \in Seq(Byte)
      /\ Len(SubSeq(s, Before(i) + 1, End(s, i))) = End(s, i) - Before(i)
      /\ \A j \in 1..(End(s, i) - Before(i)) :
           SubSeq(s, Before(i) + 1, End(s, i))[j] = s[Before(i) + j]
      BY <1>1, <1>2, SubSeqProperties
<1> QED BY <1>1, <1>3, SizesAssumption

LEMMA MaxIs ==
  ASSUME NEW S \in SUBSET Nat, NEW x \in S, \A y \in S : y <= x
  PROVE  Max(S) = x
<1>1. \E z \in S : \A y \in S : z >= y
      OBVIOUS
<1>2. Max(S) \in S /\ \A y \in S : Max(S) >= y
      BY <1>1, Zenon DEF Max
<1>3. PICK max \in S : max = Max(S) /\ \A y \in S : max >= y
      BY <1>2
<1>4. max >= x /\ max <= x
      BY <1>3
<1> QED BY <1>3, <1>4

(* A start marker begins anew, whatever the decoder holds.                 *)
LEMMA DecodeFirst ==
  ASSUME NEW buffer \in Seq(Byte), NEW data \in Seq(Byte), data # <<>>,
         data[1] = Start, \A j \in 2..Len(data) : data[j] # Start
  PROVE  Decode(buffer, data) = data
<1> DEFINE all == buffer \o data
           starts == {i \in DOMAIN all : all[i] = Start}
           first == Len(buffer) + 1
<1>1. /\ all \in Seq(Byte) /\ Len(all) = Len(buffer) + Len(data)
      /\ \A i \in 1..Len(data) : all[Len(buffer) + i] = data[i]
      /\ Len(data) \in Nat \ {0} /\ Len(buffer) \in Nat
      BY ConcatProperties, EmptySeq, LenProperties
<1> HIDE DEF all
<1>2. DOMAIN all = 1..Len(all)
      BY <1>1
<1>3. first \in starts
      BY <1>1, <1>2
<1>4. ASSUME NEW y \in starts
      PROVE  y <= first
  <2>0. y \in 1..Len(all) /\ all[y] = Start
        BY <1>2
  <2>1. SUFFICES ASSUME y > first
                 PROVE  FALSE
        BY <1>1, <2>0
  <2> DEFINE j == y - Len(buffer)
  <2>2. j \in 2..Len(data) /\ y = Len(buffer) + j
        BY <2>0, <2>1, <1>1
  <2> HIDE DEF j
  <2>3. all[y] = data[j]
        BY <2>2, <1>1
  <2> QED BY <2>0, <2>2, <2>3
<1>5. Max(starts) = first
  <2>1. starts \in SUBSET Nat
        BY <1>1, <1>2
  <2> HIDE DEF starts, first
  <2> QED BY <2>1, <1>3, <1>4, MaxIs
<1>6. Decode(buffer, data) = SubSeq(all, first, Len(all))
      BY <1>3, <1>5 DEF Decode, all
<1>7. /\ SubSeq(all, first, Len(all)) \in Seq(Byte)
      /\ Len(SubSeq(all, first, Len(all))) = Len(data)
      /\ \A i \in 1..Len(data) : SubSeq(all, first, Len(all))[i] = all[Len(buffer) + i]
  <2>1. \A i \in first..Len(all) : all[i] \in Byte
        BY <1>1
  <2>2. first \in Int /\ Len(all) \in Int /\ Len(all) - first + 1 = Len(data)
        BY <1>1
  <2>3. /\ SubSeq(all, first, Len(all)) \in Seq(Byte)
        /\ Len(SubSeq(all, first, Len(all))) =
             IF first <= Len(all) THEN Len(all) - first + 1 ELSE 0
        /\ \A i \in 1..(Len(all) - first + 1) :
             SubSeq(all, first, Len(all))[i] = all[first + i - 1]
        BY <2>1, <2>2, SubSeqProperties
  <2>4. \A i \in 1..Len(data) : first + i - 1 = Len(buffer) + i
        BY <1>1
  <2>5. \A i \in 1..Len(data) : SubSeq(all, first, Len(all))[i] = all[Len(buffer) + i]
        BY <2>2, <2>3, <2>4
  <2>6. first <= Len(all)
        BY <1>1
  <2> QED BY <2>2, <2>3, <2>5, <2>6
<1>8. \A i \in 1..Len(data) : SubSeq(all, first, Len(all))[i] = data[i]
      BY <1>1, <1>7
<1>9. SubSeq(all, first, Len(all)) = data
      BY <1>7, <1>8, SeqEqual
<1> QED BY <1>6, <1>9

(* Bytes without a start marker follow what the decoder holds, or are      *)
(* dropped if it holds nothing.                                            *)
LEMMA DecodeNext ==
  ASSUME NEW buffer \in Seq(Byte), NEW data \in Seq(Byte),
         buffer # <<>> => buffer[1] = Start,
         \A j \in 2..Len(buffer) : buffer[j] # Start,
         \A j \in 1..Len(data) : data[j] # Start
  PROVE  Decode(buffer, data) = IF buffer = <<>> THEN <<>> ELSE buffer \o data
<1> DEFINE all == buffer \o data
           starts == {i \in DOMAIN all : all[i] = Start}
<1>1. /\ all \in Seq(Byte) /\ Len(all) = Len(buffer) + Len(data)
      /\ \A i \in 1..Len(buffer) : all[i] = buffer[i]
      /\ \A i \in 1..Len(data) : all[Len(buffer) + i] = data[i]
      /\ Len(data) \in Nat /\ Len(buffer) \in Nat
      BY ConcatProperties, LenProperties
<1> HIDE DEF all
<1>2. DOMAIN all = 1..Len(all)
      BY <1>1
<1>3. ASSUME NEW y \in starts
      PROVE  y = 1 /\ buffer # <<>>
  <2>0. y \in 1..Len(all) /\ all[y] = Start
        BY <1>2
  <2>1. CASE y <= Len(buffer)
    <3>1. buffer[y] = Start /\ y \in 1..Len(buffer)
          BY <2>0, <2>1, <1>1
    <3> QED BY <3>1
  <2>2. CASE y > Len(buffer)
    <3> DEFINE j == y - Len(buffer)
    <3>1. j \in 1..Len(data) /\ y = Len(buffer) + j
          BY <2>0, <2>2, <1>1
    <3> HIDE DEF j
    <3>2. all[y] = data[j]
          BY <3>1, <1>1
    <3> QED BY <2>0, <3>1, <3>2
  <2> QED BY <2>0, <2>1, <2>2, <1>1
<1>4. CASE buffer = <<>>
  <2>1. starts = {}
        BY <1>3, <1>4
  <2> QED BY <1>4, <2>1 DEF Decode, all
<1>5. CASE buffer # <<>>
  <2>1. Len(buffer) \in Nat \ {0}
        BY <1>5, EmptySeq
  <2>2. 1 \in starts
        BY <1>1, <1>2, <1>5, <2>1
  <2>3. Max(starts) = 1
        BY <1>2, <1>3, <2>2, MaxIs
  <2>4. Decode(buffer, data) = SubSeq(all, 1, Len(all))
        BY <2>2, <2>3 DEF Decode, all
  <2> QED BY <1>1, <1>5, <2>4, SubSeqFull DEF all
<1> QED BY <1>4, <1>5

-----------------------------------------------------------------------------
(* Messages and their frames.                                              *)

LEMMA BytesUpToAre ==
  ASSUME NEW n \in Int
  PROVE  BytesUpTo(n) = {m \in Seq(Data) : Len(m) <= n}
<1>1. ASSUME NEW m \in BytesUpTo(n)
      PROVE  m \in Seq(Data) /\ Len(m) <= n
  <2>1. PICK i \in 0..n : m \in [1..i -> Data]
        BY DEF BytesUpTo
  <2> QED BY <2>1
<1>2. ASSUME NEW m \in Seq(Data), Len(m) <= n
      PROVE  m \in BytesUpTo(n)
  <2>1. Len(m) \in 0..n /\ m \in [1..Len(m) -> Data]
        BY <1>2, LenProperties
  <2> QED BY <2>1 DEF BytesUpTo
<1> QED BY <1>1, <1>2

LEMMA StaticMessages ==
  ASSUME Configured, ~Dynamic
  PROVE  Messages = {m \in Seq(Data) : Len(m) <= maxSize}
BY BytesUpToAre, SizesAssumption DEF Configured, Messages

LEMMA DynamicMessages ==
  ASSUME Configured, Dynamic
  PROVE  \A m : m \in Messages
                 <=> \E w \in Word, d \in Seq(Data) :
                       m = <<w>> \o d /\ Len(d) <= maxSize - WordSize
<1> DEFINE datas == BytesUpTo(maxSize - WordSize)
<1>1. maxSize - WordSize \in Int
      BY SizesAssumption DEF Configured
<1>2. datas = {d \in Seq(Data) : Len(d) <= maxSize - WordSize}
      BY <1>1, BytesUpToAre
<1>3. Messages = {<<w>> \o d : w \in Word, d \in datas}
      BY DEF Messages
<1> HIDE DEF datas
<1>4. \A m : m \in Messages <=> \E w \in Word, d \in datas : m = <<w>> \o d
      BY <1>3
<1> QED BY <1>2, <1>4

(* The word is one element before the data.                                *)
LEMMA WordAndData ==
  ASSUME NEW w, NEW d \in Seq(Data)
  PROVE  /\ <<w>> \o d # <<>> /\ Len(<<w>> \o d) = Len(d) + 1
         /\ Head(<<w>> \o d) = w /\ Tail(<<w>> \o d) = d
<1> DEFINE T == Data \cup {w}
           m == <<w>> \o d
<1>1. d \in Seq(T) /\ <<w>> \in Seq(T) /\ Len(<<w>>) = 1
      BY SeqMonotonic
<1>2. /\ m \in Seq(T) /\ Len(m) = Len(d) + 1
      /\ m[1] = w /\ \A i \in 1..Len(d) : m[i + 1] = d[i]
      BY <1>1, ConcatProperties
<1> HIDE DEF m
<1>3. Len(d) \in Nat
      OBVIOUS
<1>4. m # <<>>
      BY <1>2, <1>3
<1>5. /\ Tail(m) \in Seq(T) /\ Len(Tail(m)) = Len(d)
      /\ \A i \in 1..Len(d) : Tail(m)[i] = d[i]
  <2>1. /\ Tail(m) \in Seq(T) /\ Len(Tail(m)) = Len(m) - 1
        /\ \A i \in 1..Len(Tail(m)) : Tail(m)[i] = m[i + 1]
        BY <1>2, <1>4, HeadTailProperties
  <2> QED BY <2>1, <1>2, <1>3
<1>6. Tail(m) = d
      BY <1>1, <1>5, SeqEqual
<1>7. Head(m) = w
      BY <1>2, <1>4
<1> QED BY <1>2, <1>4, <1>6, <1>7 DEF m

LEMMA DynamicFrames ==
  ASSUME Dynamic, NEW w, NEW d \in Seq(Data)
  PROVE  Frames(<<w>> \o d) = <<[identifier |-> getCanIdAndType(w), data |-> d]>>
BY WordAndData DEF Frames

LEMMA StaticFrames ==
  ASSUME ~Dynamic, ~shouldUseEscaper, NEW m
  PROVE  Frames(m) = <<[identifier |-> StaticId, data |-> m]>>
<1>1. Frames(m) = [i \in DOMAIN <<m>> |-> [identifier |-> StaticId, data |-> <<m>>[i]]]
      BY DEF Frames
<1> QED BY <1>1

LEMMA EscapedFrames ==
  ASSUME shouldUseEscaper, NEW m \in Seq(Data)
  PROVE  /\ Frames(m) = [i \in 1..Len(Chunks(Encoded(m))) |->
                           [identifier |-> StaticId, data |-> Chunks(Encoded(m))[i]]]
         /\ Len(Frames(m)) = Len(Chunks(Encoded(m)))
         /\ Len(Frames(m)) \in Nat \ {0}
<1>1. Encoded(m) \in Seq(Byte) /\ Encoded(m) # <<>>
  <2>1. Encoded(m) \in Seq(Byte) /\ Len(Encoded(m)) = Len(m) + 2 /\ Len(m) \in Nat
        BY EncodedMessage
  <2> QED BY <2>1
<1>2. /\ Len(Chunks(Encoded(m))) \in Nat \ {0}
      /\ DOMAIN Chunks(Encoded(m)) = 1..Len(Chunks(Encoded(m)))
      BY <1>1, ChunksOf
<1>3. Frames(m) = [i \in DOMAIN Chunks(Encoded(m)) |->
                     [identifier |-> StaticId, data |-> Chunks(Encoded(m))[i]]]
      BY DEF Frames, shouldUseEscaper
<1> QED BY <1>2, <1>3

(* A word's identifier fits its type.                                      *)
LEMMA IdentifierFits ==
  ASSUME NEW w \in Word
  PROVE  /\ getCanIdAndType(w) \in Identifier
         /\ getCanIdAndType(w).idType = "standard"
              => getCanIdAndType(w).id < StandardIds
<1>1. w.value \in 0..(ExtendedIds - 1) /\ w.extended \in BOOLEAN
      BY DEF Word
<1>2. w.value % StandardIds \in 0..(StandardIds - 1)
      BY <1>1, IdsAssumption
<1>3. w.value % StandardIds \in 0..(ExtendedIds - 1)
      BY <1>2, IdsAssumption
<1> QED BY <1>1, <1>2, <1>3, IdsAssumption DEF getCanIdAndType, Identifier

(* Every message is at least one frame; only data in dynamic mode can be   *)
(* too long for its frame.                                                 *)
LEMMA FramesOf ==
  ASSUME Configured, NEW m \in Messages
  PROVE  /\ Frames(m) \in Seq(Frame) /\ Len(Frames(m)) \in Nat \ {0}
         /\ \A i \in 1..Len(Frames(m)) : Len(Frames(m)[i].data) > FrameSize
              => Dynamic /\ Size(m) > FrameSize + WordSize
         /\ Dynamic => Len(Frames(m)) = 1 /\ Frames(m)[1].data \in Seq(Data)
<1> USE SizesAssumption
<1>0. /\ StaticId \in Identifier /\ StaticId.idType # "standard"
      /\ Seq(Data) \subseteq Seq(Byte)
  <2>1. StaticId \in Identifier /\ StaticId.idType # "standard"
        BY IdsAssumption DEF StaticId, Identifier
  <2> QED BY <2>1, SeqMonotonic DEF Byte
<1>1. CASE Dynamic
  <2>1. PICK w \in Word, d \in Seq(Data) :
          m = <<w>> \o d /\ Len(d) <= maxSize - WordSize
        BY <1>1, DynamicMessages
  <2> DEFINE f == [identifier |-> getCanIdAndType(w), data |-> d]
  <2>2. Frames(m) = <<f>> /\ Len(m) = Len(d) + 1
        BY <1>1, <2>1, DynamicFrames, WordAndData
  <2>3. f \in Frame
        BY <1>0, IdentifierFits DEF Frame
  <2>4. Size(m) = Len(d) + WordSize
        BY <1>1, <2>2 DEF Size
  <2>5. f.data = d
        OBVIOUS
  <2> HIDE DEF f
  <2>6. Len(<<f>>) = 1 /\ <<f>>[1] = f /\ <<f>> \in Seq(Frame)
        BY <2>3
  <2> QED BY <1>1, <2>2, <2>4, <2>5, <2>6
<1>2. CASE ~Dynamic /\ ~shouldUseEscaper
  <2>1. m \in Seq(Data) /\ Len(m) <= FrameSize
        BY <1>2, StaticMessages DEF shouldUseEscaper, Configured
  <2> DEFINE f == [identifier |-> StaticId, data |-> m]
  <2>2. Frames(m) = <<f>>
        BY <1>2, StaticFrames
  <2>3. f \in Frame /\ f.data = m
        BY <1>0, <2>1 DEF Frame
  <2> HIDE DEF f
  <2>4. Len(<<f>>) = 1 /\ <<f>>[1] = f /\ <<f>> \in Seq(Frame)
        BY <2>3
  <2> QED BY <2>1, <2>2, <2>3, <2>4
<1>3. CASE shouldUseEscaper
  <2>1. m \in Seq(Data)
        BY <1>3, StaticMessages DEF shouldUseEscaper
  <2> DEFINE parts == Chunks(Encoded(m))
  <2>2. /\ Frames(m) = [i \in 1..Len(parts) |-> [identifier |-> StaticId, data |-> parts[i]]]
        /\ Len(Frames(m)) = Len(parts) /\ Len(parts) \in Nat \ {0}
        BY <1>3, <2>1, EscapedFrames
  <2>3. \A i \in 1..Len(parts) : parts[i] \in Seq(Byte) /\ Len(parts[i]) \in 1..FrameSize
        BY <2>1, EncodedMessage, ChunkBytes
  <2> HIDE DEF parts
  <2>4. ASSUME NEW i \in 1..Len(parts)
        PROVE  Frames(m)[i] \in Frame /\ ~(Len(Frames(m)[i].data) > FrameSize)
        BY <1>0, <2>2, <2>3 DEF Frame
  <2>5. Frames(m) \in Seq(Frame)
        BY <2>2, <2>4
  <2> QED BY <1>3, <2>2, <2>4, <2>5 DEF shouldUseEscaper
<1> QED BY <1>1, <1>2, <1>3

-----------------------------------------------------------------------------
(* The invariant.                                                          *)

(* What the decoder holds is the beginning of some message.                *)
Held(buffer) == /\ buffer \in Seq(Data \cup {Start})
                /\ buffer # <<>> => buffer[1] = Start
                /\ \A i \in 2..Len(buffer) : buffer[i] \in Data

(* What the other side may send back: anything, with losses, but in dynamic*)
(* mode always the contents of the frame received last.                    *)
Returned ==
  \/ received = <<>>
  \/ ~Dynamic /\ \E m \in Seq(Data) : received = <<m>>
  \/ /\ Dynamic
     /\ \E f \in Frame : /\ f.data \in Seq(Data)
                         /\ lastFrames = <<f>>
                         /\ received = <<Received(f)>>

(* Frames of the message that have been put on the bus.                    *)
Given == Len(Frames(message)) - Len(pending)

(* The first k frames have all been received.                              *)
Got(k) ==
  IF k = Len(Frames(message))
    THEN received = <<Normal(message)>>
    ELSE shouldUseEscaper /\ k > 0
           => decoded = SubSeq(Encoded(message), 1, k * FrameSize)

(* Where the frames of the message are.                                    *)
InFlight ==
  /\ pc = "idle" => pending = <<>> /\ bus = <<>>
  /\ pc # "idle" =>
       /\ message \in Messages
       /\ Given \in 0..Len(Frames(message))
       /\ pending = SubSeq(Frames(message), Given + 1, Len(Frames(message)))
       /\ bus = <<>> \/ (Given >= 1 /\ bus = <<Frames(message)[Given]>>)
       /\ pc = "sending" /\ intact => Got(Given - Len(bus))
  /\ pc = "fatal" => bus = <<>>

Going == /\ Configured
         /\ pc \in {"idle", "sending", "fatal"}
         /\ hops \in 0..MaxHops
         /\ Held(decoded)
         /\ Returned
         /\ InFlight
         /\ MessageArrives

(* A message without an identifier has stopped the program.                *)
Refused == /\ Configured
           /\ hops \in 0..MaxHops
           /\ pc = "fatal" /\ Dynamic /\ message = <<>>
           /\ pending = <<>> /\ bus = <<>>

IInv == Going \/ Refused

-----------------------------------------------------------------------------
(* Steps do not change the configuration, nor what depends on nothing else.*)
LEMMA ConfigurationKept ==
  ASSUME UNCHANGED configuration
  PROVE  /\ Dynamic' = Dynamic /\ shouldUseEscaper' = shouldUseEscaper
         /\ Configured' = Configured /\ Messages' = Messages
         /\ \A m : Frames(m)' = Frames(m) /\ Normal(m)' = Normal(m) /\ Size(m)' = Size(m)
         /\ \A f : Received(f)' = Received(f)
<1>1. kind' = kind /\ maxSize' = maxSize
      BY DEF configuration
<1>2. Dynamic' = Dynamic /\ shouldUseEscaper' = shouldUseEscaper
      BY <1>1 DEF Dynamic, shouldUseEscaper
<1>3. Configured' = Configured
      BY <1>1, <1>2 DEF Configured
<1>4. Messages' = Messages
      BY <1>1, <1>2 DEF Messages
<1>5. \A m : Frames(m)' = Frames(m) /\ Normal(m)' = Normal(m) /\ Size(m)' = Size(m)
      BY <1>1, <1>2 DEF Frames, Normal, Size
<1>6. \A f : Received(f)' = Received(f)
      BY <1>2 DEF Received
<1> QED BY <1>2, <1>3, <1>4, <1>5, <1>6

(* The bytes of a chunk: the start marker is in the first only, the stop   *)
(* marker at the end of the last.                                          *)
LEMMA ChunkMarkers ==
  ASSUME NEW m \in Seq(Data), NEW i \in 1..Len(Chunks(Encoded(m)))
  PROVE  LET chunk == Chunks(Encoded(m))[i]
             last == i = Len(Chunks(Encoded(m)))
         IN  /\ chunk \in Seq(Byte) /\ Len(chunk) \in Nat \ {0}
             /\ i = 1 => chunk[1] = Start
             /\ \A j \in 1..Len(chunk) :
                  \/ i = 1 /\ j = 1
                  \/ last /\ j = Len(chunk) /\ chunk[j] = Stop
                  \/ ~(last /\ j = Len(chunk)) /\ chunk[j] \in Data
<1> DEFINE E == Encoded(m)
           chunk == Chunks(E)[i]
           last == i = Len(Chunks(E))
<1>1. /\ E \in Seq(Byte) /\ Len(E) = Len(m) + 2 /\ Len(m) \in Nat /\ E # <<>>
      /\ E[1] = Start /\ E[Len(m) + 2] = Stop
      /\ \A j \in 2..(Len(m) + 1) : E[j] \in Data
  <2>1. /\ E \in Seq(Byte) /\ Len(E) = Len(m) + 2 /\ Len(m) \in Nat
        /\ E[1] = Start /\ E[Len(m) + 2] = Stop
        /\ \A j \in 2..(Len(m) + 1) : E[j] \in Data
        BY EncodedMessage
  <2> QED BY <2>1
<1> HIDE DEF E
<1>2. /\ Before(i) \in Nat /\ End(E, i) \in (Before(i) + 1)..Len(E)
      /\ last => End(E, i) = Len(E)
      /\ ~last => End(E, i) = i * FrameSize
      /\ chunk \in Seq(Byte) /\ Len(chunk) = End(E, i) - Before(i)
      /\ \A j \in 1..Len(chunk) : chunk[j] = E[Before(i) + j]
      BY <1>1, ChunksOf, ChunkBytes DEF E
<1>3. ~last => End(E, i) < Len(E)
  <2> SUFFICES ASSUME ~last
               PROVE  End(E, i) < Len(E)
      OBVIOUS
  <2>1. i + 1 \in 1..Len(Chunks(E)) /\ i \in Nat
        BY <1>1, ChunksOf DEF E
  <2>2. Before(i + 1) + 1 <= Len(E)
        BY <2>1, <1>1, ChunksOf DEF E
  <2>3. Before(i + 1) = i * FrameSize /\ i * FrameSize \in Nat
        BY <2>1, SizesAssumption DEF Before
  <2> QED BY <1>1, <1>2, <2>2, <2>3
<1>4. /\ i = 1 => Before(i) = 0
      /\ i # 1 => Before(i) >= 1
  <2>1. CASE i = 1
        BY <2>1, SizesAssumption DEF Before
  <2>2. CASE i # 1
    <3>1. i - 1 \in Nat \ {0}
          BY <2>2, <1>1, ChunksOf DEF E
    <3> QED BY <2>2, <3>1, SizesAssumption DEF Before
  <2> QED BY <2>1, <2>2
<1>5. ASSUME NEW j \in 1..Len(chunk)
      PROVE  \/ i = 1 /\ j = 1
             \/ last /\ j = Len(chunk) /\ chunk[j] = Stop
             \/ ~(last /\ j = Len(chunk)) /\ chunk[j] \in Data
  <2>1. chunk[j] = E[Before(i) + j] /\ Before(i) + j \in 1..Len(E)
        BY <1>2
  <2>2. CASE Before(i) + j = 1
        BY <2>2, <1>2, <1>4
  <2>3. CASE Before(i) + j = Len(E)
        BY <2>1, <2>3, <1>1, <1>2, <1>3
  <2>4. CASE Before(i) + j \in 2..(Len(m) + 1)
    <3>1. chunk[j] \in Data
          BY <2>1, <2>4, <1>1
    <3>2. ~(last /\ j = Len(chunk))
          BY <2>4, <1>1, <1>2
    <3> QED BY <3>1, <3>2
  <2> QED BY <2>1, <2>2, <2>3, <2>4, <1>1, <1>2
<1>6. i = 1 => chunk[1] = Start
      BY <1>1, <1>2, <1>4
<1>7. Len(chunk) \in Nat \ {0}
      BY <1>2
<1> QED BY <1>2, <1>5, <1>6, <1>7 DEF E

(* Chunks put together, from the first on, are the beginning of the        *)
(* encoded message.                                                        *)
LEMMA ChunksJoin ==
  ASSUME NEW s \in Seq(Byte), s # <<>>, NEW i \in 1..Len(Chunks(s)), i # 1
  PROVE  SubSeq(s, 1, Before(i)) \o Chunks(s)[i] = SubSeq(s, 1, End(s, i))
<1>1. /\ Before(i) \in Nat /\ End(s, i) \in (Before(i) + 1)..Len(s)
      /\ Chunks(s)[i] = SubSeq(s, Before(i) + 1, End(s, i))
      BY ChunksOf
<1>2. Len(s) \in Nat
      OBVIOUS
<1>3. Before(i) \in 0..Len(s) /\ End(s, i) \in Before(i)..Len(s)
      BY <1>1, <1>2
<1>4. ASSUME NEW b \in 0..Len(s), NEW e \in b..Len(s)
      PROVE  SubSeq(s, 1, b) \o SubSeq(s, b + 1, e) = SubSeq(s, 1, e)
  <2>1. 1 \in 1..(Len(s) + 1) /\ b \in (1 - 1)..Len(s)
        BY <1>2
  <2> QED BY <2>1, ConcatAdjacentSubSeq
<1> QED BY <1>1, <1>3, <1>4

LEMMA HeldBytes ==
  ASSUME NEW buffer, Held(buffer)
  PROVE  /\ buffer \in Seq(Byte)
         /\ buffer # <<>> => buffer[1] = Start /\ Len(buffer) \in Nat \ {0}
         /\ \A j \in 2..Len(buffer) : buffer[j] # Start
<1>1. Data \cup {Start} \subseteq Byte
      BY DEF Byte
<1>2. buffer \in Seq(Byte)
      BY <1>1, SeqMonotonic DEF Held
<1>3. \A d \in Data : d # Start
      BY SizesAssumption DEF Start
<1> QED BY <1>2, <1>3, EmptySeq DEF Held

(* What the decoder makes of the i-th frame of a message, whatever it held *)
(* before and whatever frames were lost.                                   *)
LEMMA ChunkDecoded ==
  ASSUME NEW m \in Seq(Data), NEW i \in 1..Len(Chunks(Encoded(m))),
         NEW buffer, Held(buffer)
  PROVE  LET chunk == Chunks(Encoded(m))[i]
             last == i = Len(Chunks(Encoded(m)))
             result == Decode(buffer, chunk)
         IN  /\ EndsMessage(chunk) <=> last
             /\ ~last => Held(result)
             /\ last /\ result # <<>> => Payload(result) \in Seq(Data)
             /\ i = 1 \/ buffer = SubSeq(Encoded(m), 1, Before(i))
                  => result = SubSeq(Encoded(m), 1, End(Encoded(m), i))
<1> DEFINE E == Encoded(m)
           chunk == Chunks(E)[i]
           last == i = Len(Chunks(E))
           result == Decode(buffer, chunk)
<1>1. /\ chunk \in Seq(Byte) /\ Len(chunk) \in Nat \ {0}
      /\ i = 1 => chunk[1] = Start
      /\ \A j \in 1..Len(chunk) :
           \/ i = 1 /\ j = 1
           \/ last /\ j = Len(chunk) /\ chunk[j] = Stop
           \/ ~(last /\ j = Len(chunk)) /\ chunk[j] \in Data
      BY ChunkMarkers
<1>2. /\ E \in Seq(Byte) /\ E # <<>> /\ Len(E) \in Nat
      /\ End(E, i) \in (Before(i) + 1)..Len(E) /\ chunk = SubSeq(E, Before(i) + 1, End(E, i))
      /\ last => End(E, i) = Len(E)
  <2>1. E \in Seq(Byte) /\ Len(E) = Len(m) + 2 /\ Len(m) \in Nat
        BY EncodedMessage
  <2>2. E # <<>>
        BY <2>1
  <2> QED BY <2>1, <2>2, ChunksOf
<1>3. /\ buffer \in Seq(Byte)
      /\ buffer # <<>> => buffer[1] = Start /\ Len(buffer) \in Nat \ {0}
      /\ \A j \in 2..Len(buffer) : buffer[j] # Start
      BY HeldBytes
<1>4. Start # Stop /\ \A d \in Data : d # Start /\ d # Stop
      BY SizesAssumption DEF Start, Stop
<1>8. last /\ i = 1 => Len(chunk) >= 2
  <2> SUFFICES ASSUME last, i = 1
               PROVE  Len(chunk) >= 2
      OBVIOUS
  <2>1. Len(chunk) = End(E, i) - Before(i)
        BY <1>2, ChunkBytes
  <2>2. Before(i) = 0
        BY SizesAssumption DEF Before
  <2>3. Len(E) >= 2
        BY EncodedMessage
  <2> QED BY <1>2, <2>1, <2>2, <2>3
<1> HIDE DEF E, chunk, last
<1>5. EndsMessage(chunk) <=> last
  <2>1. ASSUME last
        PROVE  EndsMessage(chunk)
    <3>1. Len(chunk) \in DOMAIN chunk /\ Len(chunk) \in 1..Len(chunk)
          BY <1>1
    <3>2. chunk[Len(chunk)] = Stop
          BY <1>1, <1>8, <2>1, <3>1
    <3> QED BY <3>1, <3>2 DEF EndsMessage
  <2>2. ASSUME EndsMessage(chunk)
        PROVE  last
    <3>1. PICK j \in 1..Len(chunk) : chunk[j] = Stop
          BY <1>1, <2>2 DEF EndsMessage
    <3> QED BY <1>1, <1>4, <3>1
  <2> QED BY <2>1, <2>2
<1>6. CASE i = 1
  <2>1. result = chunk
    <3>1. \A j \in 2..Len(chunk) : chunk[j] # Start
          BY <1>1, <1>4
    <3>2. chunk # <<>> /\ chunk[1] = Start
          BY <1>1, <1>6
    <3> QED BY <1>1, <1>3, <3>1, <3>2, DecodeFirst
  <2>2. chunk = SubSeq(E, 1, End(E, i))
        BY <1>2, <1>6, SizesAssumption DEF Before
  <2>3. ASSUME ~last
        PROVE  Held(chunk)
    <3>1. \A j \in 1..Len(chunk) : chunk[j] \in Data \cup {Start}
          BY <1>1, <1>6, <2>3
    <3>2. chunk \in Seq(Data \cup {Start})
          BY <1>1, <3>1
    <3>3. \A j \in 2..Len(chunk) : chunk[j] \in Data
          BY <1>1, <2>3
    <3> QED BY <1>1, <1>6, <3>2, <3>3 DEF Held
  <2>4. ASSUME last
        PROVE  Payload(chunk) \in Seq(Data)
    <3>1. \A j \in 2..(Len(chunk) - 1) : chunk[j] \in Data
          BY <1>1
    <3> QED BY <1>1, <3>1, SubSeqProperties DEF Payload
  <2> QED BY <1>5, <2>1, <2>2, <2>3, <2>4 DEF E, chunk, last
<1>7. CASE i # 1
  <2>1. result = IF buffer = <<>> THEN <<>> ELSE buffer \o chunk
    <3>1. \A j \in 1..Len(chunk) : chunk[j] # Start
          BY <1>1, <1>4, <1>7
    <3> QED BY <1>1, <1>3, <3>1, DecodeNext
  <2>2. ASSUME buffer # <<>>
        PROVE  /\ result \in Seq(Byte) /\ Len(result) = Len(buffer) + Len(chunk)
               /\ \A j \in 1..Len(buffer) : result[j] = buffer[j]
               /\ \A j \in 1..Len(chunk) : result[Len(buffer) + j] = chunk[j]
        BY <1>1, <1>3, <2>1, <2>2, ConcatProperties
  <2>3. ASSUME buffer # <<>>, NEW j \in 2..Len(result), last => j # Len(result)
        PROVE  result[j] \in Data
    <3>1. CASE j <= Len(buffer)
          BY <2>2, <2>3, <3>1, <1>3 DEF Held
    <3>2. CASE j > Len(buffer)
      <4> DEFINE k == j - Len(buffer)
      <4>1. k \in 1..Len(chunk) /\ j = Len(buffer) + k /\ (last => k # Len(chunk))
            BY <1>1, <1>3, <2>2, <2>3, <3>2
      <4> HIDE DEF k
      <4>2. result[j] = chunk[k]
            BY <2>2, <2>3, <4>1
      <4> QED BY <1>1, <1>7, <4>1, <4>2
    <3> QED BY <1>3, <2>2, <2>3, <3>1, <3>2
  <2>4. ASSUME ~last
        PROVE  Held(result)
    <3>1. CASE buffer = <<>>
          BY <2>1, <3>1 DEF Held
    <3>2. CASE buffer # <<>>
      <4>1. result[1] = Start /\ Len(result) \in Nat \ {0}
            BY <1>1, <1>3, <2>2, <3>2
      <4>2. \A j \in 2..Len(result) : result[j] \in Data
            BY <2>3, <2>4, <3>2
      <4>3. \A j \in 1..Len(result) : result[j] \in Data \cup {Start}
            BY <4>1, <4>2
      <4>4. result \in Seq(Data \cup {Start})
            BY <2>2, <3>2, <4>3
      <4> QED BY <4>1, <4>2, <4>4 DEF Held
    <3> QED BY <3>1, <3>2
  <2>5. ASSUME last, result # <<>>
        PROVE  Payload(result) \in Seq(Data)
    <3>1. buffer # <<>>
          BY <2>1, <2>5
    <3>2. Len(result) \in Nat
          BY <1>1, <1>3, <2>2, <3>1
    <3>3. \A j \in 2..(Len(result) - 1) : result[j] \in Data
          BY <2>3, <3>1, <3>2
    <3> HIDE DEF result
    <3> QED BY <3>2, <3>3, SubSeqProperties DEF Payload
  <2>6. ASSUME buffer = SubSeq(E, 1, Before(i))
        PROVE  result = SubSeq(E, 1, End(E, i))
    <3>1. buffer \o chunk = SubSeq(E, 1, End(E, i))
          BY <1>2, <1>7, <2>6, ChunksJoin DEF chunk, E
    <3>2. Before(i) \in Nat \ {0} /\ Before(i) <= Len(E)
      <4>1. i - 1 \in Nat \ {0} /\ Before(i) \in Nat
            BY <1>2, <1>7, ChunksOf DEF E
      <4>2. Before(i) # 0
            BY <4>1, SizesAssumption DEF Before
      <4> QED BY <1>2, <4>1, <4>2
    <3>3. Len(SubSeq(E, 1, Before(i))) = Before(i)
          BY <1>2, <3>2
    <3>4. buffer # <<>>
          BY <2>6, <3>2, <3>3
    <3> QED BY <2>1, <3>1, <3>4
  <2> HIDE DEF result
  <2> QED BY <1>5, <1>7, <2>4, <2>5, <2>6 DEF E, chunk, last, result
<1> QED BY <1>6, <1>7

-----------------------------------------------------------------------------
(* The invariant is inductive.                                             *)

LEMMA InitGoing == Init => Going
<1> SUFFICES ASSUME Init
             PROVE  Going
    OBVIOUS
<1>1. Configured /\ pc \in {"idle", "sending", "fatal"} /\ hops \in 0..MaxHops
      BY SizesAssumption DEF Init, Configured
<1>2. Held(decoded)
      BY DEF Init, Held
<1>3. Returned /\ InFlight /\ MessageArrives
      BY DEF Init, Returned, InFlight, MessageArrives
<1> QED BY <1>1, <1>2, <1>3 DEF Going

(* What is sent back is a message of the bus.                              *)
LEMMA BackIsMessage ==
  ASSUME Going, received # <<>>, Size(received[1]) <= maxSize
  PROVE  received[1] \in Messages
<1> USE DEF Going
<1>1. CASE Dynamic
  <2>1. PICK f \in Frame : f.data \in Seq(Data) /\ received = <<Received(f)>>
        BY <1>1 DEF Returned
  <2>2. received[1] = <<WordOf(f)>> \o f.data
        BY <1>1, <2>1 DEF Received
  <2>3. WordOf(f) \in Word
        BY DEF WordOf, Word, Frame, Identifier
  <2>4. Len(f.data) + WordSize <= maxSize
    <3>1. Len(received[1]) = Len(f.data) + 1 /\ Len(f.data) \in Nat
          BY <2>1, <2>2, WordAndData
    <3>2. Size(received[1]) = Len(f.data) + WordSize
          BY <1>1, <3>1, SizesAssumption DEF Size
    <3> QED BY <3>2
  <2>5. Len(f.data) <= maxSize - WordSize
        BY <1>1, <2>1, <2>4, SizesAssumption DEF Configured, MaxDynamicSize
  <2> QED BY <1>1, <2>1, <2>2, <2>3, <2>5, DynamicMessages
<1>2. CASE ~Dynamic
  <2>1. PICK m \in Seq(Data) : received = <<m>>
        BY <1>2 DEF Returned
  <2> QED BY <1>2, <2>1, StaticMessages DEF Size
<1> QED BY <1>1, <1>2

(* The identifier word is four bytes of the size.                          *)
LEMMA SizeOf ==
  ASSUME Configured, Dynamic
  PROVE  /\ Size(<<>>) < WordSize
         /\ \A m \in Messages : ~(Size(m) < WordSize)
<1>1. Size(<<>>) < WordSize
      BY SizesAssumption DEF Size
<1>2. ASSUME NEW m \in Messages
      PROVE  ~(Size(m) < WordSize)
  <2>1. PICK w \in Word, d \in Seq(Data) : m = <<w>> \o d
        BY DynamicMessages
  <2>2. Len(m) = Len(d) + 1 /\ Len(d) \in Nat
        BY <2>1, WordAndData
  <2> QED BY <2>2, SizesAssumption DEF Size
<1> QED BY <1>1, <1>2

LEMMA SendNext ==
  ASSUME Going, NEW m \in Messages, Send(m)
  PROVE  Going'
<1> USE DEF Going
<1>1. UNCHANGED configuration /\ message' = m /\ pending' = Frames(m) /\ pc' = "sending"
  <2>1. ~(Dynamic /\ Size(m) < WordSize)
        BY SizeOf
  <2> QED BY <2>1 DEF Send
<1>2. Frames(message)' = Frames(m) /\ Messages' = Messages /\ Configured'
      BY <1>1, ConfigurationKept
<1>3. bus = <<>> /\ UNCHANGED <<bus, decoded>> /\ received' = <<>>
      BY DEF Send, InFlight
<1>4. Frames(m) \in Seq(Frame) /\ Len(Frames(m)) \in Nat \ {0}
      BY FramesOf
<1>5. Given' = 0
      BY <1>1, <1>2, <1>4 DEF Given
<1>6. pending' = SubSeq(Frames(m), Given' + 1, Len(Frames(m)))
      BY <1>1, <1>4, <1>5, SubSeqFull
<1>7. Got(Given - Len(bus))'
  <2>1. Len(bus') = 0 /\ (Given - Len(bus))' = Given' - Len(bus')
        BY <1>3
  <2>2. (Given - Len(bus))' = 0
        BY <1>5, <2>1
  <2> QED BY <1>2, <1>4, <2>2 DEF Got
<1>8. InFlight'
      BY <1>1, <1>2, <1>3, <1>4, <1>5, <1>6, <1>7 DEF InFlight
<1>9. Held(decoded)' /\ Returned' /\ MessageArrives'
      BY <1>1, <1>3 DEF Held, Returned, MessageArrives
<1>10. hops' \in 0..MaxHops
      BY SizesAssumption DEF Send
<1> QED BY <1>1, <1>2, <1>8, <1>9, <1>10

(* The frame that is next.                                                 *)
LEMMA NextFrame ==
  ASSUME Going, pc = "sending", pending # <<>>
  PROVE  /\ Given + 1 \in 1..Len(Frames(message))
         /\ Head(pending) = Frames(message)[Given + 1]
         /\ Tail(pending) = SubSeq(Frames(message), Given + 2, Len(Frames(message)))
         /\ Len(Tail(pending)) = Len(pending) - 1
         /\ Len(pending) \in Nat
<1> DEFINE F == Frames(message)
<1>1. /\ F \in Seq(Frame) /\ Len(F) \in Nat \ {0} /\ Given \in 0..Len(F)
      /\ pending = SubSeq(F, Given + 1, Len(F))
      BY FramesOf DEF Going, InFlight
<1> HIDE DEF F
<1>2. Given # Len(F)
  <2> SUFFICES ASSUME Given = Len(F)
               PROVE  FALSE
      OBVIOUS
  <2>1. SubSeq(F, Given + 1, Len(F)) = <<>>
        BY <1>1, SubSeqEmpty
  <2> QED BY <1>1, <2>1
<1>3. Given + 1 \in 1..Len(F) /\ Len(F) \in (Given + 1)..Len(F) /\ Given + 1 + 1 = Given + 2
      BY <1>1, <1>2
<1>4. Head(pending) = F[Given + 1] /\ Tail(pending) = SubSeq(F, Given + 2, Len(F))
      BY <1>1, <1>3, HeadTailOfSubSeq
<1>5. pending \in Seq(Frame)
  <2>1. \A i \in (Given + 1)..Len(F) : F[i] \in Frame
        BY <1>1
  <2> QED BY <1>1, <2>1, SubSeqProperties
<1>6. Len(Tail(pending)) = Len(pending) - 1 /\ Len(pending) \in Nat
      BY <1>5, HeadTailProperties
<1> QED BY <1>3, <1>4, <1>6 DEF F

LEMMA SendFrameNext ==
  ASSUME Going, SendFrame
  PROVE  Going'
<1> USE DEF Going
<1> DEFINE F == Frames(message)
<1>1. /\ UNCHANGED <<configuration, message, lastFrames, intact, decoded, received, hops>>
      /\ pc = "sending" /\ pending # <<>> /\ bus = <<>>
      BY DEF SendFrame
<1>2. Frames(message)' = F /\ Messages' = Messages /\ Configured' /\ Dynamic' = Dynamic
      /\ shouldUseEscaper' = shouldUseEscaper
      /\ Normal(message)' = Normal(message) /\ Size(message)' = Size(message)
      BY <1>1, ConfigurationKept
<1>3. /\ F \in Seq(Frame) /\ Len(F) \in Nat \ {0} /\ Given \in 0..Len(F)
      /\ \A i \in 1..Len(F) : Len(F[i].data) > FrameSize
              => Dynamic /\ Size(message) > FrameSize + WordSize
      /\ message \in Messages
      BY <1>1, FramesOf DEF InFlight
<1>4. /\ Given + 1 \in 1..Len(F) /\ Head(pending) = F[Given + 1]
      /\ Tail(pending) = SubSeq(F, Given + 2, Len(F))
      /\ Len(Tail(pending)) = Len(pending) - 1 /\ Len(pending) \in Nat
      BY <1>1, NextFrame
<1>5. Held(decoded)'
      BY <1>1 DEF Held
<1>6. Returned'
      BY <1>1, ConfigurationKept DEF Returned
<1>7. intact => Got(Given)
      BY <1>1, <1>3 DEF InFlight
<1> HIDE DEF F
<1>8. CASE Len(Head(pending).data) <= FrameSize
  <2>1. bus' = <<F[Given + 1]>> /\ pending' = Tail(pending) /\ pc' = pc
        BY <1>4, <1>8 DEF SendFrame
  <2>2. Given' = Given + 1
    <3>1. Given = Len(F) - Len(pending) /\ Given' = Len(F) - Len(pending')
          BY <1>2 DEF Given, F
    <3>2. Len(pending') = Len(pending) - 1
          BY <1>4, <2>1
    <3> QED BY <1>3, <1>4, <3>1, <3>2
  <2>3. (Given - Len(bus))' = Given
        BY <1>3, <2>1, <2>2
  <2>4. intact' => Got(Given - Len(bus))'
        BY <1>1, <1>2, <1>7, <2>3 DEF Got, F
  <2>5. pending' = SubSeq(F, Given' + 1, Len(F))
    <3>1. Given' + 1 = Given + 2
          BY <1>3, <2>2
    <3> QED BY <1>4, <2>1, <3>1
  <2>6. InFlight'
        BY <1>1, <1>2, <1>3, <1>4, <2>1, <2>2, <2>4, <2>5 DEF InFlight, F
  <2>7. MessageArrives'
        BY <1>1, <2>1 DEF MessageArrives
  <2> QED BY <1>1, <1>2, <1>5, <1>6, <2>1, <2>6, <2>7
<1>9. CASE ~(Len(Head(pending).data) <= FrameSize)
  <2>1. pc' = "fatal" /\ UNCHANGED <<bus, pending>>
        BY <1>9 DEF SendFrame
  <2>2. Len(Head(pending).data) > FrameSize
    <3>1. F[Given + 1] \in Frame
          BY <1>3, <1>4
    <3>2. Len(Head(pending).data) \in Nat
          BY <1>4, <3>1 DEF Frame
    <3> QED BY <1>9, <3>2, SizesAssumption
  <2>3. Dynamic /\ Size(message) > FrameSize + WordSize
        BY <1>3, <1>4, <2>2
  <2>4. MessageArrives'
        BY <1>2, <2>1, <2>3 DEF MessageArrives
  <2>5. Given' = Given
        BY <1>2, <2>1 DEF Given, F
  <2>6. InFlight'
        BY <1>1, <1>2, <1>3, <2>1, <2>5 DEF InFlight, F
  <2> QED BY <1>1, <1>2, <1>5, <1>6, <2>1, <2>4, <2>6
<1> QED BY <1>8, <1>9

LEMMA SentNext ==
  ASSUME Going, Sent
  PROVE  Going'
<1> USE DEF Going
<1>1. /\ UNCHANGED <<configuration, message, pending, bus, lastFrames, intact,
                     decoded, received, hops>>
      /\ pc = "sending" /\ pending = <<>> /\ bus = <<>> /\ pc' = "idle"
      BY DEF Sent
<1>2. Configured' /\ Normal(message)' = Normal(message)
      BY <1>1, ConfigurationKept
<1>3. Held(decoded)' /\ Returned'
      BY <1>1, ConfigurationKept DEF Held, Returned
<1>4. InFlight'
      BY <1>1 DEF InFlight
<1>5. intact => received = <<Normal(message)>>
  <2>1. Len(Frames(message)) \in Nat
        BY <1>1, FramesOf DEF InFlight
  <2>2. Given - Len(bus) = Len(Frames(message))
        BY <1>1, <2>1 DEF Given
  <2>3. intact => Got(Given - Len(bus))
        BY <1>1 DEF InFlight
  <2> QED BY <2>2, <2>3 DEF Got
<1>6. MessageArrives'
      BY <1>1, <1>2, <1>5 DEF MessageArrives
<1> QED BY <1>1, <1>2, <1>3, <1>4, <1>6

LEMMA LoseNext ==
  ASSUME Going, Lose
  PROVE  Going'
<1> USE DEF Going
<1>1. /\ UNCHANGED <<configuration, pc, message, pending, lastFrames, decoded, received, hops>>
      /\ bus # <<>> /\ bus' = <<>> /\ ~intact'
      BY DEF Lose
<1>2. /\ Configured' /\ Messages' = Messages /\ Frames(message)' = Frames(message)
      /\ Dynamic' = Dynamic /\ Size(message)' = Size(message)
      BY <1>1, ConfigurationKept
<1>3. Held(decoded)' /\ Returned'
      BY <1>1, ConfigurationKept DEF Held, Returned
<1>4. pc = "sending"
      BY <1>1 DEF InFlight
<1>5. Given' = Given
      BY <1>1, <1>2 DEF Given
<1>6. InFlight'
      BY <1>1, <1>2, <1>4, <1>5 DEF InFlight
<1>7. MessageArrives'
      BY <1>1, <1>4 DEF MessageArrives
<1> QED BY <1>1, <1>2, <1>3, <1>6, <1>7

(* The message comes back from a frame as Normal says.                     *)
LEMMA ReceivedIsNormal ==
  ASSUME Configured, ~shouldUseEscaper, NEW m \in Messages
  PROVE  /\ Len(Frames(m)) = 1
         /\ Received(Frames(m)[1]) = Normal(m)
         /\ ~Dynamic => Received(Frames(m)[1]) \in Seq(Data)
<1>1. CASE Dynamic
  <2>1. PICK w \in Word, d \in Seq(Data) : m = <<w>> \o d
        BY <1>1, DynamicMessages
  <2> DEFINE f == [identifier |-> getCanIdAndType(w), data |-> d]
  <2>2. Frames(m) = <<f>> /\ Head(m) = w /\ Tail(m) = d
        BY <1>1, <2>1, DynamicFrames, WordAndData
  <2>3. Received(f) = <<WordOf(f)>> \o d
        BY <1>1 DEF Received
  <2>4. WordOf(f) = [unused |-> 0, extended |-> w.extended,
                     value |-> IF w.extended THEN w.value ELSE w.value % StandardIds]
    <3>1. w.extended \in BOOLEAN
          BY DEF Word
    <3> QED BY <3>1 DEF WordOf, getCanIdAndType
  <2> HIDE DEF f
  <2>5. Normal(m) = <<WordOf(f)>> \o d
        BY <1>1, <2>2, <2>4 DEF Normal
  <2>6. Len(<<f>>) = 1 /\ <<f>>[1] = f
        OBVIOUS
  <2> QED BY <1>1, <2>2, <2>3, <2>5, <2>6
<1>2. CASE ~Dynamic
  <2>1. Frames(m) = <<[identifier |-> StaticId, data |-> m]>> /\ m \in Seq(Data)
        BY <1>2, StaticFrames, StaticMessages
  <2> QED BY <1>2, <2>1 DEF Received, Normal
<1> QED BY <1>1, <1>2

(* A frame that carries a whole message.                                   *)
LEMMA PlainReceiveNext ==
  ASSUME Going, Receive, ~shouldUseEscaper
  PROVE  Going'
<1> USE DEF Going
<1> DEFINE f == Frames(message)[1]
<1>1. /\ UNCHANGED <<configuration, pc, message, pending, intact, hops, decoded>>
      /\ bus # <<>> /\ bus' = <<>> /\ lastFrames' = bus
      /\ received' = <<Received(bus[1])>>
      BY DEF Receive, Deliver
<1>2. /\ Configured' /\ Messages' = Messages /\ Frames(message)' = Frames(message)
      /\ Dynamic' = Dynamic /\ shouldUseEscaper' = shouldUseEscaper
      /\ Normal(message)' = Normal(message) /\ \A x : Received(x)' = Received(x)
      BY <1>1, ConfigurationKept
<1>3. pc = "sending" /\ message \in Messages
      BY <1>1 DEF InFlight
<1>4. /\ Len(Frames(message)) = 1 /\ Received(f) = Normal(message)
      /\ ~Dynamic => Received(f) \in Seq(Data)
      /\ f \in Frame /\ (Dynamic => f.data \in Seq(Data))
  <2>1. /\ Len(Frames(message)) = 1 /\ Received(f) = Normal(message)
        /\ ~Dynamic => Received(f) \in Seq(Data)
        BY <1>3, ReceivedIsNormal
  <2>2. Frames(message) \in Seq(Frame) /\ (Dynamic => f.data \in Seq(Data))
        BY <1>3, FramesOf
  <2>3. f \in Frame
    <3>1. 1 \in 1..Len(Frames(message))
          BY <2>1
    <3> QED BY <2>2, <3>1, ElementOfSeq
  <2> HIDE DEF f
  <2> QED BY <2>1, <2>2, <2>3
<1>5. Given = 1 /\ bus = <<f>>
      BY <1>1, <1>3, <1>4 DEF InFlight
<1> HIDE DEF f
<1>6. received' = <<Normal(message)>> /\ lastFrames' = <<f>> /\ received' = <<Received(f)>>
      BY <1>1, <1>4, <1>5
<1>7. Returned'
  <2>1. CASE Dynamic
        BY <1>2, <1>4, <1>6, <2>1 DEF Returned
  <2>2. CASE ~Dynamic
        BY <1>2, <1>4, <1>6, <2>2 DEF Returned
  <2> QED BY <2>1, <2>2
<1>8. Given' = Given
      BY <1>1, <1>2 DEF Given
<1>9. Got(Given - Len(bus))'
  <2>1. Len(bus') = 0 /\ (Given - Len(bus))' = Given' - Len(bus')
        BY <1>1
  <2>2. (Given - Len(bus))' = 1
        BY <1>5, <1>8, <2>1
  <2> QED BY <1>2, <1>4, <1>6, <2>2 DEF Got
<1>10. InFlight'
       BY <1>1, <1>2, <1>3, <1>8, <1>9 DEF InFlight
<1>11. Held(decoded)' /\ MessageArrives'
       BY <1>1, <1>3 DEF Held, MessageArrives
<1> QED BY <1>1, <1>2, <1>7, <1>10, <1>11

(* A frame that carries a chunk of a message.                              *)
LEMMA ChunkReceiveNext ==
  ASSUME Going, Receive, shouldUseEscaper
  PROVE  Going'
<1> USE DEF Going
<1> DEFINE E == Encoded(message)
           parts == Chunks(E)
           chunk == parts[Given]
           result == Decode(decoded, chunk)
           last == Given = Len(parts)
<1>1. /\ UNCHANGED <<configuration, pc, message, pending, intact, hops>>
      /\ bus # <<>> /\ bus' = <<>>
      BY DEF Receive
<1>2. /\ Configured' /\ Messages' = Messages /\ Frames(message)' = Frames(message)
      /\ Dynamic' = Dynamic /\ shouldUseEscaper' = shouldUseEscaper
      /\ Normal(message)' = Normal(message)
      BY <1>1, ConfigurationKept
<1>3. pc = "sending" /\ message \in Messages /\ ~Dynamic
      BY <1>1 DEF InFlight, shouldUseEscaper
<1>4. message \in Seq(Data) /\ Normal(message) = message
      BY <1>3, StaticMessages DEF Normal
<1>5. /\ Frames(message) = [i \in 1..Len(parts) |->
                              [identifier |-> StaticId, data |-> parts[i]]]
      /\ Len(Frames(message)) = Len(parts) /\ Len(parts) \in Nat \ {0}
      BY <1>4, EscapedFrames
<1>6. Given \in 1..Len(parts) /\ bus = <<Frames(message)[Given]>>
      BY <1>1, <1>3, <1>5 DEF InFlight
<1>7. bus[1].data = chunk
  <2> HIDE DEF parts
  <2> QED BY <1>5, <1>6
<1>8. LET ends == EndsMessage(chunk) /\ result # <<>>
      IN  /\ received' = IF ends THEN <<Payload(result)>> ELSE received
          /\ decoded' = IF ends THEN <<>> ELSE result
  <2> HIDE DEF chunk
  <2> QED BY <1>7 DEF Receive, Deliver
<1>9. /\ EndsMessage(chunk) <=> last
      /\ ~last => Held(result)
      /\ last /\ result # <<>> => Payload(result) \in Seq(Data)
      /\ Given = 1 \/ decoded = SubSeq(E, 1, Before(Given)) => result = SubSeq(E, 1, End(E, Given))
      BY <1>4, <1>6, ChunkDecoded
<1>10. /\ E \in Seq(Byte) /\ E # <<>> /\ Len(E) = Len(message) + 2
       /\ SubSeq(E, 1, Len(E)) = E /\ Payload(E) = message
       /\ End(E, Given) = IF last THEN Len(E) ELSE Given * FrameSize
  <2>1. /\ E \in Seq(Byte) /\ Len(E) = Len(message) + 2 /\ Len(message) \in Nat
        /\ \A i \in 2..(Len(message) + 1) : E[i] = message[i - 1] /\ E[i] \in Data
        BY <1>4, EncodedMessage
  <2>2. E # <<>>
        BY <2>1
  <2>3. End(E, Given) = IF last THEN Len(E) ELSE Given * FrameSize
        BY <1>6, <2>1, <2>2, ChunksOf
  <2> HIDE DEF E
  <2>4. /\ SubSeq(E, 2, Len(E) - 1) \in Seq(Data)
        /\ Len(SubSeq(E, 2, Len(E) - 1)) = Len(message)
        /\ \A i \in 1..Len(message) : SubSeq(E, 2, Len(E) - 1)[i] = E[i + 1]
    <3>1. \A i \in 2..(Len(E) - 1) : E[i] \in Data
          BY <2>1
    <3>2. Len(E) - 1 \in Int /\ Len(E) - 1 - 2 + 1 = Len(message)
          BY <2>1
    <3>3. /\ SubSeq(E, 2, Len(E) - 1) \in Seq(Data)
          /\ Len(SubSeq(E, 2, Len(E) - 1)) = IF 2 <= Len(E) - 1 THEN Len(E) - 1 - 2 + 1 ELSE 0
          /\ \A i \in 1..(Len(E) - 1 - 2 + 1) : SubSeq(E, 2, Len(E) - 1)[i] = E[2 + i - 1]
          BY <3>1, <3>2, SubSeqProperties
    <3> QED BY <2>1, <3>2, <3>3
  <2>5. \A i \in 1..Len(message) : SubSeq(E, 2, Len(E) - 1)[i] = message[i]
        BY <2>1, <2>4
  <2>6. Payload(E) = message
        BY <1>4, <2>4, <2>5, SeqEqual DEF Payload
  <2>7. SubSeq(E, 1, Len(E)) = E
        BY <2>1, SubSeqFull
  <2> QED BY <2>1, <2>2, <2>3, <2>6, <2>7 DEF E
<1>11. intact => Given = 1 \/ decoded = SubSeq(E, 1, Before(Given))
  <2> SUFFICES ASSUME intact, Given # 1
               PROVE  decoded = SubSeq(E, 1, Before(Given))
      OBVIOUS
  <2>1. Len(bus) = 1
        BY <1>6
  <2>2. Got(Given - 1)
        BY <1>3, <2>1 DEF InFlight
  <2>3. Given - 1 # Len(Frames(message)) /\ Given - 1 > 0
        BY <1>5, <1>6
  <2> QED BY <2>2, <2>3 DEF Got, Before
<1> HIDE DEF E, parts, chunk, result, last
<1>12. Held(decoded')
  <2>1. CASE last
    <3>1. decoded' = <<>>
          BY <1>8, <1>9, <2>1
    <3> QED BY <3>1 DEF Held
  <2>2. CASE ~last
        BY <1>8, <1>9, <2>2
  <2> QED BY <2>1, <2>2
<1>13. Returned'
  <2>1. CASE last /\ result # <<>>
    <3>1. received' = <<Payload(result)>> /\ Payload(result) \in Seq(Data)
          BY <1>8, <1>9, <2>1
    <3> QED BY <1>2, <1>3, <3>1 DEF Returned
  <2>2. CASE ~(last /\ result # <<>>)
    <3>1. received' = received
          BY <1>8, <1>9, <2>2
    <3> QED BY <1>2, <1>3, <3>1 DEF Returned
  <2> QED BY <2>1, <2>2
<1>14. Given' = Given /\ (Given - Len(bus))' = Given
  <2>1. Given' = Given
        BY <1>1, <1>2 DEF Given
  <2>2. Len(bus') = 0 /\ (Given - Len(bus))' = Given' - Len(bus')
        BY <1>1
  <2> QED BY <1>6, <2>1, <2>2
<1>15. intact => Got(Given - Len(bus))'
  <2> SUFFICES ASSUME intact
               PROVE  Got(Given - Len(bus))'
      OBVIOUS
  <2>1. result = SubSeq(E, 1, End(E, Given))
        BY <1>9, <1>11
  <2>2. CASE last
    <3>1. received' = <<message>>
          BY <1>8, <1>9, <1>10, <2>1, <2>2
    <3>2. Given = Len(Frames(message))
          BY <1>5, <2>2 DEF last
    <3> QED BY <1>2, <1>4, <1>14, <3>1, <3>2 DEF Got
  <2>3. CASE ~last
    <3>1. decoded' = SubSeq(Encoded(message), 1, Given * FrameSize)
          BY <1>8, <1>9, <1>10, <2>1, <2>3 DEF E
    <3>2. Given # Len(Frames(message))
          BY <1>5, <2>3 DEF last
    <3>3. Encoded(message)' = Encoded(message)
          BY <1>1 DEF Encoded
    <3> QED BY <1>2, <1>14, <3>1, <3>2, <3>3 DEF Got
  <2> QED BY <2>2, <2>3
<1>16. InFlight'
       BY <1>1, <1>2, <1>3, <1>14, <1>15 DEF InFlight
<1>17. Held(decoded)' /\ MessageArrives'
       BY <1>1, <1>3, <1>12 DEF Held, MessageArrives
<1> QED BY <1>1, <1>2, <1>13, <1>16, <1>17

LEMMA RefusedNext ==
  ASSUME Going, Dynamic, Send(<<>>)
  PROVE  Refused'
<1>1. /\ UNCHANGED configuration /\ message' = <<>> /\ pc' = "fatal" /\ pending' = <<>>
      BY SizeOf DEF Send, Going
<1>2. bus' = <<>>
      BY DEF Send, Going, InFlight
<1>3. hops' \in 0..MaxHops
      BY SizesAssumption DEF Send, Going
<1>4. Configured' /\ Dynamic'
      BY <1>1, ConfigurationKept DEF Going
<1> QED BY <1>1, <1>2, <1>3, <1>4 DEF Refused

LEMMA NextGoing == Going /\ [Next]_vars => IInv'
<1> SUFFICES ASSUME Going, [Next]_vars
             PROVE  IInv'
    OBVIOUS
<1> USE DEF IInv
<1>1. CASE SendNew
  <2>1. PICK m \in Messages \cup TooShort : Send(m)
        BY <1>1 DEF SendNew
  <2>2. CASE m \in Messages
        BY <2>1, <2>2, SendNext
  <2>3. CASE m \notin Messages
        BY <2>1, <2>3, RefusedNext DEF TooShort
  <2> QED BY <2>2, <2>3
<1>2. CASE SendBack
      BY <1>2, SendNext, BackIsMessage DEF SendBack
<1>3. CASE SendFrame
      BY <1>3, SendFrameNext
<1>4. CASE Sent
      BY <1>4, SentNext
<1>5. CASE Receive
      BY <1>5, PlainReceiveNext, ChunkReceiveNext
<1>6. CASE Lose
      BY <1>6, LoseNext
<1>7. CASE UNCHANGED vars
  <2>1. UNCHANGED <<configuration, pc, message, pending, bus, lastFrames, intact, decoded,
                    received, hops>>
        BY <1>7 DEF vars
  <2>2. /\ Configured' /\ Messages' = Messages /\ Frames(message)' = Frames(message)
        /\ Dynamic' = Dynamic /\ shouldUseEscaper' = shouldUseEscaper
        /\ Normal(message)' = Normal(message) /\ Size(message)' = Size(message)
        BY <2>1, ConfigurationKept DEF Going
  <2>3. Held(decoded)' /\ Returned'
        BY <2>1, ConfigurationKept DEF Going, Held, Returned
  <2>4. Given' = Given /\ Encoded(message)' = Encoded(message)
        BY <2>1, <2>2 DEF Given, Encoded
  <2>5. (Given - Len(bus))' = Given - Len(bus)
        BY <2>1, <2>4
  <2>6. Got(Given - Len(bus))' <=> Got(Given - Len(bus))
        BY <2>1, <2>2, <2>4, <2>5 DEF Got
  <2>7. InFlight' /\ MessageArrives'
        BY <2>1, <2>2, <2>4, <2>6 DEF Going, InFlight, MessageArrives
  <2> QED BY <2>1, <2>2, <2>3, <2>7 DEF Going
<1> QED BY <1>1, <1>2, <1>3, <1>4, <1>5, <1>6, <1>7 DEF Next

(* Nothing happens after that.                                             *)
LEMMA NextRefused == Refused /\ [Next]_vars => Refused'
<1> SUFFICES ASSUME Refused, [Next]_vars
             PROVE  Refused'
    OBVIOUS
<1>1. UNCHANGED vars
      BY DEF Refused, Next, SendNew, SendBack, Send, SendFrame, Sent, Receive, Lose
<1>2. Configured' /\ Dynamic'
      BY <1>1, ConfigurationKept DEF Refused, vars
<1> QED BY <1>1, <1>2 DEF Refused, vars

LEMMA SpecIInv == Spec => []IInv
<1>1. Init => IInv
      BY InitGoing DEF IInv
<1>2. IInv /\ [Next]_vars => IInv'
      BY NextGoing, NextRefused DEF IInv
<1> QED BY <1>1, <1>2, PTL DEF Spec

-----------------------------------------------------------------------------
(* Types; a standard identifier on the bus fits its eleven bits.           *)
THEOREM TypeCorrect == Spec => []TypeOK
<1>1. IInv => TypeOK
  <2> SUFFICES ASSUME IInv
               PROVE  TypeOK
      OBVIOUS
  <2>1. ASSUME NEW i \in DOMAIN bus
        PROVE  bus[i] \in Frame
    <3>1. bus # <<>>
          BY <2>1
    <3>2. /\ pc # "idle" /\ message \in Messages /\ Given \in 1..Len(Frames(message))
          /\ bus = <<Frames(message)[Given]>>
          BY <3>1 DEF IInv, Going, Refused, InFlight
    <3>3. Frames(message)[Given] \in Frame
          BY <3>2, FramesOf DEF IInv, Going, Refused
    <3> QED BY <2>1, <3>2, <3>3
  <2> QED BY <2>1 DEF IInv, Going, Refused, TypeOK, Configured, Frame
<1> QED BY <1>1, SpecIInv, PTL

(* A message none of whose frames is lost arrives whole, behind the same   *)
(* identifier, whatever was cut off before it; the length assertions fail  *)
(* only in dynamic mode, for a message without an identifier or with more  *)
(* data than a frame holds.                                                *)
THEOREM MessagesArrive == Spec => []MessageArrives
<1>1. Refused => MessageArrives
      BY SizeOf DEF Refused, MessageArrives
<1>2. IInv => MessageArrives
      BY <1>1 DEF IInv, Going
<1> QED BY <1>2, SpecIInv, PTL

(* In dynamic mode, what is sent back goes in the frame it came in: the    *)
(* word built from a received frame yields identifier and type again.      *)
THEOREM EchoesKeepFrames == Spec => EchoKeepsFrame
<1>1. IInv /\ [Next]_vars => [SendBack /\ Dynamic => pending' = lastFrames]_vars
  <2> SUFFICES ASSUME IInv, SendBack, Dynamic
               PROVE  pending' = lastFrames
      OBVIOUS
  <2>1. received # <<>> /\ Going
        BY DEF SendBack, Send, IInv, Refused
  <2>p. pending' = Frames(received[1])
    <3>1. received[1] \in Messages
          BY <2>1, BackIsMessage DEF SendBack
    <3>2. ~(Size(received[1]) < WordSize)
          BY <2>1, <3>1, SizeOf DEF Going
    <3> QED BY <3>2 DEF SendBack, Send
  <2>2. PICK f \in Frame : /\ f.data \in Seq(Data) /\ lastFrames = <<f>>
                           /\ received = <<Received(f)>>
        BY <2>1 DEF Going, Returned
  <2>3. received[1] = <<WordOf(f)>> \o f.data
        BY <2>2 DEF Received
  <2>4. Frames(received[1])
          = <<[identifier |-> getCanIdAndType(WordOf(f)), data |-> f.data]>>
        BY <2>2, <2>3, DynamicFrames
  <2>5. getCanIdAndType(WordOf(f)) = f.identifier
    <3>1. /\ f.identifier.idType \in {"standard", "extended"} /\ f.identifier.id \in Nat
          /\ f.identifier = [idType |-> f.identifier.idType, id |-> f.identifier.id]
          /\ f.identifier.idType = "standard" => f.identifier.id < StandardIds
          BY DEF Frame, Identifier
    <3>2. f.identifier.idType = "standard" => f.identifier.id % StandardIds = f.identifier.id
          BY <3>1, IdsAssumption
    <3> QED BY <3>1, <3>2 DEF getCanIdAndType, WordOf
  <2>6. f = [identifier |-> f.identifier, data |-> f.data]
        BY DEF Frame
  <2> QED BY <2>p, <2>2, <2>4, <2>5, <2>6
<1> QED BY <1>1, SpecIInv, PTL DEF Spec, EchoKeepsFrame

(* The sanity check of SamRH71RtemsCanInit is one byte too wide, and no    *)
(* more: the assertions on the length stop the program only in dynamic     *)
(* mode, for a message that is too short for an identifier, or for one of  *)
(* the largest size under the largest limit the check accepts.             *)
THEOREM OnlyLargestIsNotSent ==
  Spec => [](pc = "fatal" =>
               /\ Dynamic
               /\ \/ Size(message) < WordSize
                  \/ maxSize = MaxDynamicSize /\ Size(message) = maxSize)
<1>1. IInv => (pc = "fatal" =>
                 /\ Dynamic
                 /\ \/ Size(message) < WordSize
                    \/ maxSize = MaxDynamicSize /\ Size(message) = maxSize)
  <2> SUFFICES ASSUME IInv, pc = "fatal"
               PROVE  /\ Dynamic
                      /\ \/ Size(message) < WordSize
                         \/ maxSize = MaxDynamicSize /\ Size(message) = maxSize
      OBVIOUS
  <2>1. CASE Refused
        BY <2>1, SizeOf DEF Refused
  <2>2. CASE Going
    <3>1. /\ Dynamic /\ message \in Messages /\ Configured
          /\ \/ Size(message) < WordSize
             \/ Size(message) > FrameSize + WordSize
          BY <2>2 DEF Going, InFlight, MessageArrives
    <3>2. PICK w \in Word, d \in Seq(Data) :
            message = <<w>> \o d /\ Len(d) <= maxSize - WordSize
          BY <3>1, DynamicMessages
    <3>3. Size(message) = Len(d) + WordSize /\ Len(d) \in Nat
          BY <3>1, <3>2, WordAndData, SizesAssumption DEF Size
    <3>4. maxSize \in Nat /\ maxSize <= MaxDynamicSize
          BY <3>1, SizesAssumption DEF Configured
    <3>5. Size(message) <= maxSize /\ Size(message) \in Nat
          BY <3>2, <3>3, <3>4, SizesAssumption
    <3>6. Size(message) > FrameSize + WordSize => Size(message) = maxSize /\ maxSize = MaxDynamicSize
          BY <3>4, <3>5, SizesAssumption DEF MaxDynamicSize
    <3> QED BY <3>1, <3>6
  <2> QED BY <2>1, <2>2 DEF IInv
<1> QED BY <1>1, SpecIInv, PTL
=============================================================================
