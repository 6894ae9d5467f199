--------------------------- MODULE SerialTx_proofs ---------------------------
(***************************************************************************)
(* Proofs about SerialTx, for any number and length of messages and any    *)
(* size of the encoded packet buffer.                                      *)
(***************************************************************************)
EXTENDS SerialTx, TLAPS

(* Where the caller is says how much of the message has been encoded, and  *)
(* only the two blocking steps write without the interrupt.                *)
Stages ==
  /\ raw => index = 0 /\ pc # "encode"
  /\ raw /\ pc # "idle" => size = length
  /\ ~raw /\ pc \in {"write", "wait", "start"} => size <= index
  /\ ~raw /\ pc = "idle" => index = length
  /\ pc # "idle" => message >= 1
  /\ pc \notin {"write", "fatal"} => written = 0
  /\ pc \in {"write", "fatal"} => blocking
  /\ pc \in {"wait", "start"} => ~blocking
  /\ blocking => txFifo = Stopped
  /\ txFifo.next <= txFifo.count + 1
  /\ txFifo.from = None => txFifo = Stopped
  /\ txFifo.from = Encoded => txFifo.count <= EncodedSize
  /\ ~raw => size <= EncodedSize

IInv == TypeOK /\ Stages /\ SemaphoreTracksFifo

-----------------------------------------------------------------------------
LEMMA InitIInv == Init => IInv
<1> SUFFICES ASSUME Init
             PROVE  IInv
    OBVIOUS
<1> USE BoundsAssumption DEF Init
<1>1. /\ sent \in Seq([message : 1..MaxMessages, byte : 1..MaxLength])
      /\ wire \in Seq([message : 0..MaxMessages, byte : 0..MaxLength])
      OBVIOUS
<1>2. encoded \in [1..EncodedSize -> [message : 0..MaxMessages, byte : 0..MaxLength]]
      BY DEF NoByte, Byte
<1>3. txFifo \in [from : 0..None, next : 1..(MaxLength + 1), count : 0..MaxLength]
      BY DEF Stopped, None
<1>4. TypeOK
      BY <1>1, <1>2, <1>3 DEF TypeOK
<1>5. Stages /\ SemaphoreTracksFifo
      BY DEF Stages, SemaphoreTracksFifo, Stopped, None, Encoded
<1> QED BY <1>4, <1>5 DEF IInv

(* What a step of the sending task may do to the fields it shares.         *)
LEMMA ByteTypes ==
  ASSUME TypeOK
  PROVE  /\ \A i \in 1..EncodedSize :
              encoded[i] \in [message : 0..MaxMessages, byte : 0..MaxLength]
         /\ \A m \in 0..MaxMessages, i \in 0..MaxLength :
              Byte(m, i) \in [message : 0..MaxMessages, byte : 0..MaxLength]
BY DEF TypeOK, Byte

(* What is written next, by the caller or by the interrupt, is a byte.     *)
LEMMA WrittenIsByte ==
  ASSUME TypeOK, Stages, pc = "write", written < size
  PROVE  Memory(Source, written + 1) \in [message : 0..MaxMessages, byte : 0..MaxLength]
<1>1. written + 1 \in 1..MaxLength /\ size \in Nat /\ written + 1 <= size
      BY BoundsAssumption DEF TypeOK
<1>2. CASE raw
  <2>1. Source = message /\ message \in 1..MaxMessages
        BY <1>2 DEF Source, Stages, TypeOK
  <2>2. Memory(Source, written + 1) = Byte(message, written + 1)
        BY <2>1 DEF Memory, Encoded
  <2> QED BY <2>1, <2>2, <1>1, ByteTypes
<1>3. CASE ~raw
  <2>1. written + 1 \in 1..EncodedSize
        BY <1>1, <1>3, BoundsAssumption DEF Stages, TypeOK
  <2>2. Memory(Source, written + 1) = encoded[written + 1]
        BY <1>3 DEF Memory, Source
  <2> QED BY <2>1, <2>2, ByteTypes
<1> QED BY <1>2, <1>3

LEMMA FifoHoldsBytes ==
  ASSUME TypeOK, Stages, txFifo.next <= txFifo.count
  PROVE  Memory(txFifo.from, txFifo.next)
           \in [message : 0..MaxMessages, byte : 0..MaxLength]
<1>1. txFifo \in [from : 0..None, next : 1..(MaxLength + 1), count : 0..MaxLength]
      BY DEF TypeOK
<1>2. txFifo.from \in 0..MaxMessages
  <2>1. txFifo # Stopped
        BY DEF Stopped
  <2>2. txFifo.from # None
        BY <2>1 DEF Stages
  <2> QED BY <1>1, <2>2, BoundsAssumption DEF None
<1>3. CASE txFifo.from = Encoded
  <2>1. txFifo.next \in 1..EncodedSize
        BY <1>1, <1>3, BoundsAssumption DEF Stages
  <2>2. Memory(txFifo.from, txFifo.next) = encoded[txFifo.next]
        BY <1>3 DEF Memory
  <2> QED BY <2>1, <2>2, ByteTypes
<1>4. CASE txFifo.from # Encoded
  <2>1. txFifo.next \in 0..MaxLength
        BY <1>1, BoundsAssumption
  <2>2. Memory(txFifo.from, txFifo.next) = Byte(txFifo.from, txFifo.next)
        BY <1>4 DEF Memory
  <2> QED BY <2>1, <2>2, <1>2, ByteTypes
<1> QED BY <1>3, <1>4

LEMMA AppendToWire ==
  ASSUME TypeOK, NEW b \in [message : 0..MaxMessages, byte : 0..MaxLength],
         wire' = Append(wire, b)
  PROVE  /\ wire' \in Seq([message : 0..MaxMessages, byte : 0..MaxLength])
         /\ Len(wire') = Len(wire) + 1
         /\ wire'[Len(wire) + 1] = b
         /\ \A i \in 1..Len(wire) : wire'[i] = wire[i]
         /\ DOMAIN wire' = 1..(Len(wire) + 1)
<1>1. wire \in Seq([message : 0..MaxMessages, byte : 0..MaxLength])
      BY DEF TypeOK
<1> QED BY <1>1

(* The bytes of a message have their type.                                 *)
LEMMA MessageIsSequence ==
  ASSUME NEW m \in 1..MaxMessages, NEW n \in 0..MaxLength
  PROVE  /\ [i \in 1..n |-> Byte(m, i)] \in
              Seq([message : 1..MaxMessages, byte : 1..MaxLength])
         /\ Len([i \in 1..n |-> Byte(m, i)]) = n
BY BoundsAssumption DEF Byte

(* No length is cut when it is passed on as a uint16_t.                    *)
LEMMA LengthKept == \A n \in 0..MaxLength : uint16(n) = n
BY BoundsAssumption, LengthAssumption DEF uint16

LEMMA NextIInv == IInv /\ [Next]_vars => IInv'
<1> SUFFICES ASSUME IInv, [Next]_vars
             PROVE  IInv'
    OBVIOUS
<1> USE BoundsAssumption DEF IInv, callVars, raw, blocking, WriteStep, AfterWrite
<1>1. ASSUME NEW n \in 0..MaxLength, Send(n)
      PROVE  IInv'
  <2> USE <1>1 DEF Send
  <2>1. message + 1 \in 1..MaxMessages
        BY DEF TypeOK
  <2>u. uint16(n) = n
        BY LengthKept
  <2>2. sent' \in Seq([message : 1..MaxMessages, byte : 1..MaxLength])
    <3>1. [i \in 1..n |-> Byte(message + 1, i)] \in
              Seq([message : 1..MaxMessages, byte : 1..MaxLength])
          BY <2>1, MessageIsSequence
    <3> HIDE DEF IInv
    <3>2. sent \in Seq([message : 1..MaxMessages, byte : 1..MaxLength])
          BY DEF IInv, TypeOK
    <3> QED BY <3>1, <3>2
  <2>3. written = 0
        BY DEF Stages
  <2>4. TypeOK'
    <3>1. pc' \in {"idle", "encode", "write", "wait", "start"}
          OBVIOUS
    <3>2. size' \in 0..MaxLength /\ written' \in 0..size' /\ length' \in 0..MaxLength
          BY <2>3, <2>u
    <3> QED BY <2>1, <2>2, <3>1, <3>2, SMTT(20) DEF TypeOK
  <2>5. Stages'
    <3>1. /\ pc = "idle" /\ written' = 0 /\ message' = message + 1 /\ length' = n
          /\ index' = 0 /\ size' = IF raw THEN n ELSE 0
          /\ pc' = IF raw THEN WriteStep ELSE "encode"
          /\ UNCHANGED <<configuration, txFifo>>
          BY <2>3, <2>u
    <3>2. message' >= 1
          BY <2>1, <3>1
    <3> HIDE <1>1 DEF Send
    <3> QED BY <3>1, <3>2 DEF Stages
  <2>6. SemaphoreTracksFifo'
        BY DEF SemaphoreTracksFifo
  <2> QED BY <2>4, <2>5, <2>6
<1>2. CASE Encode
  <2> USE <1>2 DEF Encode
  <2>1. /\ index \in Nat /\ length \in Nat /\ index < length /\ length <= MaxLength
        /\ message \in 1..MaxMessages
        BY DEF TypeOK, Stages
  <2>2. /\ Piece \in 1..EncodedSize /\ index + Piece <= length
        BY <2>1 DEF Piece
  <2>3. encoded' \in [1..EncodedSize -> [message : 0..MaxMessages, byte : 0..MaxLength]]
    <3>1. \A i \in 1..EncodedSize : i <= Piece
            => Byte(message, index + i) \in [message : 0..MaxMessages, byte : 0..MaxLength]
          BY <2>1, <2>2 DEF Byte
    <3>2. \A i \in 1..EncodedSize :
              encoded[i] \in [message : 0..MaxMessages, byte : 0..MaxLength]
          BY ByteTypes
    <3> QED BY <3>1, <3>2
  <2>4. TypeOK'
    <3>1. pc' \in {"write", "wait"}
          OBVIOUS
    <3>2. /\ size' \in 0..MaxLength /\ index' \in 0..length'
          BY <2>1, <2>2
    <3>3. written' \in 0..size'
          BY <3>2 DEF Stages
    <3> QED BY <2>3, <3>1, <3>2, <3>3 DEF TypeOK
  <2>5. Stages'
        BY <2>1, <2>2 DEF Stages
  <2>6. SemaphoreTracksFifo'
        BY DEF SemaphoreTracksFifo
  <2> QED BY <2>4, <2>5, <2>6
<1>3. CASE WriteByte
  <2> USE <1>3 DEF WriteByte
  <2>1. wire' \in Seq([message : 0..MaxMessages, byte : 0..MaxLength])
        BY WrittenIsByte, AppendToWire
  <2>2. TypeOK'
        BY <2>1 DEF TypeOK
  <2>3. Stages' /\ SemaphoreTracksFifo'
        BY DEF Stages, SemaphoreTracksFifo
  <2> QED BY <2>2, <2>3
<1>4. CASE WriteDone
  <2> USE <1>4 DEF WriteDone
  <2>1. TypeOK'
        BY DEF TypeOK
  <2>2. Stages' /\ SemaphoreTracksFifo'
        BY DEF Stages, SemaphoreTracksFifo
  <2> QED BY <2>1, <2>2
<1>5. CASE Wait
  <2> USE <1>5 DEF Wait
  <2>1. TypeOK' /\ Stages'
        BY DEF TypeOK, Stages
  <2>2. SemaphoreTracksFifo'
        BY DEF SemaphoreTracksFifo
  <2> QED BY <2>1, <2>2
<1>6. CASE Start
  <2> USE <1>6 DEF Start
  <2>1. Source \in 0..MaxMessages /\ size \in 0..MaxLength /\ Source < None
        BY DEF Source, TypeOK, Encoded, None
  <2>2. txFifo' = [from |-> Source, next |-> 1, count |-> size] /\ txFifo' # Stopped
        BY <2>1 DEF Stopped, None
  <2>3. TypeOK'
    <3>1. txFifo' \in [from : 0..None, next : 1..(MaxLength + 1), count : 0..MaxLength]
          BY <2>1, <2>2 DEF None
    <3>2. pc' \in {"idle", "encode"}
          OBVIOUS
    <3> QED BY <3>1, <3>2 DEF TypeOK
  <2>4. Stages'
    <3>1. raw => Source # Encoded
          BY DEF Source, Stages, TypeOK, Encoded
    <3>2. /\ txFifo'.next = 1 /\ txFifo'.count = size /\ txFifo'.from = Source
          /\ size \in Nat /\ Source # None
          BY <2>1, <2>2 DEF None
    <3>3. /\ txFifo'.next <= txFifo'.count + 1
          /\ txFifo'.from = None => txFifo' = Stopped
          /\ txFifo'.from = Encoded => txFifo'.count <= EncodedSize
          BY <3>1, <3>2 DEF Stages
    <3>4. /\ pc' = IF raw THEN "idle" ELSE "encode"
          /\ ~blocking
          BY DEF Stages
    <3> QED BY <3>3, <3>4 DEF Stages
  <2>5. SemaphoreTracksFifo'
        BY <2>2 DEF SemaphoreTracksFifo
  <2> QED BY <2>3, <2>4, <2>5
<1>7. CASE TransmitByte
  <2> USE <1>7 DEF TransmitByte
  <2>1. /\ txFifo \in [from : 0..None, next : 1..(MaxLength + 1), count : 0..MaxLength]
        /\ txFifo.next <= txFifo.count
        BY DEF TypeOK
  <2>2. txFifo # Stopped /\ txFifo.from # None /\ txFifo.from \in 0..MaxMessages
        BY <2>1 DEF Stages, Stopped, None
  <2>3. /\ txFifo'.from = txFifo.from /\ txFifo'.next = txFifo.next + 1
        /\ txFifo'.count = txFifo.count
        /\ txFifo' \in [from : 0..None, next : 1..(MaxLength + 1), count : 0..MaxLength]
        BY <2>1
  <2>4. wire' \in Seq([message : 0..MaxMessages, byte : 0..MaxLength])
        BY <2>1, FifoHoldsBytes, AppendToWire
  <2>5. TypeOK'
        BY <2>3, <2>4 DEF TypeOK
  <2>6. Stages'
        BY <2>1, <2>2, <2>3 DEF Stages
  <2>7. SemaphoreTracksFifo'
        BY <2>2, <2>3 DEF SemaphoreTracksFifo, Stopped
  <2> QED BY <2>5, <2>6, <2>7
<1>8. CASE TxCallback
  <2> USE <1>8 DEF TxCallback, Callback
  <2>1. TypeOK'
    <3>1. txFifo' \in [from : 0..None, next : 1..(MaxLength + 1), count : 0..MaxLength]
          BY DEF Stopped, None
    <3> QED BY <3>1 DEF TypeOK
  <2>2. Stages'
        BY DEF Stages, Stopped, None, Encoded
  <2>3. SemaphoreTracksFifo'
        BY DEF SemaphoreTracksFifo, Stopped
  <2> QED BY <2>1, <2>2, <2>3
<1>9. CASE EncodeDone
      BY <1>9 DEF EncodeDone, TypeOK, Stages, SemaphoreTracksFifo
<1>10. CASE WriteTimesOut
  <2> USE <1>10 DEF WriteTimesOut
  <2>1. pc' \in {"write", "fatal"} /\ written' \in 0..size
        BY DEF TypeOK
  <2>2. TypeOK'
        BY <2>1 DEF TypeOK
  <2>3. Stages' /\ SemaphoreTracksFifo'
        BY <2>1 DEF Stages, SemaphoreTracksFifo
  <2> QED BY <2>2, <2>3
<1>11. CASE UNCHANGED vars
       BY <1>11 DEF vars, TypeOK, Stages, SemaphoreTracksFifo
<1> QED BY <1>1, <1>2, <1>3, <1>4, <1>5, <1>6, <1>7, <1>8, <1>9, <1>10, <1>11
        DEF Next, Caller, Uart

LEMMA SpecIInv == Spec => []IInv
BY InitIInv, NextIInv, PTL DEF Spec

-----------------------------------------------------------------------------
(* Results.                                                                *)

(* Fields keep their types, in all four configurations.                    *)
THEOREM TypeCorrect == Spec => []TypeOK
<1>1. IInv => TypeOK
      BY DEF IInv
<1> QED BY <1>1, SpecIInv, PTL

(* No transmission is cut off by the next one and no release of the        *)
(* semaphore is lost or left over, in all four configurations.             *)
THEOREM SemaphoreIsExact == Spec => []SemaphoreTracksFifo
<1>1. IInv => SemaphoreTracksFifo
      BY DEF IInv
<1> QED BY <1>1, SpecIInv, PTL

-----------------------------------------------------------------------------
(* Every byte that was to be sent has left, lies in the FIFO, in the buffer*)
(* the caller is about to write, or is still to be encoded, in this order. *)
Outstanding == txFifo.count + 1 - txFifo.next
Unwritten == IF pc \in {"write", "wait", "start", "fatal"} THEN size - written ELSE 0
Unencoded == IF raw THEN 0 ELSE length - index

Accounted == Len(wire) + Outstanding + Unwritten + Unencoded = Len(sent)
FifoFaithful == \A k \in txFifo.next..txFifo.count :
                  Memory(txFifo.from, k) = sent[Len(wire) + k - txFifo.next + 1]
MessageFaithful == /\ length <= Len(sent)
                   /\ \A i \in 1..length :
                        sent[Len(sent) - length + i] = Byte(message, i)
BufferFaithful == ~raw /\ pc = "write" =>
                    \A i \in 1..size : encoded[i] = Byte(message, index - size + i)

Faithful == Accounted /\ WireFaithful /\ FifoFaithful /\ MessageFaithful
                      /\ BufferFaithful

Numbers ==
  /\ Len(wire) \in Nat /\ Len(sent) \in Nat /\ length \in Nat /\ index \in 0..length
  /\ size \in Nat /\ written \in 0..size /\ message \in Nat
  /\ txFifo.next \in Nat \ {0} /\ txFifo.count \in Nat
  /\ DOMAIN wire = 1..Len(wire)
  /\ Outstanding \in Nat /\ Unwritten \in Nat /\ Unencoded \in Nat

LEMMA NumbersHold == IInv => Numbers
<1> SUFFICES ASSUME IInv
             PROVE  Numbers
    OBVIOUS
<1>1. /\ length \in Nat /\ index \in 0..length /\ size \in Nat /\ written \in 0..size
      /\ message \in Nat /\ txFifo.next \in Nat \ {0} /\ txFifo.count \in Nat
      /\ txFifo.next <= txFifo.count + 1
      BY BoundsAssumption DEF IInv, TypeOK, Stages
<1>2. Len(wire) \in Nat /\ Len(sent) \in Nat /\ DOMAIN wire = 1..Len(wire)
      BY DEF IInv, TypeOK
<1>3. Outstanding \in Nat /\ Unwritten \in Nat /\ Unencoded \in Nat
      BY <1>1 DEF Outstanding, Unwritten, Unencoded
<1> QED BY <1>1, <1>2, <1>3 DEF Numbers

LEMMA InitFaithful == Init => Faithful
BY DEF Init, Faithful, Accounted, WireFaithful, FifoFaithful, MessageFaithful, BufferFaithful,
       Outstanding, Unwritten, Unencoded, Stopped

(* A call adds its bytes behind those of the calls before.                 *)
LEMMA SentGrows ==
  ASSUME NEW m \in 1..MaxMessages, NEW n \in 0..MaxLength, NEW t,
         NEW s \in Seq([message : 1..MaxMessages, byte : 1..MaxLength]),
         t = s \o [i \in 1..n |-> Byte(m, i)]
  PROVE  /\ Len(t) = Len(s) + n
         /\ \A i \in 1..Len(s) : t[i] = s[i]
         /\ \A i \in 1..n : t[Len(s) + i] = Byte(m, i)
         /\ SubSeq(t, 1, Len(s)) = s
<1> DEFINE items == [message : 1..MaxMessages, byte : 1..MaxLength]
           new == [i \in 1..n |-> Byte(m, i)]
<1>1. /\ new \in Seq(items) /\ s \in Seq(items)
      /\ Len(new) = n /\ \A i \in 1..n : new[i] = Byte(m, i)
      BY MessageIsSequence
<1>2. t = s \o new
      OBVIOUS
<1> HIDE DEF new, items
<1>3. n \in Nat
      BY BoundsAssumption
<1>4. /\ t \in Seq(items) /\ Len(t) = Len(s) + n
      /\ \A i \in 1..Len(s) : t[i] = s[i]
      BY <1>1, <1>2, <1>3
<1>5. SubSeq(t, 1, Len(s)) = s
      BY <1>1, <1>3, <1>4
<1> QED BY <1>1, <1>2, <1>3, <1>4, <1>5

LEMMA NextFaithful ==
  ASSUME AssertsEnabled, IInv, Faithful, raw \/ blocking, [Next]_vars
  PROVE  Faithful'
<1>n. Numbers
      BY NumbersHold
<1>a. Accounted /\ WireFaithful /\ FifoFaithful /\ MessageFaithful /\ BufferFaithful
      BY DEF Faithful
<1> USE DEF callVars, WriteStep, AfterWrite
<1>1. ASSUME NEW n \in 0..MaxLength, Send(n)
      PROVE  Faithful'
  <2> USE <1>1 DEF Send
  <2>1. message + 1 \in 1..MaxMessages /\ n \in 0..MaxLength /\ n \in Nat
        BY BoundsAssumption DEF IInv, TypeOK
  <2>2. /\ Len(sent') = Len(sent) + n
        /\ \A i \in 1..Len(sent) : sent'[i] = sent[i]
        /\ \A i \in 1..n : sent'[Len(sent) + i] = Byte(message + 1, i)
    <3>1. sent \in Seq([message : 1..MaxMessages, byte : 1..MaxLength])
          BY DEF IInv, TypeOK
    <3> QED BY <2>1, <3>1, SentGrows
  <2>3. pc = "idle" /\ (~raw => index = length) /\ written = 0
        BY DEF IInv, Stages
  <2>4. Len(wire) + Outstanding = Len(sent)
    <3>1. Unwritten = 0 /\ Unencoded = 0
          BY <2>3, <1>n DEF Unwritten, Unencoded, Numbers
    <3> QED BY <3>1, <1>a, <1>n DEF Accounted, Numbers
  <2>5. Accounted'
    <3>1. CASE raw
      <4>1. Outstanding' = Outstanding /\ Unwritten' = n /\ Unencoded' = 0
            BY <2>1, <2>3, <3>1, LengthKept DEF Outstanding, Unwritten, Unencoded, raw, blocking
      <4> HIDE <1>1 DEF Send
      <4>2. Len(wire') = Len(wire)
            BY <1>1 DEF Send
      <4>3. Len(sent') = Len(sent) + n
            BY <2>2
      <4> QED BY <2>1, <2>4, <4>1, <4>2, <4>3, <1>n DEF Accounted, Numbers
    <3>2. CASE ~raw
      <4>1. Outstanding' = Outstanding /\ Unwritten' = 0 /\ Unencoded' = n
            BY <2>1, <2>3, <3>2 DEF Outstanding, Unwritten, Unencoded, raw, blocking
      <4> HIDE <1>1 DEF Send
      <4>2. Len(wire') = Len(wire)
            BY <1>1 DEF Send
      <4>3. Len(sent') = Len(sent) + n
            BY <2>2
      <4> QED BY <2>1, <2>4, <4>1, <4>2, <4>3, <1>n DEF Accounted, Numbers
    <3> QED BY <3>1, <3>2
  <2>6. WireFaithful'
        BY <2>1, <2>2, <2>4, <1>n, <1>a DEF WireFaithful, Numbers
  <2>7. FifoFaithful'
    <3> SUFFICES ASSUME NEW k \in txFifo.next..txFifo.count
                 PROVE  Memory(txFifo.from, k) = sent'[Len(wire) + k - txFifo.next + 1]
        BY DEF FifoFaithful, Memory
    <3>1. Len(wire) + k - txFifo.next + 1 \in 1..Len(sent)
      <4> HIDE <1>1 DEF Send
      <4>1. /\ Len(wire) \in Nat /\ Len(sent) \in Nat
            /\ txFifo.next \in Nat /\ txFifo.count \in Nat
            BY <1>n DEF Numbers
      <4>2. Len(wire) + (txFifo.count + 1 - txFifo.next) = Len(sent)
            BY <2>4 DEF Outstanding
      <4> QED BY <4>1, <4>2, SMTT(20)
    <3> QED BY <2>2, <3>1, <1>a DEF FifoFaithful
  <2>8. MessageFaithful'
        BY <2>1, <2>2, <1>n DEF MessageFaithful, Numbers
  <2>9. BufferFaithful'
        BY DEF BufferFaithful, raw
  <2> QED BY <2>5, <2>6, <2>7, <2>8, <2>9 DEF Faithful
<1>2. CASE Encode
  <2> USE <1>2 DEF Encode
  <2>1. ~raw /\ blocking /\ txFifo = Stopped /\ index < length /\ written = 0
        BY DEF IInv, Stages, raw
  <2>2. Piece \in 1..EncodedSize /\ index + Piece <= length /\ Piece \in Nat
        BY <2>1, <1>n, BoundsAssumption DEF Piece, Numbers
  <2>3. Accounted'
    <3>1. Outstanding' = Outstanding /\ Len(wire') = Len(wire) /\ Len(sent') = Len(sent)
          BY DEF Outstanding
    <3>2. /\ Unwritten = 0 /\ Unencoded = length - index
          /\ Unwritten' = Piece - 0 /\ Unencoded' = length - (index + Piece)
          BY <2>1 DEF Unwritten, Unencoded, raw
    <3> HIDE <1>2 DEF Encode
    <3> QED BY <3>1, <3>2, <2>1, <2>2, <1>n, <1>a DEF Accounted, Numbers
  <2>4. FifoFaithful'
        BY <2>1, BoundsAssumption DEF FifoFaithful, Stopped
  <2>5. BufferFaithful'
    <3>1. \A i \in 1..size' : encoded'[i] = Byte(message, index' - size' + i)
          BY <2>2, <1>n, BoundsAssumption DEF Numbers
    <3> QED BY <3>1 DEF BufferFaithful
  <2> QED BY <2>3, <2>4, <2>5, <1>a DEF Faithful, WireFaithful, MessageFaithful
<1>3. CASE WriteByte
  <2> USE <1>3 DEF WriteByte
  <2>1. blocking /\ txFifo = Stopped /\ Outstanding = 0 /\ Outstanding' = 0
        BY DEF IInv, Stages, Outstanding, Stopped
  <2>2. /\ wire' = Append(wire, Memory(Source, written + 1)) /\ Len(wire') = Len(wire) + 1
        /\ wire'[Len(wire) + 1] = Memory(Source, written + 1)
        /\ \A i \in 1..Len(wire) : wire'[i] = wire[i]
        /\ DOMAIN wire' = 1..(Len(wire) + 1)
        BY WrittenIsByte, AppendToWire DEF IInv
  <2>3. pc = "write" /\ written < size
        OBVIOUS
  <2>4. /\ Unwritten = size - written /\ Unwritten' = size - (written + 1)
        /\ Unencoded' = Unencoded /\ Len(sent') = Len(sent)
        BY DEF Unwritten, Unencoded, raw
  <2> HIDE <1>3 DEF WriteByte
  <2>5. Accounted'
        BY <2>1, <2>2, <2>3, <2>4, <1>n, <1>a DEF Accounted, Numbers
  <2>6. Memory(Source, written + 1) = sent[Len(wire) + 1]
    <3>1. CASE raw
      <4>1. Source = message /\ message \in Nat \ {0} /\ size = length /\ Unencoded = 0
            BY <2>3, <3>1, <1>n DEF Source, IInv, Stages, Unencoded, Numbers
      <4>2. Memory(Source, written + 1) = Byte(message, written + 1)
            BY <4>1 DEF Memory, Encoded
      <4>3. Len(wire) + 1 = Len(sent) - length + (written + 1)
            BY <4>1, <2>1, <2>3, <2>4, <1>n, <1>a DEF Accounted, Numbers
      <4>4. sent[Len(sent) - length + (written + 1)] = Byte(message, written + 1)
            BY <4>1, <2>3, <1>n, <1>a DEF MessageFaithful, Numbers
      <4> QED BY <4>2, <4>3, <4>4
    <3>2. CASE ~raw
      <4> DEFINE p == index - size + (written + 1)
      <4>1. size <= index /\ Unencoded = length - index
            BY <2>3, <3>2 DEF IInv, Stages, Unencoded
      <4>2. written + 1 \in 1..size
            BY <2>3, <1>n DEF Numbers
      <4>3. Memory(Source, written + 1) = Byte(message, p)
            BY <2>3, <3>2, <4>2, <1>a DEF Source, Memory, BufferFaithful
      <4>4. p \in 1..length /\ Len(wire) + 1 = Len(sent) - length + p
            BY <4>1, <4>2, <2>1, <2>4, <1>n, <1>a DEF Accounted, Numbers
      <4> HIDE DEF p
      <4>5. sent[Len(sent) - length + p] = Byte(message, p)
            BY <4>4, <1>a DEF MessageFaithful
      <4> QED BY <4>3, <4>4, <4>5
    <3> QED BY <3>1, <3>2
  <2>7. WireFaithful'
    <3>1. Len(wire) + 1 <= Len(sent)
          BY <2>1, <2>3, <2>4, <1>n, <1>a DEF Accounted, Numbers
    <3>2. sent' = sent
          BY <1>3 DEF WriteByte
    <3> QED BY <2>2, <2>6, <3>1, <3>2, <1>n, <1>a DEF WireFaithful, Numbers
  <2>8. FifoFaithful'
        BY <2>1, <1>3 DEF FifoFaithful, Stopped, WriteByte
  <2>9. MessageFaithful' /\ BufferFaithful'
        BY <1>3, <1>a DEF MessageFaithful, BufferFaithful, raw, WriteByte
  <2> QED BY <2>5, <2>7, <2>8, <2>9 DEF Faithful
<1>4. CASE WriteDone
  <2>1. Unwritten = 0 /\ Unwritten' = 0
        BY <1>4, <1>n DEF WriteDone, Unwritten, Numbers
  <2>2. UNCHANGED <<Outstanding, Unencoded, Len(wire), Len(sent)>>
        BY <1>4 DEF WriteDone, Outstanding, Unencoded, raw
  <2>3. Accounted'
        BY <2>1, <2>2, <1>a DEF Accounted
  <2> QED BY <1>4, <2>3, <1>a DEF WriteDone, Faithful, WireFaithful, FifoFaithful,
                                  MessageFaithful, BufferFaithful, Memory, raw
<1>5. CASE Wait
  <2>1. UNCHANGED <<Outstanding, Unwritten, Unencoded, Len(wire), Len(sent)>>
        BY <1>5 DEF Wait, Outstanding, Unwritten, Unencoded, raw
  <2>2. Accounted'
        BY <2>1, <1>a DEF Accounted
  <2> QED BY <1>5, <2>2, <1>a DEF Wait, Faithful, WireFaithful, FifoFaithful,
                                  MessageFaithful, BufferFaithful, Memory, raw
<1>6. CASE Start
  <2> USE <1>6 DEF Start
  <2>1. /\ raw /\ pc = "start" /\ pc' = "idle" /\ written = 0 /\ size = length
        /\ txFifo = Stopped /\ message # 0
        BY <1>n DEF IInv, Stages, SemaphoreTracksFifo, Numbers
  <2>2. txFifo'.from = message /\ txFifo'.next = 1 /\ txFifo'.count = length
        BY <2>1 DEF Source
  <2>3. /\ Outstanding = 0 /\ Unwritten = length /\ Unencoded = 0
        /\ Outstanding' = length /\ Unwritten' = 0 /\ Unencoded' = 0
        BY <2>1, <2>2, <1>n DEF Outstanding, Unwritten, Unencoded, Stopped, raw, Numbers
  <2>4. UNCHANGED <<wire, sent, message, length, encoded, configuration>>
        OBVIOUS
  <2> HIDE <1>6 DEF Start
  <2>5. Len(wire) + length = Len(sent) /\ Accounted'
        BY <2>3, <2>4, <1>n, <1>a DEF Accounted, Numbers
  <2>6. FifoFaithful'
    <3> SUFFICES ASSUME NEW k \in 1..length
                 PROVE  Byte(message, k) = sent[Len(wire) + k - 1 + 1]
        BY <2>1, <2>2, <2>4 DEF FifoFaithful, Memory, Encoded
    <3>1. sent[Len(sent) - length + k] = Byte(message, k)
          BY <1>a DEF MessageFaithful
    <3>2. Len(sent) - length + k = Len(wire) + k - 1 + 1
          BY <2>5, <1>n DEF Numbers
    <3> QED BY <3>1, <3>2
  <2> QED BY <2>1, <2>4, <2>5, <2>6, <1>a
          DEF Faithful, WireFaithful, MessageFaithful, BufferFaithful, raw
<1>7. CASE TransmitByte
  <2> USE <1>7 DEF TransmitByte
  <2>1. /\ txFifo.next <= txFifo.count /\ txFifo'.from = txFifo.from
        /\ txFifo'.next = txFifo.next + 1 /\ txFifo'.count = txFifo.count
        BY DEF IInv, TypeOK
  <2>2. raw /\ UNCHANGED <<encoded, sent, pc, size, written, length, index, message,
                          configuration>>
        BY <2>1 DEF IInv, Stages, Stopped
  <2>3. /\ Len(wire') = Len(wire) + 1
        /\ wire'[Len(wire) + 1] = Memory(txFifo.from, txFifo.next)
        /\ \A i \in 1..Len(wire) : wire'[i] = wire[i]
        /\ DOMAIN wire' = 1..(Len(wire) + 1)
        BY <2>1, FifoHoldsBytes, AppendToWire DEF IInv
  <2> HIDE <1>7 DEF TransmitByte
  <2>4. UNCHANGED <<Unwritten, Unencoded, Len(sent)>> /\ Outstanding' = Outstanding - 1
        BY <2>1, <2>2, <1>n DEF Outstanding, Unwritten, Unencoded, raw, Numbers
  <2>5. Accounted'
        BY <2>3, <2>4, <1>n, <1>a DEF Accounted, Numbers
  <2>6. WireFaithful'
    <3>1. Memory(txFifo.from, txFifo.next) = sent[Len(wire) + 1]
      <4>1. /\ txFifo.next \in txFifo.next..txFifo.count
            /\ Len(wire) + txFifo.next - txFifo.next + 1 = Len(wire) + 1
            BY <2>1, <1>n DEF Numbers
      <4> QED BY <4>1, <1>a DEF FifoFaithful
    <3>2. Len(wire) + 1 <= Len(sent)
      <4>1. Outstanding >= 1
            BY <2>1, <1>n DEF Outstanding, Numbers
      <4> QED BY <4>1, <1>n, <1>a DEF Accounted, Numbers
    <3> QED BY <2>2, <2>3, <3>1, <3>2, <1>n, <1>a DEF WireFaithful, Numbers
  <2>7. FifoFaithful'
    <3> SUFFICES ASSUME NEW k \in (txFifo.next + 1)..txFifo.count
                 PROVE  Memory(txFifo.from, k)
                          = sent[(Len(wire) + 1) + k - (txFifo.next + 1) + 1]
        BY <2>1, <2>2, <2>3 DEF FifoFaithful, Memory
    <3>1. k \in txFifo.next..txFifo.count /\ k \in Nat
          BY <1>n DEF Numbers
    <3>2. (Len(wire) + 1) + k - (txFifo.next + 1) + 1 = Len(wire) + k - txFifo.next + 1
          BY <3>1, <1>n DEF Numbers
    <3> QED BY <3>1, <3>2, <1>a DEF FifoFaithful
  <2> QED BY <2>2, <2>5, <2>6, <2>7, <1>a DEF Faithful, MessageFaithful, BufferFaithful, raw
<1>8. CASE TxCallback
  <2> USE <1>8 DEF TxCallback, Callback
  <2>1. Outstanding = 0 /\ Outstanding' = 0
    <3>1. txFifo.next = txFifo.count + 1
      <4>1. txFifo.next > txFifo.count /\ txFifo.next <= txFifo.count + 1
            BY DEF IInv, Stages
      <4> QED BY <4>1, <1>n DEF Numbers
    <3> QED BY <3>1, <1>n DEF Outstanding, Stopped, Numbers
  <2>2. UNCHANGED <<Unwritten, Unencoded, Len(wire), Len(sent)>>
        BY DEF Unwritten, Unencoded, raw
  <2>3. Accounted'
        BY <2>1, <2>2, <1>a DEF Accounted
  <2>4. FifoFaithful'
        BY DEF FifoFaithful, Stopped
  <2> QED BY <2>3, <2>4, <1>a DEF Faithful, WireFaithful, MessageFaithful, BufferFaithful, raw
<1>9. CASE EncodeDone
  <2>1. UNCHANGED <<Outstanding, Unwritten, Unencoded, Len(wire), Len(sent)>>
        BY <1>9 DEF EncodeDone, Outstanding, Unwritten, Unencoded, raw
  <2>2. Accounted'
        BY <2>1, <1>a DEF Accounted
  <2> QED BY <1>9, <2>2, <1>a DEF EncodeDone, Faithful, WireFaithful, FifoFaithful,
                                  MessageFaithful, BufferFaithful, Memory, raw
<1>10. CASE WriteTimesOut
  <2>1. pc' = "fatal" /\ pc = "write" /\ written' = written
        BY <1>10 DEF WriteTimesOut
  <2>2. UNCHANGED <<Outstanding, Unwritten, Unencoded, Len(wire), Len(sent)>>
        BY <1>10, <2>1 DEF WriteTimesOut, Outstanding, Unwritten, Unencoded, raw
  <2>3. Accounted'
        BY <2>2, <1>a DEF Accounted
  <2> QED BY <1>10, <2>1, <2>3, <1>a
          DEF WriteTimesOut, Faithful, WireFaithful, FifoFaithful, MessageFaithful,
              BufferFaithful, Memory, raw
<1>11. CASE UNCHANGED vars
  <2>1. UNCHANGED <<Outstanding, Unwritten, Unencoded, Len(wire), Len(sent)>>
        BY <1>11 DEF vars, Outstanding, Unwritten, Unencoded, raw
  <2> QED BY <1>11, <2>1, <1>a DEF vars, Faithful, Accounted, WireFaithful, FifoFaithful,
                                  MessageFaithful, BufferFaithful, Memory, raw
<1> QED BY <1>1, <1>2, <1>3, <1>4, <1>5, <1>6, <1>7, <1>8, <1>9, <1>10, <1>11
        DEF Next, Caller, Uart

(* The configurations that do not encode over the piece being sent.        *)
NotRefilled == raw \/ blocking

LEMMA SpecFaithful ==
  ASSUME AssertsEnabled
  PROVE  Spec => [](NotRefilled => Faithful)
<1>1. Init => (NotRefilled => Faithful)
      BY InitFaithful
<1>2. IInv /\ (NotRefilled => Faithful) /\ [Next]_vars => (NotRefilled => Faithful)'
  <2> SUFFICES ASSUME IInv, NotRefilled => Faithful, [Next]_vars, NotRefilled'
               PROVE  Faithful'
      OBVIOUS
  <2>1. configuration' = configuration
        BY DEF Next, Caller, Uart, Send, Encode, EncodeDone, WriteByte, WriteTimesOut, WriteDone, Wait, Start,
               TransmitByte, TxCallback, Callback, callVars, vars
  <2>2. NotRefilled
        BY <2>1 DEF NotRefilled, raw, blocking
  <2> QED BY <2>2, NextFaithful DEF NotRefilled
<1> QED BY <1>1, <1>2, SpecIInv, PTL DEF Spec

(* The bytes that leave are the bytes to send, in order, also while the    *)
(* interrupt reads the caller's message and the caller makes the next call,*)
(* in a build with asserts.                                                *)
THEOREM WireIsFaithful ==
  ASSUME AssertsEnabled
  PROVE  Spec => []WireFaithfulUnlessRefilled
<1>1. (NotRefilled => Faithful) => WireFaithfulUnlessRefilled
      BY DEF WireFaithfulUnlessRefilled, Faithful, NotRefilled
<1> QED BY <1>1, SpecFaithful, PTL

-----------------------------------------------------------------------------
(* The ordered path.                                                       *)

(* The byte that leaves is the one after those that have left.             *)
LEMMA NextByteLeaves ==
  ASSUME IInv, Faithful', Len(wire') = Len(wire) + 1, sent' = sent,
         NEW b, wire' = Append(wire, b), wire'[Len(wire) + 1] = b
  PROVE  Len(wire) < Len(sent) /\ b = sent[Len(wire) + 1]
<1>1. /\ Len(wire) \in Nat /\ Len(sent) \in Nat
      /\ DOMAIN wire' = 1..(Len(wire) + 1)
      BY DEF IInv, TypeOK
<1>2. Len(wire) + 1 <= Len(sent) /\ wire'[Len(wire) + 1] = sent[Len(wire) + 1]
      BY <1>1 DEF Faithful, WireFaithful
<1> QED BY <1>1, <1>2

(* When a blocking call returns, its bytes have left.                      *)
LEMMA AllHasLeft ==
  ASSUME IInv, Faithful, blocking, EncodeDone \/ WriteDone, pc' = "idle"
  PROVE  wire = sent
<1>n. Numbers
      BY NumbersHold
<1>1. /\ pc = "encode" \/ (pc = "write" /\ written = size)
      /\ raw \/ index = length
  <2>1. CASE EncodeDone
        BY <2>1 DEF EncodeDone
  <2>2. CASE WriteDone
        BY <2>2 DEF WriteDone, AfterWrite
  <2> QED BY <2>1, <2>2
<1>f. txFifo = Stopped
      BY DEF IInv, Stages
<1>2. Outstanding = 0 /\ Unwritten = 0 /\ Unencoded = 0
      BY <1>1, <1>f, <1>n DEF Outstanding, Unwritten, Unencoded, Stopped, Numbers
<1>3. Len(wire) = Len(sent)
      BY <1>2, <1>n DEF Faithful, Accounted, Numbers
<1>4. \A i \in 1..Len(wire) : wire[i] = sent[i]
      BY <1>n DEF Faithful, WireFaithful, Numbers
<1> DEFINE bytes == [message : 0..MaxMessages, byte : 0..MaxLength]
           items == [message : 1..MaxMessages, byte : 1..MaxLength]
<1>5. wire \in Seq(bytes) /\ sent \in Seq(items)
      BY DEF IInv, TypeOK
<1>6. items \subseteq bytes
      OBVIOUS
<1> HIDE DEF bytes, items
<1>7. sent \in Seq(bytes)
  <2>1. ASSUME NEW i \in 1..Len(sent)
        PROVE  sent[i] \in bytes
        BY <1>5, <1>6, <2>1
  <2> QED BY <1>5, <2>1
<1> QED BY <1>3, <1>4, <1>5, <1>7

(* Raw or blocking, the transmit path implements the ordered path: every   *)
(* step is a call, the next byte on the wire, a return (of a blocking call *)
(* only when all its bytes have left) or invisible, in a build with asserts.*)
THEOREM ImplementsOrderedPath ==
  ASSUME AssertsEnabled
  PROVE  Spec => SendsInOrder
<1>1. Init => Path!Init
      BY DEF Init, Path!Init, blocking
<1>2. ASSUME IInv, NotRefilled => Faithful, [Next]_vars
      PROVE  [raw \/ blocking => Path!Next]_(Path!pathVars)
  <2> SUFFICES ASSUME NotRefilled
               PROVE  [Path!Next]_(Path!pathVars)
      BY DEF NotRefilled
  <2>f. Faithful /\ Faithful'
        BY <1>2, NextFaithful DEF NotRefilled
  <2> USE <1>2 DEF callVars, WriteStep, AfterWrite, blocking
  <2>1. ASSUME NEW n \in 0..MaxLength, Send(n)
        PROVE  Path!Call
    <3>1. /\ pc = "idle" /\ pc' # "idle" /\ UNCHANGED <<configuration, wire>>
          BY <2>1 DEF Send
    <3>2. /\ message + 1 \in 1..MaxMessages /\ n \in 0..MaxLength
          /\ sent \in Seq([message : 1..MaxMessages, byte : 1..MaxLength])
          BY <2>1, BoundsAssumption DEF Send, IInv, TypeOK
    <3>3. sent' = sent \o [i \in 1..n |-> Byte(message + 1, i)]
          BY <2>1 DEF Send
    <3>4. SubSeq(sent', 1, Len(sent)) = sent
          BY <3>2, <3>3, SentGrows
    <3> QED BY <3>1, <3>4 DEF Path!Call
  <2>2. CASE Encode
        BY <2>2 DEF Encode, Path!pathVars
  <2>3. CASE WriteByte
    <3> DEFINE b == Memory(Source, written + 1)
    <3>1. wire' = Append(wire, b) /\ UNCHANGED <<configuration, pc, sent>>
          BY <2>3 DEF WriteByte
    <3>2. Len(wire') = Len(wire) + 1 /\ wire'[Len(wire) + 1] = b
          BY <2>3, WrittenIsByte, AppendToWire DEF IInv, WriteByte
    <3>3. Len(wire) < Len(sent) /\ b = sent[Len(wire) + 1]
          BY <2>f, <3>1, <3>2, NextByteLeaves
    <3> QED BY <3>1, <3>3 DEF Path!Deliver, Path!Next
  <2>4. CASE WriteDone
    <3>1. /\ pc = "write" /\ blocking /\ UNCHANGED <<configuration, sent, wire>>
          BY <2>4 DEF WriteDone, IInv, Stages
    <3>2. CASE pc' = "idle"
          BY <2>4, <2>f, <3>1, <3>2, AllHasLeft DEF Path!Return, Path!Next
    <3>3. CASE pc' # "idle"
          BY <3>1, <3>3 DEF Path!pathVars
    <3> QED BY <3>2, <3>3
  <2>5. CASE Wait
        BY <2>5 DEF Wait, Path!pathVars
  <2>6. CASE Start
    <3>1. ~blocking /\ pc = "start" /\ UNCHANGED <<configuration, sent, wire>>
          BY <2>6 DEF Start, IInv, Stages
    <3>2. CASE pc' = "idle"
          BY <3>1, <3>2 DEF Path!Return, Path!Next
    <3>3. CASE pc' # "idle"
          BY <3>1, <3>3 DEF Path!pathVars
    <3> QED BY <3>2, <3>3
  <2>7. CASE TransmitByte
    <3> DEFINE b == Memory(txFifo.from, txFifo.next)
    <3>1. wire' = Append(wire, b) /\ UNCHANGED <<configuration, pc, sent>>
          BY <2>7 DEF TransmitByte
    <3>2. Len(wire') = Len(wire) + 1 /\ wire'[Len(wire) + 1] = b
          BY <2>7, FifoHoldsBytes, AppendToWire DEF IInv, TransmitByte
    <3>3. Len(wire) < Len(sent) /\ b = sent[Len(wire) + 1]
          BY <2>f, <3>1, <3>2, NextByteLeaves
    <3> QED BY <3>1, <3>3 DEF Path!Deliver, Path!Next
  <2>8. CASE TxCallback
        BY <2>8 DEF TxCallback, Callback, Path!pathVars
  <2>9. CASE EncodeDone
    <3>1. pc = "encode" /\ pc' = "idle" /\ UNCHANGED <<configuration, sent, wire>>
          BY <2>9 DEF EncodeDone
    <3>2. blocking
          BY <3>1 DEF NotRefilled, IInv, Stages
    <3> QED BY <2>9, <2>f, <3>1, <3>2, AllHasLeft DEF Path!Return, Path!Next
  <2>10. CASE WriteTimesOut
         BY <2>10 DEF WriteTimesOut, Path!pathVars
  <2>11. CASE UNCHANGED vars
         BY <2>11 DEF vars, Path!pathVars
  <2> QED BY <2>1, <2>2, <2>3, <2>4, <2>5, <2>6, <2>7, <2>8, <2>9, <2>10, <2>11
          DEF Next, Caller, Uart, Path!Next
<1> QED BY <1>1, <1>2, SpecIInv, SpecFaithful, PTL DEF Spec, SendsInOrder
=============================================================================
