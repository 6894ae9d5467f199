--------------------------- MODULE SerialRx_proofs ---------------------------
(***************************************************************************)
(* Proofs about SerialRx, for any FIFO of at least two bytes and any       *)
(* number of bytes and registrations.                                      *)
(***************************************************************************)
EXTENDS SerialRx, FiniteSetTheorems, SequenceTheorems, TLAPS

(* What the FIFO holds has arrived.                                        *)
FifoArrived == \A i \in 1..Len(rxFifo) : rxFifo[i] \in 1..Len(arrived)

IInv == TypeOK /\ FifoArrived /\ NoLostWakeup

-----------------------------------------------------------------------------
LEMMA TargetFits == targetLength \in Nat /\ 1 <= targetLength /\ targetLength <= FifoSize
BY FifoAssumption DEF targetLength

LEMMA InitIInv == Init => IInv
<1> SUFFICES ASSUME Init
             PROVE  IInv
    OBVIOUS
<1> USE MaxBytesAssumption, FifoAssumption, RegistrationsAssumption DEF Init
<1>1. Error!CallbackTypeOK
      BY DEF Error!Init, Error!CallbackTypeOK, Error!NoCall, Error!Call
<1>2. /\ rxFifo \in Seq(1..MaxBytes) /\ Len(rxFifo) = 0
      /\ batch \in Seq(1..MaxBytes) /\ Len(batch) = 0
      /\ arrived \in Seq(BOOLEAN) /\ Len(arrived) = 0
      /\ passed \in Seq(1..MaxBytes)
      OBVIOUS
<1>3. TypeOK
  <2>1. event \in BOOLEAN
        OBVIOUS
  <2>2. batch # <<>> => pc = "pass"
        OBVIOUS
  <2>3. Len(rxFifo) <= FifoSize /\ Len(batch) <= FifoSize /\ Len(arrived) <= MaxBytes
        BY <1>2
  <2>4. mode \in Modes /\ pc \in {"wait", "read", "pass"} /\ lost \subseteq 1..MaxBytes
        OBVIOUS
  <2> QED BY <1>1, <1>2, <2>1, <2>2, <2>3, <2>4 DEF TypeOK
<1>4. FifoArrived /\ NoLostWakeup
      BY <1>2, TargetFits DEF FifoArrived, NoLostWakeup
<1> QED BY <1>3, <1>4 DEF IInv

(* A store of a registration only moves the numbers forward.               *)
LEMMA RegistrationGoesUp ==
  ASSUME Error!CallbackTypeOK, Error!Register
  PROVE  Error!CallbackTypeOK'
<1> USE RegistrationsAssumption DEF Error!CallbackTypeOK
<1>1. CASE Error!StoreCallback
      BY <1>1 DEF Error!StoreCallback
<1>2. CASE Error!StoreArgument
      BY <1>2 DEF Error!StoreArgument
<1> QED BY <1>1, <1>2 DEF Error!Register

(* A byte that arrives, with the FIFO as it was and as it becomes.         *)
LEMMA Arrival ==
  ASSUME IInv, NEW isTarget \in BOOLEAN, ReceiveByte(isTarget)
  PROVE  /\ Len(arrived') = Len(arrived) + 1 /\ Len(arrived) \in Nat
         /\ Len(arrived') \in 1..MaxBytes
         /\ arrived' \in Seq(BOOLEAN) /\ arrived'[Len(arrived')] = isTarget
         /\ \A i \in 1..Len(arrived) : arrived'[i] = arrived[i]
<1>1. arrived \in Seq(BOOLEAN) /\ arrived' = Append(arrived, isTarget)
      BY DEF IInv, TypeOK, ReceiveByte
<1>2. Len(arrived) < MaxBytes
      BY DEF ReceiveByte
<1> QED BY <1>1, <1>2, MaxBytesAssumption

LEMMA Storing ==
  ASSUME IInv, NEW isTarget \in BOOLEAN, ReceiveByte(isTarget), Len(rxFifo) < FifoSize
  PROVE  /\ rxFifo' \in Seq(1..MaxBytes) /\ Len(rxFifo') = Len(rxFifo) + 1
         /\ Len(rxFifo) \in Nat /\ Len(rxFifo') <= FifoSize
         /\ \A i \in 1..Len(rxFifo) : rxFifo'[i] = rxFifo[i]
         /\ rxFifo'[Len(rxFifo) + 1] = Len(arrived')
         /\ lost' = lost
<1>1. rxFifo \in Seq(1..MaxBytes) /\ Len(arrived') \in 1..MaxBytes
      BY Arrival DEF IInv, TypeOK
<1>2. rxFifo' = Append(rxFifo, Len(arrived')) /\ lost' = lost
      BY DEF ReceiveByte
<1> QED BY <1>1, <1>2, FifoAssumption

LEMMA ReceiveKeepsIInv ==
  ASSUME IInv, NEW isTarget \in BOOLEAN, ReceiveByte(isTarget)
  PROVE  IInv'
<1>1. /\ UNCHANGED <<mode, pc, batch, passed, errorVars>>
      /\ event' = (event \/ matches(isTarget) \/ Len(rxFifo') >= targetLength)
      BY DEF ReceiveByte
<1>2. targetLength' = targetLength
      BY <1>1 DEF targetLength
<1>3. Error!CallbackTypeOK' /\ event' \in BOOLEAN
      BY <1>1 DEF IInv, TypeOK, errorVars, Error!CallbackTypeOK
<1>4. CASE Len(rxFifo) < FifoSize
  <2>1. TypeOK'
    <3>1. rxFifo' \in Seq(1..MaxBytes) /\ Len(rxFifo') <= FifoSize /\ lost' = lost
          BY <1>4, Storing
    <3>2. arrived' \in Seq(BOOLEAN) /\ Len(arrived') <= MaxBytes
          BY Arrival, MaxBytesAssumption
    <3> QED BY <1>1, <1>3, <3>1, <3>2 DEF IInv, TypeOK
  <2>2. FifoArrived'
    <3> SUFFICES ASSUME NEW i \in 1..Len(rxFifo')
                 PROVE  rxFifo'[i] \in 1..Len(arrived')
        BY DEF FifoArrived
    <3>1. CASE i = Len(rxFifo) + 1
          BY <1>4, <3>1, Arrival, Storing
    <3>2. CASE i \in 1..Len(rxFifo)
          BY <1>4, <3>2, Arrival, Storing DEF IInv, FifoArrived
    <3> QED BY <1>4, <3>1, <3>2, Storing
  <2>3. NoLostWakeup'
    <3>0. DOMAIN rxFifo' = 1..Len(rxFifo')
          BY <2>1 DEF TypeOK
    <3>9. Len(rxFifo') >= targetLength' => event'
          BY <1>1, <1>2
    <3> SUFFICES ASSUME mode' # "single", NEW i \in 1..Len(rxFifo'), arrived'[rxFifo'[i]]
                 PROVE  event' \/ pc' = "read"
        BY <3>0, <3>9 DEF NoLostWakeup
    <3>1. CASE i = Len(rxFifo) + 1
      <4>1. isTarget
            BY <1>4, <3>1, Arrival, Storing
      <4> QED BY <4>1, <1>1 DEF matches
    <3>2. CASE i \in 1..Len(rxFifo)
      <4>1. rxFifo[i] \in 1..Len(arrived) /\ i \in DOMAIN rxFifo
            BY <3>2 DEF IInv, FifoArrived, TypeOK
      <4>2. arrived[rxFifo[i]]
        <5>1. rxFifo'[i] = rxFifo[i]
              BY <1>4, <3>2, Storing
        <5>2. arrived'[rxFifo[i]] = arrived[rxFifo[i]]
              BY <4>1, Arrival
        <5> QED BY <5>1, <5>2
      <4>3. event \/ pc = "read"
            BY <1>1, <4>1, <4>2 DEF IInv, NoLostWakeup
      <4> QED BY <4>3, <1>1
    <3> QED BY <1>4, <3>1, <3>2, Storing
  <2> QED BY <2>1, <2>2, <2>3 DEF IInv
<1>5. CASE ~(Len(rxFifo) < FifoSize)
  <2>1. rxFifo' = rxFifo /\ lost' = lost \cup {Len(arrived')}
        BY <1>5 DEF ReceiveByte
  <2>2. TypeOK'
    <3>1. arrived' \in Seq(BOOLEAN) /\ Len(arrived') <= MaxBytes
          BY Arrival, MaxBytesAssumption
    <3>2. lost' \subseteq 1..MaxBytes
          BY <2>1, Arrival DEF IInv, TypeOK
    <3> QED BY <1>1, <1>3, <2>1, <3>1, <3>2 DEF IInv, TypeOK
  <2>3. FifoArrived'
        BY <2>1, Arrival DEF IInv, FifoArrived
  <2>4. Len(rxFifo') >= targetLength
        BY <1>5, <2>1, TargetFits, FifoAssumption DEF IInv, TypeOK
  <2>5. NoLostWakeup'
        BY <1>1, <2>4 DEF NoLostWakeup
  <2> QED BY <2>2, <2>3, <2>5 DEF IInv
<1> QED BY <1>4, <1>5

LEMMA NextIInv == IInv /\ [Next]_vars => IInv'
<1> SUFFICES ASSUME IInv, [Next]_vars
             PROVE  IInv'
    OBVIOUS
<1> USE DEF IInv
<1>1. ASSUME NEW isTarget \in BOOLEAN, ReceiveByte(isTarget)
      PROVE  IInv'
      BY <1>1, ReceiveKeepsIInv
<1>2. CASE ReceiveEvent
  <2> USE <1>2 DEF ReceiveEvent, uartVars, errorVars
  <2>1. TypeOK' /\ FifoArrived'
        BY DEF TypeOK, FifoArrived, Error!CallbackTypeOK
  <2>2. NoLostWakeup'
        BY DEF NoLostWakeup
  <2> QED BY <2>1, <2>2
<1>3. CASE ReadFifo
  <2> USE <1>3 DEF ReadFifo, Take, errorVars
  <2>1. /\ rxFifo' \in Seq(1..MaxBytes) /\ Len(rxFifo') = 0
        /\ DOMAIN rxFifo' = {} /\ targetLength' = targetLength
        BY DEF targetLength
  <2>2. TypeOK'
        BY <2>1, FifoAssumption DEF TypeOK, Error!CallbackTypeOK
  <2>3. FifoArrived' /\ NoLostWakeup'
        BY <2>1, TargetFits DEF FifoArrived, NoLostWakeup
  <2> QED BY <2>2, <2>3
<1>4. CASE PassOn
  <2> USE <1>4 DEF PassOn, PassAnd, uartVars, errorVars
  <2>1. passed' \in Seq(1..MaxBytes) /\ batch' \in Seq(1..MaxBytes) /\ Len(batch') = 0
        BY DEF TypeOK
  <2>2. TypeOK' /\ FifoArrived'
        BY <2>1, FifoAssumption DEF TypeOK, FifoArrived, Error!CallbackTypeOK
  <2>3. NoLostWakeup'
        BY DEF NoLostWakeup, targetLength
  <2> QED BY <2>2, <2>3
<1>5. CASE uartErrorHandler
  <2> USE <1>5 DEF uartErrorHandler, rxVars, uartVars
  <2>1. Error!CallbackTypeOK'
        BY DEF TypeOK, Error!ReportAtOnce, Error!registration, Error!Call,
               Error!CallbackTypeOK
  <2> QED BY <2>1 DEF TypeOK, FifoArrived, NoLostWakeup, targetLength
<1>6. CASE RegisterCallback
  <2> USE <1>6 DEF RegisterCallback, rxVars, uartVars
  <2>1. Error!CallbackTypeOK'
        BY RegistrationGoesUp DEF TypeOK
  <2> QED BY <2>1 DEF TypeOK, FifoArrived, NoLostWakeup, targetLength
<1>7. CASE UNCHANGED vars
      BY <1>7 DEF vars, rxVars, uartVars, errorVars, TypeOK, FifoArrived, NoLostWakeup,
                  targetLength, Error!CallbackTypeOK
<1> QED BY <1>1, <1>2, <1>3, <1>4, <1>5, <1>6, <1>7 DEF Next, Poll

LEMMA SpecIInv == Spec => []IInv
BY InitIInv, NextIInv, PTL DEF Spec

-----------------------------------------------------------------------------
(* Results.                                                                *)

(* The FIFO never holds more than its size, and a batch is at hand only    *)
(* while it is passed on.                                                  *)
THEOREM TypeCorrect == Spec => []TypeOK
<1>1. IInv => TypeOK
      BY DEF IInv
<1> QED BY <1>1, SpecIInv, PTL

(* The poll task does not go to sleep over bytes it should pass on.        *)
THEOREM NoWakeupIsLost == Spec => []NoLostWakeup
<1>1. IInv => NoLostWakeup
      BY DEF IInv
<1> QED BY <1>1, SpecIInv, PTL

(* A byte is lost only after the poll task has been notified.              *)
THEOREM NotifiedBeforeLoss == Spec => LossOnlyWhenNotified
<1>1. IInv /\ [Next]_vars => [lost' # lost => event \/ pc = "read"]_vars
  <2> SUFFICES ASSUME IInv, [Next]_vars, lost' # lost
               PROVE  event \/ pc = "read"
      OBVIOUS
  <2>1. PICK isTarget \in BOOLEAN : ReceiveByte(isTarget)
        BY DEF Next, Poll, ReceiveEvent, ReadFifo, Take, PassOn, PassAnd, uartErrorHandler,
               RegisterCallback, rxVars, uartVars, vars
  <2>2. ~(Len(rxFifo) < FifoSize)
        BY <2>1 DEF ReceiveByte
  <2>3. Len(rxFifo) >= targetLength
        BY <2>2, TargetFits, FifoAssumption DEF IInv, TypeOK
  <2> QED BY <2>3 DEF IInv, NoLostWakeup
<1> QED BY <1>1, SpecIInv, PTL DEF Spec, LossOnlyWhenNotified

-----------------------------------------------------------------------------
(* The bytes that were stored are in the order of their arrival, and with  *)
(* those that were lost they are all that arrived.                         *)
Stored == passed \o batch \o rxFifo
Increasing(s) == \A i, j \in 1..Len(s) : i < j => s[i] < s[j]
Bounded(s, n) == \A i \in 1..Len(s) : s[i] \in 1..n
Ordered == /\ Increasing(Stored)
           /\ Bounded(Stored, Len(arrived))
           /\ lost \subseteq 1..Len(arrived)
           /\ Len(Stored) + Cardinality(lost) = Len(arrived)

LEMMA StoredIsSequence ==
  ASSUME TypeOK
  PROVE  Stored \in Seq(1..MaxBytes)
BY DEF TypeOK, Stored

(* Appending a byte that came after all others keeps a sequence increasing.*)
LEMMA AppendIncreasing ==
  ASSUME NEW S \in SUBSET Nat, NEW s \in Seq(S), NEW n \in Nat,
         Increasing(s), Bounded(s, n)
  PROVE  Increasing(Append(s, n + 1)) /\ Bounded(Append(s, n + 1), n + 1)
<1> DEFINE t == Append(s, n + 1)
<1>1. /\ Len(s) \in Nat /\ Len(t) = Len(s) + 1 /\ t[Len(s) + 1] = n + 1
      /\ \A i \in 1..Len(s) : t[i] = s[i]
  <2>1. s \in Seq(Nat)
        BY SeqMonotonic
  <2> QED BY <2>1
<1> HIDE DEF t
<1>2. \A i \in 1..Len(s) : s[i] \in 1..n
      BY DEF Bounded
<1>3. Bounded(t, n + 1)
      BY <1>1, <1>2 DEF Bounded
<1>4. Increasing(t)
  <2> SUFFICES ASSUME NEW i \in 1..Len(t), NEW j \in 1..Len(t), i < j
               PROVE  t[i] < t[j]
      BY DEF Increasing
  <2>1. CASE j = Len(s) + 1
        BY <1>1, <1>2, <2>1
  <2>2. CASE j # Len(s) + 1
        BY <1>1, <2>2 DEF Increasing
  <2> QED BY <2>1, <2>2
<1> QED BY <1>3, <1>4 DEF t

LEMMA AppendAssociates ==
  ASSUME NEW S, NEW p \in Seq(S), NEW q \in Seq(S), NEW e \in S
  PROVE  p \o Append(q, e) = Append(p \o q, e)
<1> DEFINE left == p \o Append(q, e)
           right == Append(p \o q, e)
<1>1. /\ left \in Seq(S) /\ right \in Seq(S)
      /\ Len(left) = Len(p) + Len(q) + 1 /\ Len(right) = Len(left)
      /\ Len(p) \in Nat /\ Len(q) \in Nat
      OBVIOUS
<1>2. ASSUME NEW i \in 1..Len(left)
      PROVE  left[i] = right[i]
  <2>1. CASE i <= Len(p)
        BY <2>1
  <2>2. CASE i > Len(p) /\ i <= Len(p) + Len(q)
        BY <2>2
  <2>3. CASE i = Len(p) + Len(q) + 1
        BY <2>3
  <2> QED BY <1>1, <2>1, <2>2, <2>3
<1> HIDE DEF left, right
<1>3. left = right
      BY <1>1, <1>2, SeqEqual
<1> QED BY <1>3 DEF left, right

(* Bytes are passed on once, in the order of arrival; only those that      *)
(* found the FIFO full are missing.                                        *)
THEOREM PassesInOrder == Spec => []PassedInOrder
<1>1. Init => Ordered
  <2> SUFFICES ASSUME Init
               PROVE  Ordered
      OBVIOUS
  <2>1. Stored = <<>> /\ lost = {} /\ Len(arrived) = 0
        BY DEF Init, Stored
  <2> QED BY <2>1, FS_EmptySet DEF Ordered, Increasing, Bounded
<1>2. IInv /\ Ordered /\ [Next]_vars => Ordered'
  <2> SUFFICES ASSUME IInv, Ordered, [Next]_vars
               PROVE  Ordered'
      OBVIOUS
  <2>1. ASSUME NEW isTarget \in BOOLEAN, ReceiveByte(isTarget)
        PROVE  Ordered'
    <3>0. /\ Stored \in Seq(1..MaxBytes) /\ Len(Stored) \in Nat /\ Len(arrived) \in Nat
          /\ Len(arrived') = Len(arrived) + 1 /\ Len(arrived) + 1 \in 1..MaxBytes
          BY <2>1, StoredIsSequence, Arrival DEF IInv
    <3>1. IsFiniteSet(lost) /\ Cardinality(lost) \in Nat
      <4>1. IsFiniteSet(1..Len(arrived))
            BY <3>0, FS_Interval
      <4>2. IsFiniteSet(lost)
            BY <4>1, FS_Subset DEF Ordered
      <4> QED BY <4>2, FS_CardinalityType
    <3>2. CASE Len(rxFifo) < FifoSize
      <4>1. Stored' = Append(Stored, Len(arrived) + 1) /\ lost' = lost
        <5>1. /\ UNCHANGED <<passed, batch, lost>>
              /\ rxFifo' = Append(rxFifo, Len(arrived) + 1)
              BY <2>1, <3>0, <3>2 DEF ReceiveByte
        <5>2. passed \o batch \in Seq(1..MaxBytes) /\ rxFifo \in Seq(1..MaxBytes)
              BY DEF IInv, TypeOK
        <5>3. (passed \o batch) \o Append(rxFifo, Len(arrived) + 1)
                = Append((passed \o batch) \o rxFifo, Len(arrived) + 1)
              BY <3>0, <5>2, AppendAssociates
        <5> QED BY <5>1, <5>3 DEF Stored
      <4>2. Increasing(Stored') /\ Bounded(Stored', Len(arrived) + 1)
        <5>1. 1..MaxBytes \subseteq Nat
              BY MaxBytesAssumption
        <5> QED BY <3>0, <4>1, <5>1, AppendIncreasing DEF Ordered
      <4>3. Len(Stored') = Len(Stored) + 1
            BY <3>0, <4>1
      <4>4. lost' \subseteq 1..Len(arrived')
            BY <3>0, <4>1 DEF Ordered
      <4> QED BY <3>0, <3>1, <4>1, <4>2, <4>3, <4>4 DEF Ordered
    <3>3. CASE ~(Len(rxFifo) < FifoSize)
      <4>1. UNCHANGED <<passed, batch, rxFifo>> /\ lost' = lost \cup {Len(arrived) + 1}
            BY <2>1, <3>0, <3>3 DEF ReceiveByte
      <4>2. Stored' = Stored
            BY <4>1 DEF Stored
      <4>3. lost' \subseteq 1..Len(arrived') /\ Len(arrived) + 1 \notin lost
        <5>1. \A n \in lost : n \in 1..Len(arrived)
              BY DEF Ordered
        <5> QED BY <3>0, <4>1, <5>1
      <4>4. Cardinality(lost') = Cardinality(lost) + 1
            BY <3>1, <4>1, <4>3, FS_AddElement
      <4>5. Increasing(Stored') /\ Bounded(Stored', Len(arrived'))
            BY <3>0, <4>2 DEF Ordered, Bounded
      <4> QED BY <3>0, <3>1, <4>2, <4>3, <4>4, <4>5 DEF Ordered
    <3> QED BY <3>2, <3>3
  <2>2. ASSUME Stored' = Stored, UNCHANGED <<lost, arrived>>
        PROVE  Ordered'
        BY <2>2 DEF Ordered
  <2>3. CASE ReadFifo
    <3>1. /\ batch = <<>> /\ batch' = rxFifo /\ rxFifo' = <<>> /\ passed' = passed
          /\ UNCHANGED <<lost, arrived>>
          BY <2>3 DEF ReadFifo, Take, IInv, TypeOK
    <3>2. passed \in Seq(1..MaxBytes) /\ rxFifo \in Seq(1..MaxBytes)
          BY DEF IInv, TypeOK
    <3>3. passed \o <<>> = passed
          BY <3>2, ConcatEmptySeq
    <3>4. passed \o rxFifo \in Seq(1..MaxBytes)
          BY <3>2
    <3>5. (passed \o rxFifo) \o <<>> = passed \o rxFifo
          BY <3>4, ConcatEmptySeq
    <3>6. Stored' = Stored
          BY <3>1, <3>3, <3>5 DEF Stored
    <3> QED BY <2>2, <3>1, <3>6
  <2>4. CASE PassOn
    <3>1. /\ batch' = <<>> /\ passed' = passed \o batch
          /\ UNCHANGED <<rxFifo, lost, arrived>>
          BY <2>4 DEF PassOn, PassAnd, uartVars
    <3>2. passed \o batch \in Seq(1..MaxBytes)
          BY DEF IInv, TypeOK
    <3>3. (passed \o batch) \o <<>> = passed \o batch
          BY <3>2, ConcatEmptySeq
    <3>4. Stored' = Stored
          BY <3>1, <3>3 DEF Stored
    <3> QED BY <2>2, <3>1, <3>4
  <2>5. CASE ReceiveEvent \/ uartErrorHandler \/ RegisterCallback \/ UNCHANGED vars
    <3>1. UNCHANGED <<passed, batch, rxFifo, lost, arrived>>
          BY <2>5 DEF ReceiveEvent, uartErrorHandler, RegisterCallback, rxVars, uartVars, vars
    <3> QED BY <2>2, <3>1 DEF Stored
  <2> QED BY <2>1, <2>3, <2>4, <2>5 DEF Next, Poll
<1>3. IInv /\ Ordered => PassedInOrder
  <2> SUFFICES ASSUME IInv, Ordered
               PROVE  PassedInOrder
      OBVIOUS
  <2>1. DOMAIN Stored = 1..Len(Stored)
        BY StoredIsSequence DEF IInv
  <2> QED BY <2>1 DEF PassedInOrder, Ordered, Increasing, Stored
<1> QED BY <1>1, <1>2, <1>3, SpecIInv, PTL DEF Spec
=============================================================================
