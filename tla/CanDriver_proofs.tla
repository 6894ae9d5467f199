-------------------------- MODULE CanDriver_proofs --------------------------
(***************************************************************************)
(* Proofs about CanDriver, for any FIFO size and any number of frames and  *)
(* chunks.  The two halves of the driver meet only in the interrupt        *)
(* handler; each half has an invariant about where its wake-up is.         *)
(***************************************************************************)
EXTENDS CanDriver, TLAPS

(* The frames encoded so far fit the bound, and a frame exists wherever    *)
(* the sender works on one; an ended message has none left to encode.      *)
Counts == /\ chunks + frame <= MaxFrames
          /\ txPc \in {"add", "wait", "report", "check"} => frame >= 1
          /\ txPc = "idle" => chunks = 0

IInv == TypeOK /\ Counts /\ NoLostWakeup

(* The sender's frame, in a build with assertions: not yet in the buffer,  *)
(* in the buffer, or transmitted with its completion on the way.           *)
OnBus(n) == Len(bus) = n /\ \A i \in 1..n : bus[i] = i
Quiet == txBuffer = 0 /\ ~tc /\ txSemaphore = 0

TxToken ==
  /\ txPc \in {"idle", "encode", "check"} => Quiet /\ OnBus(frame)
  /\ txPc = "add" => Quiet /\ OnBus(frame - 1)
  /\ txPc = "wait" => \/ txBuffer = frame /\ ~tc /\ txSemaphore = 0 /\ OnBus(frame - 1)
                      \/ txBuffer = 0 /\ tc /\ txSemaphore = 0 /\ OnBus(frame)
                      \/ txBuffer = 0 /\ ~tc /\ txSemaphore = 1 /\ OnBus(frame)
  /\ txPc = "report" => \/ txBuffer = frame /\ OnBus(frame - 1)
                        \/ txBuffer = 0 /\ OnBus(frame)

-----------------------------------------------------------------------------
(* The invariant holds at the start.                                       *)
LEMMA InitIInv == Init => IInv
<1> SUFFICES ASSUME Init
             PROVE  IInv
    OBVIOUS
<1> USE BoundsAssumption
<1>1. /\ bus \in Seq(1..MaxFrames)
      /\ rxFifo \in Seq(1..MaxArrivals) /\ Len(rxFifo) <= FifoSize
      /\ received \in Seq(1..MaxArrivals)
      BY DEF Init
<1>2. tc \in BOOLEAN /\ rf0n \in BOOLEAN
      BY DEF Init
<1>3. TypeOK
  <2>1. Error!CallbackTypeOK /\ seen \in [function : 0..callback, argument : 0..argument]
        BY DEF Init, Error!Init, Error!CallbackTypeOK, Error!NoCall, Error!Call
  <2> QED BY <1>1, <1>2, <2>1 DEF Init, TypeOK
<1>4. Counts /\ NoLostWakeup
      BY DEF Init, Counts, NoLostWakeup
<1> QED BY <1>3, <1>4 DEF IInv

(* A store of a registration only moves the numbers forward.               *)
LEMMA RegistrationGoesUp ==
  ASSUME Error!CallbackTypeOK, Error!Register
  PROVE  /\ callback' \in 0..MaxRegistrations /\ argument' \in 0..MaxRegistrations
         /\ callback' \in {argument', argument' + 1}
         /\ callback <= callback' /\ argument <= argument'
<1> USE BoundsAssumption DEF Error!CallbackTypeOK
<1>1. CASE Error!StoreCallback
      BY <1>1 DEF Error!StoreCallback
<1>2. CASE Error!StoreArgument
      BY <1>2 DEF Error!StoreArgument
<1> QED BY <1>1, <1>2 DEF Error!Register

(* No step of a task, the controller or the interrupt handler breaks it.   *)
LEMMA NextIInv == IInv /\ [Next]_vars => IInv'
<1> SUFFICES ASSUME IInv, [Next]_vars
             PROVE  IInv'
    OBVIOUS
<1> USE BoundsAssumption
        DEF IInv, TypeOK, Counts, NoLostWakeup, Error!CallbackTypeOK,
            senderVars, pollVars, rxUnitVars, txVars, rxVars, errorVars, callbackVars
<1>1. ASSUME NEW n \in 1..MaxChunks, Send(n)
      PROVE  IInv'
      BY <1>1 DEF Send
<1>2. CASE Encode
  <2>1. CASE chunks = 0
        BY <1>2, <2>1 DEF Encode
  <2>2. CASE chunks # 0
        BY <1>2, <2>2 DEF Encode
  <2> QED BY <2>1, <2>2
<1>3. CASE AddFrame
  <2>1. txPc' \in {"fatal", "wait"}
        BY <1>3 DEF AddFrame, Assert
  <2>2. txBuffer' \in 0..frame
        BY <1>3 DEF AddFrame
  <2> QED BY <1>3, <2>1, <2>2 DEF AddFrame
<1>4. CASE ObtainTx
      BY <1>4 DEF ObtainTx
<1>5. CASE Timeout
  <2> USE <1>5 DEF Timeout, ErrorKept
  <2>1. CASE Error!IsNull(callback)
    <3>1. txPc' \in {"fatal", "encode"} /\ UNCHANGED errorVars
          BY <2>1 DEF Assert
    <3> QED BY <3>1
  <2>2. CASE ~Error!IsNull(callback)
    <3>1. txPc' = "report" /\ UNCHANGED callbackVars
          BY <2>2
    <3>2. seen' = [function |-> callback, argument |-> argument]
          BY <2>2 DEF Error!Call
    <3>3. seen' \in [function : 0..callback, argument : 0..argument]
          BY <3>2
    <3> QED BY <3>1, <3>3
  <2> QED BY <2>1, <2>2
<1>6. CASE CheckFinished
  <2>1. txPc' \in {"fatal", "encode"}
        BY <1>6 DEF CheckFinished, Assert
  <2> QED BY <1>6, <2>1 DEF CheckFinished
<1>7. CASE ObtainRx
      BY <1>7 DEF ObtainRx
<1>8. CASE ReadStatus
      BY <1>8 DEF ReadStatus
<1>9. CASE Pull
  <2>1. rxFifo # <<>> /\ rxFifo \in Seq(1..MaxArrivals)
        BY <1>9 DEF Pull, PullAnd
  <2>2. /\ Head(rxFifo) \in 1..MaxArrivals
        /\ Tail(rxFifo) \in Seq(1..MaxArrivals)
        /\ Len(Tail(rxFifo)) <= FifoSize
        BY <2>1
  <2>3. received' \in Seq(1..MaxArrivals)
        BY <1>9, <2>2 DEF Pull, PullAnd
  <2> QED BY <1>9, <2>2, <2>3 DEF Pull, PullAnd
<1>10. CASE Transmit
  <2>1. bus' \in Seq(1..MaxFrames)
        BY <1>10 DEF Transmit
  <2> QED BY <1>10, <2>1 DEF Transmit
<1>11. CASE Arrive
  <2>1. CASE Len(rxFifo) < FifoSize
    <3>0. arrived + 1 \in 1..MaxArrivals /\ rxFifo' = Append(rxFifo, arrived + 1)
          BY <1>11, <2>1 DEF Arrive
    <3>1. rxFifo' \in Seq(1..MaxArrivals) /\ Len(rxFifo') = Len(rxFifo) + 1
          BY <3>0
    <3>2. /\ rf0n' = TRUE /\ rxPc' = rxPc
          /\ arrived' \in 0..MaxArrivals /\ lost' \in 0..arrived'
          BY <1>11, <2>1 DEF Arrive
    <3>3. rxFifo' # <<>>
          BY <3>1
    <3>4. UNCHANGED <<txPc, chunks, frame, txSemaphore, txBuffer, tc, bus,
                      rxSemaphore, received, callback, argument, told, seen>>
          BY <1>11 DEF Arrive
    <3>5. Len(rxFifo') <= FifoSize
          BY <2>1, <3>1
    <3>6. TypeOK'
          BY <3>1, <3>2, <3>4, <3>5
    <3>7. Counts' /\ NoLostWakeup'
          BY <3>2, <3>3, <3>4
    <3> QED BY <3>6, <3>7
  <2>2. CASE ~(Len(rxFifo) < FifoSize)
    <3>1. arrived' = arrived + 1 /\ lost' = lost + 1 /\ arrived < MaxArrivals
          BY <1>11, <2>2 DEF Arrive
    <3>2. arrived' \in 0..MaxArrivals /\ lost' \in 0..arrived'
          BY <3>1
    <3> QED BY <1>11, <2>2, <3>2 DEF Arrive
  <2> QED BY <2>1, <2>2
<1>12. CASE mcan_int0_Handler
  <2>1. rxSemaphore' \in {0, 1} /\ txSemaphore' \in {0, 1}
        BY <1>12 DEF mcan_int0_Handler, Release
  <2>2. rf0n => rxSemaphore' = 1
        BY <1>12 DEF mcan_int0_Handler, Release
  <2>3. rxSemaphore = 1 => rxSemaphore' = 1
        BY <1>12 DEF mcan_int0_Handler, Release
  <2> QED BY <1>12, <2>1, <2>2, <2>3 DEF mcan_int0_Handler, Release
<1>14. CASE ReportError
  <2> USE <1>14 DEF ReportError, ErrorKept, Error!ReportAfter, Error!registration
  <2>1. txPc' \in {"fatal", "encode"}
        BY DEF Assert
  <2>2. /\ UNCHANGED <<callback, argument>>
        /\ seen' = [function |-> 0, argument |-> 0]
        BY DEF Error!NoCall, Error!Call
  <2>3. PICK f \in seen.function..callback, a \in seen.argument..argument :
          told' = [function |-> f, argument |-> a]
        BY DEF Error!Call
  <2>4. f \in 0..MaxRegistrations /\ a \in 0..MaxRegistrations
        OBVIOUS
  <2>5. UNCHANGED <<chunks, frame, txSemaphore, txBuffer, tc, bus, rxVars>>
        OBVIOUS
  <2>6. seen' \in [function : 0..callback', argument : 0..argument']
        BY <2>2
  <2>7. Error!CallbackTypeOK'
        BY <2>2, <2>3, <2>4
  <2> QED
    <3> HIDE <1>14 DEF ReportError, ErrorKept, Error!ReportAfter
    <3>1. TypeOK'
          BY <2>1, <2>5, <2>6, <2>7
    <3>2. Counts' /\ NoLostWakeup'
          BY <2>1, <2>5
    <3> QED BY <3>1, <3>2
<1>15. CASE RegisterCallback
  <2> USE <1>15 DEF RegisterCallback, Error!Register
  <2>1. UNCHANGED <<txVars, rxVars, seen, told>>
        BY DEF Error!StoreCallback, Error!StoreArgument
  <2>2. /\ callback' \in 0..MaxRegistrations /\ argument' \in 0..MaxRegistrations
        /\ callback' \in {argument', argument' + 1}
        /\ callback <= callback' /\ argument <= argument'
        BY RegistrationGoesUp
  <2>3. seen \in [function : 0..callback', argument : 0..argument']
    <3>1. /\ seen.function \in 0..callback /\ seen.argument \in 0..argument
          /\ seen = [function |-> seen.function, argument |-> seen.argument]
          OBVIOUS
    <3>2. seen.function \in 0..callback' /\ seen.argument \in 0..argument'
          BY <2>2, <3>1
    <3> QED BY <3>1, <3>2
  <2>4. Error!CallbackTypeOK'
        BY <2>1, <2>2
  <2>5. TypeOK'
        BY <2>1, <2>3, <2>4
  <2>6. Counts' /\ NoLostWakeup'
        BY <2>1
  <2> QED BY <2>5, <2>6
<1>13. CASE UNCHANGED vars
      BY <1>13 DEF vars
<1> QED BY <1>14, <1>15, <1>1, <1>2, <1>3, <1>4, <1>5, <1>6, <1>7, <1>8, <1>9, <1>10, <1>11,
           <1>12, <1>13
        DEF Next, Sender, Poll

(* Every reachable state satisfies it.                                     *)
LEMMA SpecIInv == Spec => []IInv
  BY InitIInv, NextIInv, PTL DEF Spec

-----------------------------------------------------------------------------
(* Driver fields and controller state keep their types, with and without   *)
(* assertions.                                                             *)
THEOREM TypeCorrect == Spec => []TypeOK
<1>1. IInv => TypeOK
      BY DEF IInv
<1> QED BY <1>1, SpecIInv, PTL

(* The poll task never sleeps on a frame and never pulls without one: one  *)
(* binary semaphore, released once for any number of frames, and draining  *)
(* until the FIFO is seen empty are enough.                                *)
THEOREM WakeupIsNotLost == Spec => []NoLostWakeup
<1>1. IInv => NoLostWakeup
      BY DEF IInv
<1> QED BY <1>1, SpecIInv, PTL

-----------------------------------------------------------------------------
(* The frames that are stored, or have been passed on, are in the order of *)
(* their arrival, and only the lost ones are not among them.               *)
Stored == received \o rxFifo
Ordered == /\ \A i \in 1..(Len(Stored) - 1) : Stored[i] < Stored[i + 1]
           /\ \A i \in 1..Len(Stored) : Stored[i] \in 1..arrived
           /\ Len(Stored) + lost = arrived

LEMMA StoredIsSequence ==
  ASSUME TypeOK
  PROVE  /\ Stored \in Seq(1..MaxArrivals)
         /\ Len(Stored) = Len(received) + Len(rxFifo)
BY DEF TypeOK, Stored

(* Pulling a frame moves the border between the two and nothing else.      *)
LEMMA PullKeepsStored ==
  ASSUME NEW S, NEW r \in Seq(S), NEW q \in Seq(S), q # <<>>
  PROVE  Append(r, Head(q)) \o Tail(q) = r \o q
<1> DEFINE left == Append(r, Head(q)) \o Tail(q)
           right == r \o q
<1>1. /\ Head(q) \in S /\ Tail(q) \in Seq(S) /\ Len(Tail(q)) = Len(q) - 1
      /\ Head(q) = q[1] /\ \A i \in 1..(Len(q) - 1) : Tail(q)[i] = q[i + 1]
      /\ Len(q) \in Nat \ {0} /\ Len(r) \in Nat
      OBVIOUS
<1>2. /\ left \in Seq(S) /\ right \in Seq(S)
      /\ Len(left) = Len(right) /\ Len(right) = Len(r) + Len(q)
      BY <1>1
<1>3. ASSUME NEW i \in 1..Len(right)
      PROVE  left[i] = right[i]
  <2>1. CASE i <= Len(r)
        BY <1>1, <2>1
  <2>2. CASE i = Len(r) + 1
        BY <1>1, <2>2
  <2>3. CASE i > Len(r) + 1
        BY <1>1, <1>2, <2>3
  <2> QED BY <2>1, <2>2, <2>3, <1>1
<1> QED BY <1>2, <1>3

(* Frames are passed on once and in the order of arrival, and only those   *)
(* that found the FIFO full are missing.                                   *)
THEOREM ReceivesInOrder == Spec => []ReceivedInOrder
<1>1. Init => Ordered
      BY DEF Init, Ordered, Stored
<1>2. ASSUME IInv, Ordered, [Next]_vars
      PROVE  Ordered'
  <2> USE BoundsAssumption
  <2>0. TypeOK /\ arrived \in Nat /\ lost \in Nat
        BY <1>2 DEF IInv, TypeOK
  <2>1. CASE UNCHANGED <<received, rxFifo, arrived, lost>>
        BY <1>2, <2>1 DEF Ordered, Stored
  <2>2. CASE Pull
    <3>1. rxFifo # <<>> /\ received \in Seq(1..MaxArrivals) /\ rxFifo \in Seq(1..MaxArrivals)
          BY <1>2, <2>2 DEF Pull, PullAnd, IInv, NoLostWakeup, TypeOK
    <3>2. Stored' = Stored /\ arrived' = arrived /\ lost' = lost
          BY <2>2, <3>1, PullKeepsStored DEF Pull, PullAnd, Stored
    <3> QED BY <1>2, <3>2 DEF Ordered
  <2>3. CASE Arrive
    <3>1. CASE Len(rxFifo) < FifoSize
      <4>0. lost' = lost
            BY <2>3, <3>1 DEF Arrive
      <4>1. /\ Stored' = Append(Stored, arrived + 1) /\ arrived' = arrived + 1
            /\ Stored \in Seq(1..MaxArrivals)
        <5>1. rxFifo' = Append(rxFifo, arrived + 1) /\ received' = received
              BY <2>3, <3>1 DEF Arrive, pollVars
        <5>2. /\ received \in Seq(Nat) /\ rxFifo \in Seq(Nat) /\ arrived + 1 \in Nat
              BY <2>0 DEF TypeOK
        <5>3. received \o Append(rxFifo, arrived + 1) = Append(received \o rxFifo, arrived + 1)
              BY <5>2
        <5> QED BY <5>1, <5>3, <2>0, <2>3, StoredIsSequence DEF Arrive, Stored
      <4> HIDE DEF Stored
      <4>2. /\ Len(Stored') = Len(Stored) + 1 /\ Len(Stored) \in Nat
            /\ Stored'[Len(Stored) + 1] = arrived + 1
            /\ \A i \in 1..Len(Stored) : Stored'[i] = Stored[i]
            BY <4>1
      <4>3. ASSUME NEW i \in 1..(Len(Stored') - 1)
            PROVE  Stored'[i] < Stored'[i + 1]
        <5>1. CASE i = Len(Stored)
              BY <1>2, <2>0, <4>2, <5>1 DEF Ordered
        <5>2. CASE i < Len(Stored)
              BY <1>2, <4>2, <5>2 DEF Ordered
        <5> QED BY <4>2, <5>1, <5>2
      <4>4. ASSUME NEW i \in 1..Len(Stored')
            PROVE  Stored'[i] \in 1..arrived'
            BY <1>2, <2>0, <4>1, <4>2 DEF Ordered
      <4>5. Len(Stored') + lost' = arrived'
        <5>1. Len(Stored) + lost = arrived
              BY <1>2 DEF Ordered
        <5> QED BY <2>0, <4>0, <4>1, <4>2, <5>1
      <4> QED BY <4>3, <4>4, <4>5 DEF Ordered
    <3>2. CASE ~(Len(rxFifo) < FifoSize)
      <4>1. Stored' = Stored /\ arrived' = arrived + 1 /\ lost' = lost + 1
            BY <2>3, <3>2 DEF Arrive, Stored, pollVars
      <4>2. Stored \in Seq(1..MaxArrivals)
            BY <2>0, StoredIsSequence
      <4> HIDE DEF Stored
      <4>3. Len(Stored) + lost = arrived /\ Len(Stored) \in Nat
            BY <1>2, <4>2 DEF Ordered
      <4>4. Len(Stored') + lost' = arrived'
            BY <2>0, <4>1, <4>3
      <4> QED BY <1>2, <2>0, <4>1, <4>4 DEF Ordered
    <3> QED BY <3>1, <3>2
  <2>4. ASSUME NEW n \in 1..MaxChunks, Send(n)
        PROVE  UNCHANGED <<received, rxFifo, arrived, lost>>
        BY <2>4 DEF Send, rxVars, pollVars, rxUnitVars
  <2>5. CASE Sender \/ RegisterCallback \/ UNCHANGED vars
        BY <2>1, <2>5 DEF Sender, Encode, AddFrame, ObtainTx, Timeout, ReportError, ErrorKept,
                    CheckFinished, RegisterCallback, vars, rxVars, pollVars, rxUnitVars
  <2>6. CASE ObtainRx \/ ReadStatus \/ Transmit \/ mcan_int0_Handler
        BY <2>1, <2>6 DEF ObtainRx, ReadStatus, Transmit, mcan_int0_Handler, Release,
                    rxVars, pollVars, rxUnitVars
  <2> QED BY <1>2, <2>1, <2>2, <2>3, <2>4, <2>5, <2>6 DEF Next, Poll
<1>3. Ordered => ReceivedInOrder
      BY DEF Ordered, Stored, ReceivedInOrder
<1> QED BY <1>1, <1>2, <1>3, SpecIInv, PTL DEF Spec

-----------------------------------------------------------------------------
(* From here on the driver is built with assertions.                       *)

(* Where the sender's frame is.                                            *)
LEMMA SpecTxToken ==
  ASSUME AssertsEnabled
  PROVE  Spec => []TxToken
<1>1. Init => TxToken
      BY DEF Init, TxToken, Quiet, OnBus
<1>2. ASSUME IInv, TxToken, [Next]_vars
      PROVE  TxToken'
  <2> USE <1>2 DEF TxToken, Quiet, OnBus
  <2>1. ASSUME NEW n \in 1..MaxChunks, Send(n)
        PROVE  TxToken'
        BY <2>1 DEF Send
  <2>2. CASE Encode
    <3>1. frame \in Nat
          BY DEF IInv, TypeOK
    <3>2. CASE chunks = 0
          BY <2>2, <3>2 DEF Encode
    <3>3. CASE chunks # 0
          BY <2>2, <3>1, <3>3 DEF Encode
    <3> QED BY <3>2, <3>3
  <2>3. CASE AddFrame
    <3>1. txPc' = "wait" /\ txBuffer' = frame
          BY <2>3 DEF AddFrame, Assert
    <3> QED BY <2>3, <3>1 DEF AddFrame
  <2>4. CASE ObtainTx
    <3>1. frame >= 1 /\ frame \in Nat
          BY <2>4 DEF ObtainTx, IInv, Counts, TypeOK
    <3> QED BY <2>4, <3>1 DEF ObtainTx
  <2>5. CASE Timeout
    <3>1. txPc' \in {"fatal", "report"} /\ txPc = "wait" /\ txSemaphore = 0
          BY <2>5 DEF Timeout, Assert
    <3>2. UNCHANGED <<txBuffer, frame, bus>>
          BY <2>5 DEF Timeout, ErrorKept
    <3> QED BY <3>1, <3>2
  <2>11. CASE ReportError
    <3>1. txPc' = "fatal"
          BY <2>11 DEF ReportError, Assert
    <3> QED BY <3>1
  <2>12. CASE RegisterCallback
        BY <2>12 DEF RegisterCallback, txVars, senderVars
  <2>6. CASE CheckFinished
    <3>1. txPc' = "encode"
          BY <2>6 DEF CheckFinished, Assert
    <3> QED BY <2>6, <3>1 DEF CheckFinished
  <2>7. CASE Poll \/ Arrive
        BY <2>7 DEF Poll, ObtainRx, ReadStatus, Pull, PullAnd, Arrive, txVars,
                    senderVars
  <2>8. CASE Transmit
    <3>1. /\ txPc \in {"wait", "report"} /\ txPc' = txPc /\ frame' = frame
          /\ frame \in Nat \ {0} /\ txBuffer = frame /\ OnBus(frame - 1)
          /\ txPc = "wait" => txSemaphore = 0
          BY <2>8 DEF Transmit, Running, IInv, TypeOK, Counts, senderVars
    <3>2. bus' = Append(bus, txBuffer) /\ bus \in Seq(1..MaxFrames)
          BY <2>8 DEF Transmit, IInv, TypeOK
    <3>3. OnBus(frame)'
          BY <3>1, <3>2
    <3> QED BY <2>8, <3>1, <3>3 DEF Transmit
  <2>9. CASE mcan_int0_Handler
    <3>1. /\ UNCHANGED <<txPc, frame, txBuffer, bus>> /\ tc' = FALSE
          /\ tc => txSemaphore' = 1
          /\ ~tc => txSemaphore' = txSemaphore
          BY <2>9 DEF mcan_int0_Handler, Release, senderVars
    <3> QED BY <3>1
  <2>10. CASE UNCHANGED vars
        BY <2>10 DEF vars, txVars, senderVars
  <2> QED BY <2>1, <2>2, <2>3, <2>4, <2>5, <2>6, <2>7, <2>8, <2>9, <2>10, <2>11,
           <2>12
          DEF Next, Sender
<1> QED BY <1>1, <1>2, SpecIInv, PTL DEF Spec

(* When the next chunk is asked for, the frames of all chunks before it    *)
(* are on the bus, each once and in order.                                 *)
THEOREM SendsOneFramePerChunk ==
  ASSUME AssertsEnabled
  PROVE  Spec => []OneFramePerChunk
<1>1. IInv /\ TxToken => OneFramePerChunk
  <2> SUFFICES ASSUME IInv, TxToken, txPc \in {"idle", "encode"}
               PROVE  bus = [i \in 1..frame |-> i]
      BY DEF OneFramePerChunk
  <2>1. bus \in Seq(1..MaxFrames) /\ frame \in Nat
        BY DEF IInv, TypeOK
  <2>2. Len(bus) = frame /\ \A i \in 1..frame : bus[i] = i
        BY DEF TxToken, OnBus
  <2> QED BY <2>1, <2>2
<1> QED BY <1>1, SpecIInv, SpecTxToken, PTL

(* No completion of an earlier frame is left for the next one, and a       *)
(* sender that is woken finds its own frame transmitted.                   *)
THEOREM CompletionsMatchFrames ==
  ASSUME AssertsEnabled
  PROVE  Spec => []NoStaleCompletion
<1>1. IInv /\ TxToken => NoStaleCompletion
      BY DEF TxToken, Quiet, OnBus, NoStaleCompletion, IInv, Counts, TypeOK
<1> QED BY <1>1, SpecIInv, SpecTxToken, PTL

-----------------------------------------------------------------------------
(* What Send offers is known by the frames' numbers.                       *)
Offered(n) == [i \in 1..n |-> i]

LEMMA OfferedGrows ==
  ASSUME NEW a \in Nat, NEW b \in Nat, a <= b
  PROVE  /\ Len(Offered(a)) = a /\ \A i \in 1..a : Offered(a)[i] = i
         /\ SubSeq(Offered(b), 1, a) = Offered(a)
BY DEF Offered

LEMMA BusIsOffered ==
  ASSUME IInv, NEW n \in Nat, OnBus(n)
  PROVE  bus = Offered(n)
BY DEF IInv, TypeOK, OnBus, Offered

(* Sending a message, in a build with assertions, implements an ordered    *)
(* synchronous path: every step is a call, the next frame on the bus, a    *)
(* return that finds all frames of the message there, or invisible.        *)
THEOREM ImplementsOrderedPath ==
  ASSUME AssertsEnabled
  PROVE  Spec => SendsInOrder
<1>1. Init => Path!Init
      BY DEF Init, Path!Init
<1>2. ASSUME IInv, TxToken, [Next]_vars
      PROVE  [Path!Next]_(Path!pathVars)
  <2>n. frame \in Nat /\ chunks \in Nat /\ bus \in Seq(1..MaxFrames)
        BY <1>2 DEF IInv, TypeOK
  <2>o. Offered(frame + chunks) = [i \in 1..(frame + chunks) |-> i]
        BY DEF Offered
  <2>s. ASSUME UNCHANGED <<frame, chunks, bus>>, txPc # "idle", txPc' # "idle"
        PROVE  UNCHANGED Path!pathVars
        BY <2>s DEF Path!pathVars
  <2>1. ASSUME NEW n \in 1..MaxChunks, Send(n)
        PROVE  Path!Call
    <3>1. chunks = 0 /\ txPc = "idle" /\ txPc' = "encode" /\ n \in Nat
          BY <1>2, <2>1 DEF Send, IInv, Counts
    <3>2. chunks' = n /\ frame' = frame /\ bus' = bus
          BY <2>1 DEF Send
    <3>3. /\ Len(Offered(frame + chunks)) = frame + chunks
          /\ SubSeq(Offered(frame' + chunks'), 1, frame + chunks) = Offered(frame + chunks)
          BY <2>n, <3>1, <3>2, OfferedGrows
    <3> QED BY <3>1, <3>2, <3>3 DEF Path!Call, Offered
  <2>2. CASE Encode
    <3>1. CASE chunks = 0
      <4>1. txPc = "encode" /\ txPc' = "idle" /\ UNCHANGED <<chunks, frame, bus>>
            BY <2>2, <3>1 DEF Encode
      <4>2. bus = Offered(frame + chunks)
            BY <1>2, <2>n, <3>1, <4>1, BusIsOffered DEF TxToken
      <4> QED BY <2>o, <4>1, <4>2 DEF Path!Return, Path!Next
    <3>2. CASE chunks # 0
      <4>1. /\ txPc = "encode" /\ txPc' = "add" /\ bus' = bus
            /\ frame' + chunks' = frame + chunks
            BY <2>2, <2>n, <3>2 DEF Encode
      <4> QED BY <4>1 DEF Path!pathVars
    <3> QED BY <3>1, <3>2
  <2>3. CASE Transmit
    <3>1. /\ txPc' = txPc /\ UNCHANGED <<chunks, frame>> /\ frame \in Nat \ {0}
          /\ txPc \in {"wait", "report"} /\ txBuffer = frame /\ OnBus(frame - 1)
          BY <1>2, <2>3 DEF Transmit, Running, IInv, TypeOK, Counts, TxToken, Quiet,
                            senderVars
    <3>2. bus' = Append(bus, frame) /\ Len(bus) = frame - 1
          BY <2>3, <3>1 DEF Transmit, OnBus
    <3>3. Len(Offered(frame + chunks)) = frame + chunks
          /\ Offered(frame + chunks)[frame] = frame
          BY <2>n, <3>1, OfferedGrows
    <3> QED BY <2>n, <2>o, <3>1, <3>2, <3>3 DEF Path!Deliver, Path!Next
  <2>4. CASE AddFrame
        BY <2>4, <2>s DEF AddFrame, Assert
  <2>5. CASE ObtainTx
        BY <2>5, <2>s DEF ObtainTx
  <2>6. CASE Timeout
        BY <2>6, <2>s DEF Timeout, Assert, ErrorKept
  <2>7. CASE ReportError
        BY <2>7, <2>s DEF ReportError, Assert, ErrorKept
  <2>8. CASE CheckFinished
        BY <2>8, <2>s DEF CheckFinished, Assert
  <2>9. CASE Poll \/ Arrive \/ RegisterCallback
        BY <2>9 DEF Poll, ObtainRx, ReadStatus, Pull, PullAnd, Arrive, RegisterCallback,
                    txVars, senderVars, Path!pathVars
  <2>10. CASE mcan_int0_Handler
        BY <2>10 DEF mcan_int0_Handler, Release, senderVars, Path!pathVars
  <2>11. CASE UNCHANGED vars
        BY <2>11 DEF vars, txVars, senderVars, Path!pathVars
  <2> QED BY <1>2, <2>1, <2>2, <2>3, <2>4, <2>5, <2>6, <2>7, <2>8, <2>9, <2>10, <2>11
          DEF Next, Sender, Path!Next
<1> QED BY <1>1, <1>2, SpecIInv, SpecTxToken, PTL DEF Spec, SendsInOrder, Path!Spec
=============================================================================
