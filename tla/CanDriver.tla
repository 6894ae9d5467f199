----------------------------- MODULE CanDriver -----------------------------
(***************************************************************************)
(* One instance of the CAN driver (samrh71_can_generic.c): the task inside *)
(* SamRH71RtemsCanSend, the poll task, the interrupt handler both share,   *)
(* and the MCAN controller with TX buffer 0 and RX FIFO 0.  Calls of Send  *)
(* follow each other (the Broker serialises them).                         *)
(*                                                                         *)
(* A message takes one frame, or, with the Escaper, one frame per encoded  *)
(* chunk.  Transmitted frames are numbered in the order of encoding,       *)
(* received ones in the order of arrival.                                  *)
(***************************************************************************)
EXTENDS Naturals, Sequences

CONSTANTS AssertsEnabled,  \* is the driver built with assert()?
          MaxChunks,       \* bound: frames of one message
          MaxFrames,       \* bound: frames encoded
          MaxArrivals,     \* bound: frames the bus brings
          FifoSize,        \* elements of RX FIFO 0
          MaxRegistrations,  \* bound: registrations of an error callback
          Unregistering      \* those that pass NULL

ASSUME AssertsAssumption == AssertsEnabled \in BOOLEAN
ASSUME BoundsAssumption == /\ MaxChunks \in Nat
                           /\ MaxFrames \in Nat
                           /\ MaxArrivals \in Nat
                           /\ FifoSize \in Nat \ {0}
                           /\ MaxRegistrations \in Nat

VARIABLES
  txPc,         \* where the sender is; "fatal": an assertion has failed
  chunks,       \* chunks of the message still to encode
  frame,        \* number of the frame encoded last
  txSemaphore,  \* m_tx_semaphore, 1 = available
  txBuffer,     \* frame pending in TX buffer 0, 0 = none
  tc,           \* interrupt flag: transmission completed
  bus,          \* history: frames transmitted
  rxPc,         \* where the poll task is
  rxSemaphore,  \* m_rx_semaphore, 1 = available
  rxFifo,       \* RX FIFO 0
  rf0n,         \* interrupt flag: new message in RX FIFO 0
  arrived,      \* number of frames the bus brought
  lost,         \* history: number of those that found the FIFO full
  received,     \* history: frames passed on by the poll task
  callback,     \* SamRH71RtemsCan_user_error_callback, by its registration
  argument,     \* SamRH71RtemsCan_user_error_callback_arg, likewise
  told,         \* history: the call that reported the latest error
  seen          \* what both were when the sender tested the callback

Error == INSTANCE ErrorCallback

senderVars == <<txPc, chunks, frame>>
callbackVars == <<callback, argument, told>>
errorVars == <<callbackVars, seen>>
pollVars == <<rxPc, received>>
rxUnitVars == <<rxFifo, rf0n, arrived, lost>>
txVars == <<senderVars, txSemaphore, txBuffer, tc, bus>>
rxVars == <<pollVars, rxSemaphore, rxUnitVars>>
vars == <<txVars, rxVars, errorVars>>

Init == /\ txPc = "idle" /\ chunks = 0 /\ frame = 0
        /\ txSemaphore = 0 /\ txBuffer = 0 /\ tc = FALSE /\ bus = <<>>
        /\ rxPc = "obtain" /\ rxSemaphore = 0
        /\ rxFifo = <<>> /\ rf0n = FALSE /\ arrived = 0 /\ lost = 0
        /\ received = <<>>
        /\ Error!Init /\ seen = Error!NoCall

(* A failed assertion stops the program; without asserts it goes on.       *)
Running == txPc # "fatal"
Assert(condition, next) ==
  txPc' = IF AssertsEnabled /\ ~condition THEN "fatal" ELSE next

-----------------------------------------------------------------------------
(* SamRH71RtemsCanSend.                                                    *)

Send(n) == /\ txPc = "idle"
           /\ frame + n <= MaxFrames
           /\ chunks' = n
           /\ txPc' = "encode"
           /\ UNCHANGED <<frame, txSemaphore, txBuffer, tc, bus, rxVars, errorVars>>

EncodeTooMany == /\ txPc = "encode"                      \* mutant of Encode
                 /\ txPc' = "add" /\ chunks' = chunks - 1 /\ frame' = frame + 1
                 /\ UNCHANGED <<txSemaphore, txBuffer, tc, bus, rxVars, errorVars>>

(* The next chunk, until the encoder has none left.                        *)
Encode == /\ txPc = "encode"
          /\ IF chunks = 0
               THEN txPc' = "idle" /\ UNCHANGED <<chunks, frame>>
               ELSE txPc' = "add" /\ chunks' = chunks - 1 /\ frame' = frame + 1
          /\ UNCHANGED <<txSemaphore, txBuffer, tc, bus, rxVars, errorVars>>

(* Mcan_txBufferAdd into buffer 0 is refused while the buffer is pending.  *)
AddFrame == /\ txPc = "add"
            /\ txBuffer' = IF txBuffer = 0 THEN frame ELSE txBuffer
            /\ Assert(txBuffer = 0, "wait")
            /\ UNCHANGED <<chunks, frame, txSemaphore, tc, bus, rxVars, errorVars>>

ObtainTx == /\ txPc = "wait"
            /\ txSemaphore = 1
            /\ txSemaphore' = 0
            /\ txPc' = "check"
            /\ UNCHANGED <<chunks, frame, txBuffer, tc, bus, rxVars, errorVars>>

ErrorKept == UNCHANGED <<chunks, frame, txSemaphore, txBuffer, tc, bus, rxVars>>

NoTimeout == FALSE                                       \* mutant of Timeout
RetryTimeout == /\ txPc = "wait"                         \* mutant of Timeout
                /\ txSemaphore = 0
                /\ txPc' = "encode"
                /\ ErrorKept
                /\ UNCHANGED errorVars

(* SAMRH71_CAN_SEND_TIMEOUT ticks without a completion: the result, which  *)
(* is asserted, is false; before that the user is told if there is one.    *)
Timeout == /\ txPc = "wait"
           /\ txSemaphore = 0
           /\ IF Error!IsNull(callback)
                THEN Assert(FALSE, "encode") /\ UNCHANGED seen
                ELSE /\ txPc' = "report"
                     /\ seen' = Error!Call(callback, argument)
           /\ ErrorKept
           /\ UNCHANGED callbackVars

(* Calling NULL ends the program too.                                      *)
ReportError == /\ txPc = "report"
               /\ Error!ReportAfter(seen)
               /\ IF Error!IsNull(told'.function) THEN txPc' = "fatal"
                                                  ELSE Assert(FALSE, "encode")
               /\ seen' = Error!NoCall
               /\ ErrorKept

(* SamRH71RtemsCanRegisterUserErrorCallback.                               *)
RegisterCallback == /\ Running
                    /\ Error!Register
                    /\ UNCHANGED <<txVars, rxVars, seen>>

(* Mcan_txBufferIsTransmissionFinished(0), whose result is asserted.       *)
CheckFinished == /\ txPc = "check"
                 /\ Assert(txBuffer = 0, "encode")
                 /\ UNCHANGED <<chunks, frame, txSemaphore, txBuffer, tc, bus,
                                rxVars, errorVars>>

-----------------------------------------------------------------------------
(* SamRH71RtemsCanPoll.                                                    *)

ObtainRx == /\ Running
            /\ rxPc = "obtain"
            /\ rxSemaphore = 1
            /\ rxSemaphore' = 0
            /\ rxPc' = "status"
            /\ UNCHANGED <<received, rxUnitVars, txVars, errorVars>>

(* Mcan_getRxFifoStatus: go on pulling, or wait for the next wake-up.      *)
ReadStatus == /\ Running
              /\ rxPc = "status"
              /\ rxPc' = IF rxFifo = <<>> THEN "obtain" ELSE "pull"
              /\ UNCHANGED <<received, rxSemaphore, rxUnitVars, txVars, errorVars>>

(* Mcan_rxFifoPull, then the frame is decoded or given to the Broker.      *)
PullAnd(passedOn) == /\ Running
                     /\ rxPc = "pull"
                     /\ received' = passedOn
                     /\ rxFifo' = Tail(rxFifo)
                     /\ rxPc' = "status"
                     /\ UNCHANGED <<rxSemaphore, rf0n, arrived, lost, txVars,
                                    errorVars>>

PullDropping == PullAnd(received)                        \* mutant of Pull

Pull == PullAnd(Append(received, Head(rxFifo)))

-----------------------------------------------------------------------------
(* The MCAN controller and the interrupt handler.                          *)

Transmit == /\ Running
            /\ txBuffer # 0
            /\ bus' = Append(bus, txBuffer)
            /\ txBuffer' = 0
            /\ tc' = TRUE
            /\ UNCHANGED <<senderVars, txSemaphore, rxVars, errorVars>>

(* RX FIFO 0 is in blocking mode: a frame that finds it full is lost.      *)
Arrive == /\ Running
          /\ arrived < MaxArrivals
          /\ arrived' = arrived + 1
          /\ IF Len(rxFifo) < FifoSize
               THEN /\ rxFifo' = Append(rxFifo, arrived + 1)
                    /\ rf0n' = TRUE
                    /\ UNCHANGED lost
               ELSE lost' = lost + 1 /\ UNCHANGED <<rxFifo, rf0n>>
          /\ UNCHANGED <<pollVars, rxSemaphore, txVars, errorVars>>

(* mcan_int0_Handler: the flags are read and cleared together; each one    *)
(* that was set releases its (binary) semaphore.                           *)
Release(rx, tx) == /\ Running
                   /\ rf0n \/ tc
                   /\ rf0n' = FALSE
                   /\ tc' = FALSE
                   /\ rxSemaphore' = IF rx THEN 1 ELSE rxSemaphore
                   /\ txSemaphore' = IF tx THEN 1 ELSE txSemaphore
                   /\ UNCHANGED <<senderVars, txBuffer, bus, pollVars, rxFifo,
                                  arrived, lost, errorVars>>

BothAlways == Release(TRUE, TRUE)                        \* mutant of the handler
TxElseRx == Release(rf0n /\ ~tc, tc)                     \* mutant of the handler

mcan_int0_Handler == Release(rf0n, tc)

Sender == Encode \/ AddFrame \/ ObtainTx \/ Timeout \/ ReportError
          \/ CheckFinished
Poll == ObtainRx \/ ReadStatus \/ Pull

Next == \/ Sender \/ Poll \/ Transmit \/ Arrive \/ mcan_int0_Handler
        \/ RegisterCallback
        \/ \E n \in 1..MaxChunks : Send(n)

Spec == Init /\ [][Next]_vars

(* Tasks and the interrupt are not starved; the bus may be silent or dead. *)
FairSpec == Spec /\ WF_vars(Sender) /\ WF_vars(Poll) /\ WF_vars(mcan_int0_Handler)

-----------------------------------------------------------------------------
(* Properties.                                                             *)

(* Types of the driver's fields and of the controller's state.             *)
TypeOK == /\ txPc \in {"idle", "encode", "add", "wait", "report", "check", "fatal"}
          /\ chunks \in 0..MaxChunks
          /\ frame \in 0..MaxFrames
          /\ txSemaphore \in {0, 1}
          /\ txBuffer \in 0..frame
          /\ tc \in BOOLEAN
          /\ bus \in Seq(1..MaxFrames)
          /\ rxPc \in {"obtain", "status", "pull"}
          /\ rxSemaphore \in {0, 1}
          /\ rxFifo \in Seq(1..MaxArrivals) /\ Len(rxFifo) <= FifoSize
          /\ rf0n \in BOOLEAN
          /\ arrived \in 0..MaxArrivals
          /\ lost \in 0..arrived
          /\ received \in Seq(1..MaxArrivals)
          /\ Error!CallbackTypeOK
          /\ seen \in [function : 0..callback, argument : 0..argument]

(* "We send one frame per chunk until the encoder signals completion"      *)
(* (source line 800): whenever the next chunk is asked for, the frames of  *)
(* all chunks before are on the bus, in order and each once.               *)
OneFramePerChunk == txPc \in {"idle", "encode"} => bus = [i \in 1..frame |-> i]

(* With asserts, Send is a synchronous ordered path to the bus: a step is  *)
(* a call, the next frame or a return, and the return finds every frame of *)
(* the message on the bus.                                                 *)
Path == INSTANCE OrderedPath
          WITH synchronous <- TRUE,
               open <- txPc # "idle",
               offered <- [i \in 1..(frame + chunks) |-> i],
               delivered <- bus
SendsInOrder == Path!Spec

(* Completions match frames: none of an earlier frame is left, as          *)
(* semaphore or flag, that the wait for the next frame would take for its  *)
(* own, and a sender that is woken finds its frame transmitted, so that    *)
(* only a timeout can make the assertion on the result fail.               *)
NoStaleCompletion ==
  /\ txPc \in {"idle", "encode", "add"} => txBuffer = 0 /\ ~tc /\ txSemaphore = 0
  /\ txPc = "check" => txBuffer = 0 /\ bus # <<>> /\ bus[Len(bus)] = frame

(* Wake-ups match frames: the poll task never goes to sleep on a frame     *)
(* (while the FIFO holds one it is draining it or a wake-up is on its way),*)
(* and it never pulls from an empty FIFO (asserted).                       *)
NoLostWakeup ==
  /\ rxFifo # <<>> => rf0n \/ rxSemaphore = 1 \/ rxPc \in {"status", "pull"}
  /\ rxPc = "pull" => rxFifo # <<>>

(* Frames are passed on once and in the order of arrival, and every frame  *)
(* that the bus brought is passed on, waits in the FIFO, or has found the  *)
(* FIFO full.                                                              *)
ReceivedInOrder ==
  LET stored == received \o rxFifo
  IN  /\ \A i \in 1..(Len(stored) - 1) : stored[i] < stored[i + 1]
      /\ Len(stored) + lost = arrived

(* Send returns or the program is stopped, also when the bus is dead.      *)
SendReturns == txPc # "idle" ~> txPc \in {"idle", "fatal"}

(* "Argument which shall be passed when calling callback function" (header *)
(* line 157): the function a timeout is reported to is one that has been   *)
(* registered, and gets the argument it was registered with.               *)
ErrorCallAsRegistered ==
  told # Error!NoCall
    => ~Error!IsNull(told.function) /\ told.argument = told.function

(* A stored frame reaches the Broker unless the program is stopped.        *)
EveryFramePassedOn ==
  \A n \in 1..MaxArrivals : Len(received \o rxFifo) >= n
                              ~> Len(received) >= n \/ ~Running

(* Both directions go on: no call of Send and no stored frame is forgotten.*)
Progress == SendReturns /\ EveryFramePassedOn
=============================================================================
