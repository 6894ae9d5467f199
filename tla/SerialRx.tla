------------------------------ MODULE SerialRx ------------------------------
(***************************************************************************)
(* The receive path of the serial driver (samrh71_rtems_serial.c): the     *)
(* UART interrupt that puts bytes into the RX FIFO and, on a target        *)
(* character or a target length, sends the poll task an event; and the     *)
(* poll task that takes all the FIFO holds and passes it on.  Events are   *)
(* not counted: sending one that is pending changes nothing.               *)
(*                                                                         *)
(* A byte is known by its position in `arrived`, which keeps whether it is *)
(* the target character (STOP_BYTE, or the configured escape byte).        *)
(***************************************************************************)
EXTENDS Naturals, Sequences, FiniteSets

CONSTANTS Modes,      \* configurations: "single", "custom", "escaped"
          FifoSize,   \* Serial_SAMRH71_RTEMS_RECV_BUFFER_SIZE
          MaxBytes,   \* bound: bytes that arrive
          MaxRegistrations,  \* bound: registrations of an error callback
          Unregistering      \* those that pass NULL

ASSUME ModesAssumption == Modes \subseteq {"single", "custom", "escaped"}
ASSUME FifoAssumption == FifoSize \in Nat /\ FifoSize >= 2
ASSUME MaxBytesAssumption == MaxBytes \in Nat
ASSUME RegistrationsAssumption == MaxRegistrations \in Nat

VARIABLES
  mode,     \* m_packetizer_mode
  pc,       \* where the poll task is
  event,    \* UART_RX_EVENT is pending
  rxFifo,   \* rxFifo over m_fifo_memory_block
  batch,    \* m_recv_buffer: what the task has taken from the FIFO
  arrived,  \* history: for each byte, is it the target character?
  lost,     \* history: bytes that found the FIFO full
  passed,   \* history: bytes given to the Broker (raw) or the Escaper
  callback, \* Samrh71RtemsSerial_user_uart_error_callback, by its registration
  argument, \* Samrh71RtemsSerial_user_uart_error_callback_arg, likewise
  told      \* history: the call that reported the latest error

Error == INSTANCE ErrorCallback

uartVars == <<rxFifo, arrived, lost>>
errorVars == <<callback, argument, told>>
rxVars == <<mode, pc, event, batch, passed, uartVars>>
vars == <<rxVars, errorVars>>

Init == /\ mode \in Modes
        /\ pc = "wait"
        /\ event = FALSE
        /\ rxFifo = <<>>
        /\ batch = <<>>
        /\ arrived = <<>>
        /\ lost = {}
        /\ passed = <<>>
        /\ Error!Init

WholeFifo == FifoSize + 1                          \* mutant of targetLength

(* m_uart_rx_handler: in single-byte mode no character is looked for.      *)
targetLength == IF mode = "single" THEN 1 ELSE FifoSize \div 2
NoCharacter(isTarget) == FALSE                     \* mutant of matches
matches(isTarget) == isTarget /\ mode # "single"

-----------------------------------------------------------------------------
(* The UART interrupt takes one byte.                                      *)
ReceiveByte(isTarget) ==
  /\ Len(arrived) < MaxBytes
  /\ arrived' = Append(arrived, isTarget)
  /\ IF Len(rxFifo) < FifoSize
       THEN /\ rxFifo' = Append(rxFifo, Len(arrived'))
            /\ lost' = lost
       ELSE /\ rxFifo' = rxFifo
            /\ lost' = lost \cup {Len(arrived')}
  /\ event' = (event \/ matches(isTarget) \/ Len(rxFifo') >= targetLength)
  /\ UNCHANGED <<mode, pc, batch, passed, errorVars>>

(* rtems_event_receive: waits for the event and clears it.                 *)
ReceiveEvent == /\ pc = "wait"
                /\ event
                /\ event' = FALSE
                /\ pc' = "read"
                /\ UNCHANGED <<mode, batch, passed, uartVars, errorVars>>

Take(bytes, rest) == /\ pc = "read"
                     /\ batch' = bytes
                     /\ rxFifo' = rest
                     /\ pc' = "pass"
                     /\ UNCHANGED <<mode, event, arrived, lost, passed, errorVars>>

TakeOne == Take(SubSeq(rxFifo, 1, 1), SubSeq(rxFifo, 2, Len(rxFifo)))
                                                   \* mutant of ReadFifo
TakeKeeping == Take(rxFifo, rxFifo)                \* mutant of ReadFifo

(* Uart_readRxFifo takes everything, whatever the event was sent for.      *)
ReadFifo == Take(rxFifo, <<>>)

(* One Broker call per byte, or one call of the decoder for all of them.   *)
(* The buffer is given a new, empty ByteFifo before it is used again.      *)
PassAnd(rest) == /\ pc = "pass"
                 /\ passed' = passed \o batch
                 /\ batch' = rest
                 /\ pc' = "wait"
                 /\ UNCHANGED <<mode, event, uartVars, errorVars>>

PassKeeping == PassAnd(batch)                      \* mutant of PassOn

PassOn == PassAnd(<<>>)

Poll == ReceiveEvent \/ ReadFifo \/ PassOn

-----------------------------------------------------------------------------
(* uartErrorHandler, called by the UART interrupt at any time.             *)

uartErrorHandler == Error!ReportAtOnce /\ UNCHANGED rxVars

(* Samrh71RtemsSerialRegisterUserUartErrorCallback.                        *)
RegisterCallback == Error!Register /\ UNCHANGED rxVars

Next == \/ Poll
        \/ uartErrorHandler \/ RegisterCallback
        \/ \E isTarget \in BOOLEAN : ReceiveByte(isTarget)

Spec == Init /\ [][Next]_vars

(* The poll task has priority 1 and is not starved; bytes need not come.   *)
FairSpec == Spec /\ WF_vars(Poll)

-----------------------------------------------------------------------------
(* Properties.                                                             *)

(* Types of the driver's fields; a batch is at hand only to be passed on.  *)
TypeOK == /\ mode \in Modes
          /\ pc \in {"wait", "read", "pass"}
          /\ event \in BOOLEAN
          /\ rxFifo \in Seq(1..MaxBytes) /\ Len(rxFifo) <= FifoSize
          /\ batch \in Seq(1..MaxBytes) /\ Len(batch) <= FifoSize
          /\ batch # <<>> => pc = "pass"
          /\ arrived \in Seq(BOOLEAN) /\ Len(arrived) <= MaxBytes
          /\ lost \subseteq 1..MaxBytes
          /\ passed \in Seq(1..MaxBytes)
          /\ Error!CallbackTypeOK

(* The task never goes to wait over a packet end or a full share of bytes  *)
(* left in the FIFO: the event that was not counted is not missed either.  *)
NoLostWakeup ==
  (\/ Len(rxFifo) >= targetLength
   \/ mode # "single" /\ \E i \in DOMAIN rxFifo : arrived[rxFifo[i]])
    => event \/ pc = "read"

(* Bytes are passed on in the order of arrival, none twice, and none is    *)
(* missing but those that found the FIFO full.                             *)
PassedInOrder ==
  LET stored == passed \o batch \o rxFifo
  IN  /\ \A i, j \in DOMAIN stored : i < j => stored[i] < stored[j]
      /\ Len(stored) + Cardinality(lost) = Len(arrived)

(* A byte is lost only when the poll task has been notified and has let    *)
(* the rest of the FIFO fill up: the threshold leaves it that time.        *)
LossOnlyWhenNotified == [][lost' # lost => event \/ pc = "read"]_vars

(* A stored target character, and in single-byte mode every stored byte,   *)
(* reaches the application or the decoder.                                 *)
TriggersArePassed ==
  \A n \in 1..MaxBytes :
    (/\ n \in DOMAIN arrived /\ n \notin lost
     /\ mode = "single" \/ arrived[n]) ~> \E i \in DOMAIN passed : passed[i] = n
=============================================================================
