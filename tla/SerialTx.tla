------------------------------ MODULE SerialTx ------------------------------
(***************************************************************************)
(* The transmit path of the serial driver (samrh71_rtems_serial.c) in its  *)
(* four configurations: raw or escaped packets, written byte by byte       *)
(* (blocking) or by the UART interrupt from a FIFO laid over the buffer to *)
(* send (asynchronous).  Calls of Samrh71RtemsSerialSend follow each other *)
(* (the Broker serialises them); what runs concurrently is the interrupt.  *)
(*                                                                         *)
(* A byte is known by its message and its position in it; the Escaper is   *)
(* external and only cuts a message into pieces of at most EncodedSize.    *)
(***************************************************************************)
EXTENDS Naturals, Sequences

CONSTANTS Configurations,  \* <<packetizer mode, tx mode>> of the instances
          MaxMessages,     \* bound: calls of Samrh71RtemsSerialSend
          MaxLength,       \* bound: bytes in a message
          EncodedSize,     \* size of m_encoded_packet_buffer
          LengthModulus,   \* 2^16: a uint16_t holds a length modulo this
          AssertsEnabled   \* is the driver built with assert()?

ASSUME ConfigurationsAssumption ==
         Configurations \subseteq {"raw", "escaped"} \X {"blocking", "async"}
ASSUME BoundsAssumption == /\ MaxMessages \in Nat
                           /\ MaxLength \in Nat
                           /\ EncodedSize \in Nat \ {0}
(* No message of the Broker (BROKER_BUFFER_SIZE) is longer than that.      *)
ASSUME LengthAssumption == LengthModulus \in Nat /\ MaxLength < LengthModulus
ASSUME AssertsAssumption == AssertsEnabled \in BOOLEAN

VARIABLES
  configuration,  \* <<m_packetizer_mode, m_tx_mode>>
  pc,             \* where the caller is in Samrh71RtemsSerialSend; "fatal": an
                  \* assertion has failed
  message,        \* number of the current message, kept in a buffer of its own
  length,         \* its length
  index,          \* bytes of it the Escaper has encoded
  encoded,        \* m_encoded_packet_buffer
  size,           \* bytes of the buffer to be written now
  written,        \* bytes of it written by uartWriteBlocking
  txSemaphore,    \* m_tx_semaphore, 1 = available
  txFifo,         \* txFifo: the buffer it lies over, next byte, byte count
  sent,           \* history: the bytes that Send was asked to send
  wire            \* history: the bytes that left the UART

callVars == <<configuration, message, length, index, encoded, size>>
vars == <<callVars, pc, written, txSemaphore, txFifo, sent, wire>>

raw == configuration[1] = "raw"
blocking == configuration[2] = "blocking"

Byte(m, i) == [message |-> m, byte |-> i]
NoByte == Byte(0, 0)

(* Buffers: a message's own, by its number, or the encoded packet buffer.  *)
None == MaxMessages + 1
Encoded == 0
Stopped == [from |-> None, next |-> 1, count |-> 0]

(* The buffer that is being sent and what a buffer holds at position i.    *)
Source == IF raw THEN message ELSE Encoded
Memory(from, i) == IF from = Encoded THEN encoded[i] ELSE Byte(from, i)

Init == /\ configuration \in Configurations
        /\ pc = "idle"
        /\ message = 0
        /\ length = 0
        /\ index = 0
        /\ encoded = [i \in 1..EncodedSize |-> NoByte]
        /\ size = 0
        /\ written = 0
        /\ txSemaphore = 1
        /\ txFifo = Stopped
        /\ sent = <<>>
        /\ wire = <<>>

-----------------------------------------------------------------------------
(* Samrh71RtemsSerialSend.                                                 *)

WriteStep == IF blocking THEN "write" ELSE "wait"

(* In raw mode the message is sent from the caller's buffer, which the     *)
(* caller leaves alone until then: a new message has a buffer of its own.  *)
(* The functions that write take the length as a uint16_t.                 *)
uint16(n) == n % LengthModulus

Send(n) == /\ pc = "idle"
           /\ message < MaxMessages
           /\ message' = message + 1
           /\ length' = n
           /\ index' = 0
           /\ size' = IF raw THEN uint16(n) ELSE 0
           /\ pc' = IF raw THEN WriteStep ELSE "encode"
           /\ sent' = sent \o [i \in 1..n |-> Byte(message + 1, i)]
           /\ UNCHANGED <<configuration, encoded, written, txSemaphore, txFifo,
                          wire>>

WholeBuffer == EncodedSize                               \* mutant of Piece
Piece == IF length - index < EncodedSize THEN length - index ELSE EncodedSize

(* Escaper_encode_packet writes the next piece into the encoded buffer.    *)
Encode == /\ pc = "encode"
          /\ index < length
          /\ encoded' = [i \in 1..EncodedSize |->
                           IF i <= Piece THEN Byte(message, index + i)
                                         ELSE encoded[i]]
          /\ size' = Piece
          /\ index' = index + Piece
          /\ pc' = WriteStep
          /\ UNCHANGED <<configuration, message, length, written, txSemaphore,
                         txFifo, sent, wire>>

(* The loop ends when all is encoded, for an empty message before it began.*)
EncodeDone == /\ pc = "encode"
              /\ index = length
              /\ pc' = "idle"
              /\ UNCHANGED <<callVars, written, txSemaphore, txFifo, sent, wire>>

(* After a buffer is handed over, escaped mode goes back to its loop.      *)
AfterWrite == IF raw THEN "idle" ELSE "encode"

WriteTooFar == /\ pc = "write"                           \* mutant of WriteByte
               /\ written <= size
               /\ written' = written + 1
               /\ wire' = Append(wire, Memory(Source, written + 1))
               /\ UNCHANGED <<callVars, pc, txSemaphore, txFifo, sent>>

(* Uart_write of the next byte.                                            *)
WriteByte == /\ pc = "write"
             /\ written < size
             /\ written' = written + 1
             /\ wire' = Append(wire, Memory(Source, written + 1))
             /\ UNCHANGED <<callVars, pc, txSemaphore, txFifo, sent>>

(* Uart_write gives up after UART_BLOCKING_WRITE_TIMEOUT, and the byte is  *)
(* not sent; the error code is asserted.  Without asserts the loop goes on.*)
WriteTimesOut == /\ pc = "write"
                 /\ written < size
                 /\ IF AssertsEnabled
                      THEN pc' = "fatal" /\ UNCHANGED written
                      ELSE written' = written + 1 /\ UNCHANGED pc
                 /\ UNCHANGED <<callVars, txSemaphore, txFifo, sent, wire>>

WriteDone == /\ pc = "write"
             /\ written = size
             /\ written' = 0
             /\ pc' = AfterWrite
             /\ UNCHANGED <<callVars, txSemaphore, txFifo, sent, wire>>

NoWait == pc = "wait" /\ pc' = "start"                   \* mutant of Wait
          /\ UNCHANGED <<callVars, written, txSemaphore, txFifo, sent, wire>>

(* waitForTxSemaphore, without timeout.                                    *)
Wait == /\ pc = "wait"
        /\ txSemaphore = 1
        /\ txSemaphore' = 0
        /\ pc' = "start"
        /\ UNCHANGED <<callVars, written, txFifo, sent, wire>>

(* uartWriteAsync lays the FIFO over the buffer and starts the interrupt.  *)
Start == /\ pc = "start"
         /\ txFifo' = [from |-> Source, next |-> 1, count |-> size]
         /\ pc' = AfterWrite
         /\ UNCHANGED <<callVars, written, txSemaphore, sent, wire>>

-----------------------------------------------------------------------------
(* The UART interrupt: the FIFO's next byte, or, when there is none, the   *)
(* callback that ends the transmission.                                    *)

TransmitByte == /\ txFifo.next <= txFifo.count
                /\ wire' = Append(wire, Memory(txFifo.from, txFifo.next))
                /\ txFifo' = [txFifo EXCEPT !.next = @ + 1]
                /\ UNCHANGED <<callVars, pc, written, txSemaphore, sent>>

Callback(semaphore) == /\ txFifo.from # None
                       /\ txFifo.next > txFifo.count
                       /\ txFifo' = Stopped
                       /\ txSemaphore' = semaphore
                       /\ UNCHANGED <<callVars, pc, written, sent, wire>>

TxCallbackNoRelease == Callback(txSemaphore)             \* mutant of TxCallback

(* uartTxCallback.                                                         *)
TxCallback == Callback(1)

Caller == \/ Encode \/ EncodeDone
          \/ WriteByte \/ WriteTimesOut \/ WriteDone
          \/ Wait \/ Start
Uart == TransmitByte \/ TxCallback

Next == Caller \/ Uart \/ \E n \in 0..MaxLength : Send(n)

Spec == Init /\ [][Next]_vars

(* The caller is not starved, and a UART without flow control always sends.*)
FairSpec == Spec /\ WF_vars(Caller) /\ WF_vars(Uart)

-----------------------------------------------------------------------------
(* Properties.                                                             *)

(* Types of the driver's fields and of the UART's FIFO.                    *)
TypeOK ==
  /\ configuration \in Configurations
  /\ pc \in {"idle", "encode", "write", "wait", "start", "fatal"}
  /\ message \in 0..MaxMessages
  /\ length \in 0..MaxLength
  /\ index \in 0..length
  /\ encoded \in [1..EncodedSize -> [message : 0..MaxMessages, byte : 0..MaxLength]]
  /\ size \in 0..MaxLength
  /\ written \in 0..size
  /\ txSemaphore \in {0, 1}
  /\ txFifo \in [from : 0..None, next : 1..(MaxLength + 1),
                 count : 0..MaxLength]
  /\ sent \in Seq([message : 1..MaxMessages, byte : 1..MaxLength])
  /\ wire \in Seq([message : 0..MaxMessages, byte : 0..MaxLength])

(* "Encode data with Escaper and send each encoded packet" (source line    *)
(* 958); "Send data to remote partition" (header line 122): the bytes that *)
(* leave are the bytes that were to be sent, in order, none skipped,       *)
(* repeated or overwritten while the interrupt was reading them.           *)
WireFaithful == /\ Len(wire) <= Len(sent)
                /\ \A i \in DOMAIN wire : wire[i] = sent[i]

(* The same, in every configuration but escaped packets sent asynchronously*)
(* (there the next piece is encoded over the one being sent).  In blocking *)
(* mode it takes the assertion on the error code to keep a byte that timed *)
(* out from being skipped.                                                 *)
WireFaithfulUnlessRefilled == raw \/ blocking => WireFaithful

(* In those configurations the path from Send to the wire is ordered: each *)
(* step is a call, the next byte or a return, and a blocking Send returns  *)
(* only when all its bytes have left.                                      *)
Path == INSTANCE OrderedPath
          WITH synchronous <- blocking,
               open <- pc # "idle",
               offered <- sent,
               delivered <- wire
SendsInOrder == Path!Init /\ [][raw \/ blocking => Path!Next]_(Path!pathVars)

(* The FIFO is set up only when the interrupt has finished the previous    *)
(* one, and the semaphore is away exactly from then until the callback:    *)
(* no transmission is cut off and no release is lost or left over.         *)
SemaphoreTracksFifo ==
  /\ pc = "start" => txFifo = Stopped
  /\ txSemaphore = 0 <=> pc = "start" \/ txFifo # Stopped

(* Every byte that Send was asked to send leaves, and every call returns,  *)
(* unless a timeout of the UART stops the program.                         *)
EverythingSent ==
  /\ \A n \in 1..(MaxMessages * MaxLength) :
       Len(sent) >= n ~> Len(wire) >= n \/ pc = "fatal"
  /\ pc # "idle" ~> pc \in {"idle", "fatal"}
=============================================================================
