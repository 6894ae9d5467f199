------------------------------- MODULE CanId -------------------------------
(***************************************************************************)
(* What the CAN driver (samrh71_can_generic.c) makes of a message: the     *)
(* choice between one frame and the Escaper, the identifier that is        *)
(* configured (static) or taken from the first four bytes of the message   *)
(* (dynamic), the frames, and the message the other side gives its Broker. *)
(* Two drivers with the same configuration bounce messages: what one side  *)
(* receives it may send back as it is.  Frames may be lost on the way: the *)
(* receiver's FIFO keeps only what it has room for.                        *)
(*                                                                         *)
(* A message is a sequence of bytes; in dynamic mode its first element is  *)
(* the 32-bit identifier word, which stands for WordSize bytes.  One that  *)
(* is too short for it, by a byte at least, is the empty sequence.         *)
(***************************************************************************)
EXTENDS Naturals, Sequences, FiniteSetsExt

CONSTANTS StandardIds,  \* number of 11-bit identifiers
          ExtendedIds,  \* number of 29-bit identifiers
          FrameSize,    \* MCAN_MAX_DATA_SIZE
          WordSize,     \* sizeof(uint32_t)
          MessageSizes, \* values of bus_message_size
          Data,         \* contents of a byte that need no escaping
          MaxHops       \* bound: messages sent

ASSUME IdsAssumption == /\ StandardIds \in Nat \ {0}
                        /\ ExtendedIds \in Nat
                        /\ StandardIds <= ExtendedIds
ASSUME SizesAssumption == /\ FrameSize \in Nat \ {0}
                          /\ WordSize \in Nat \ {0}
                          /\ MessageSizes \subseteq Nat
                          /\ Data \subseteq Nat \ {0, 1}
                          /\ MaxHops \in Nat

VARIABLES
  kind,         \* m_config->address.kind
  maxSize,      \* bus_message_size of the bus
  pc,           \* "idle", "sending", "fatal": an assertion has failed
  message,      \* the message in Send
  pending,      \* frames of it that are still to be sent
  bus,          \* the frame on the bus, if there is one
  lastFrames,   \* history: the frame received last, if there is one
  intact,       \* history: no frame of the message has been lost
  decoded,      \* Escaper: the message being received, from its start marker
  received,     \* the message the Broker received last, if there is one
  hops          \* messages sent

configuration == <<kind, maxSize>>
vars == <<configuration, pc, message, pending, bus, lastFrames, intact,
          decoded, received, hops>>

Start == 0
Stop == 1
StaticId == [idType |-> "extended", id |-> 0]
Dynamic == kind = "dynamic"

(* The identifier word: bit 29 marks extended, bits 30 and 31 are unused.  *)
Word == [unused : {0, 1}, extended : BOOLEAN, value : 0..(ExtendedIds - 1)]
Identifier == [idType : {"standard", "extended"}, id : 0..(ExtendedIds - 1)]

Size(m) == IF Dynamic THEN Len(m) - 1 + WordSize ELSE Len(m)

BytesUpTo(n) == UNION {[1..i -> Data] : i \in 0..n}
Messages == IF Dynamic
              THEN {<<w>> \o d : w \in Word, d \in BytesUpTo(maxSize - WordSize)}
              ELSE BytesUpTo(maxSize)
TooShort == IF Dynamic THEN {<<>>} ELSE {}

(* The configurations SamRH71RtemsCanInit accepts: its sanity check leaves *)
(* room for identifier, one length byte and a full frame; there is no lower*)
(* limit.                                                                  *)
MaxDynamicSize == FrameSize + WordSize + 1
Init == /\ kind \in {"static", "dynamic"}
        /\ maxSize \in MessageSizes
        /\ Dynamic => maxSize <= MaxDynamicSize
        /\ pc = "idle"
        /\ message = <<>>
        /\ pending = <<>>
        /\ bus = <<>>
        /\ lastFrames = <<>>
        /\ intact = TRUE
        /\ decoded = <<>>
        /\ received = <<>>
        /\ hops = 0

-----------------------------------------------------------------------------
(* SamRH71RtemsCanSend.                                                    *)

EscapeLate == ~Dynamic /\ maxSize > FrameSize + 1   \* mutant of shouldUseEscaper
shouldUseEscaper == ~Dynamic /\ maxSize > FrameSize

KeepValue(word) ==                                  \* mutant of getCanIdAndType
  [idType |-> IF word.extended THEN "extended" ELSE "standard", id |-> word.value]

(* getCanIdAndTypeFromMessageData.                                         *)
getCanIdAndType(word) ==
  IF word.extended THEN [idType |-> "extended", id |-> word.value]
                   ELSE [idType |-> "standard", id |-> word.value % StandardIds]

(* Escaper: the message between its markers, cut into full frames.         *)
Encoded(m) == <<Start>> \o m \o <<Stop>>
Chunk(s, i) == SubSeq(s, (i - 1) * FrameSize + 1,
                         IF i * FrameSize < Len(s) THEN i * FrameSize ELSE Len(s))
Chunks(s) == [i \in 1..((Len(s) + FrameSize - 1) \div FrameSize) |-> Chunk(s, i)]

Frames(m) ==
  IF Dynamic
    THEN <<[identifier |-> getCanIdAndType(Head(m)), data |-> Tail(m)]>>
    ELSE LET parts == IF shouldUseEscaper THEN Chunks(Encoded(m)) ELSE <<m>>
         IN  [i \in DOMAIN parts |-> [identifier |-> StaticId, data |-> parts[i]]]

(* In dynamic mode, it is asserted that the message has an identifier.     *)
Send(m) == /\ pc = "idle"
           /\ hops < MaxHops
           /\ hops' = hops + 1
           /\ message' = m
           /\ IF Dynamic /\ Size(m) < WordSize
                THEN pc' = "fatal" /\ pending' = <<>>
                ELSE pc' = "sending" /\ pending' = Frames(m)
           /\ received' = <<>>
           /\ intact' = TRUE
           /\ UNCHANGED <<configuration, bus, lastFrames, decoded>>

(* The application may send anything, or what it has received; messages    *)
(* are no larger than the bus allows (what losses have left of several may *)
(* be).                                                                    *)
SendNew == \E m \in Messages \cup TooShort : Send(m)
SendBack == /\ received # <<>>
            /\ Size(received[1]) <= maxSize
            /\ Send(received[1])

(* SamRH71RtemsCanSendFrame asserts the length of a frame.                 *)
SendFrame ==
  /\ pc = "sending"
  /\ pending # <<>>
  /\ bus = <<>>
  /\ IF Len(Head(pending).data) <= FrameSize
       THEN bus' = <<Head(pending)>> /\ pending' = Tail(pending) /\ UNCHANGED pc
       ELSE pc' = "fatal" /\ UNCHANGED <<bus, pending>>
  /\ UNCHANGED <<configuration, message, lastFrames, intact, decoded, received,
                 hops>>

Sent == /\ pc = "sending"
        /\ pending = <<>>
        /\ bus = <<>>
        /\ pc' = "idle"
        /\ UNCHANGED <<configuration, message, pending, bus, lastFrames,
                       intact, decoded, received, hops>>

-----------------------------------------------------------------------------
(* SamRH71RtemsCanPoll, on the other side.                                 *)

ForgetType(f) == [unused |-> 0, extended |-> FALSE, value |-> f.identifier.id]
                                                    \* mutant of WordOf

(* The word given to the Broker before the data, extended bit set again.   *)
WordOf(f) == [unused |-> 0, value |-> f.identifier.id,
              extended |-> f.identifier.idType = "extended"]

(* Escaper_decode_packet: a start marker begins a message, whatever was    *)
(* there before; bytes that no start marker precedes are dropped; a stop   *)
(* marker ends the message, so at most one message ends in a frame.        *)
Decode(buffer, data) ==
  LET all == buffer \o data
      starts == {i \in DOMAIN all : all[i] = Start}
  IN  IF starts = {} THEN <<>> ELSE SubSeq(all, Max(starts), Len(all))
Payload(buffer) == SubSeq(buffer, 2, Len(buffer) - 1)   \* between its markers
EndsMessage(data) == \E i \in DOMAIN data : data[i] = Stop

Received(f) == IF Dynamic THEN <<WordOf(f)>> \o f.data ELSE f.data

Deliver(f) ==
  IF shouldUseEscaper
    THEN LET buffer == Decode(decoded, f.data)
             ends == EndsMessage(f.data) /\ buffer # <<>>
         IN  /\ received' = IF ends THEN <<Payload(buffer)>> ELSE received
             /\ decoded' = IF ends THEN <<>> ELSE buffer
    ELSE received' = <<Received(f)>> /\ UNCHANGED decoded

Receive == /\ bus # <<>>
           /\ bus' = <<>>
           /\ lastFrames' = bus
           /\ Deliver(bus[1])
           /\ UNCHANGED <<configuration, pc, message, pending, intact, hops>>

(* A frame finds the receiver's FIFO full (or meets an error on the bus).  *)
Lose == /\ bus # <<>>
        /\ bus' = <<>>
        /\ intact' = FALSE
        /\ UNCHANGED <<configuration, pc, message, pending, lastFrames, decoded,
                       received, hops>>

Next == SendNew \/ SendBack \/ SendFrame \/ Sent \/ Receive \/ Lose

Spec == Init /\ [][Next]_vars

-----------------------------------------------------------------------------
(* Properties.                                                             *)

(* The word of a message without what a frame cannot carry.                *)
Normal(m) ==
  IF Dynamic
    THEN <<[unused |-> 0, extended |-> Head(m).extended,
            value |-> IF Head(m).extended THEN Head(m).value
                                          ELSE Head(m).value % StandardIds]>> \o Tail(m)
    ELSE m

(* Types; a frame never carries an identifier too long for its type.       *)
TypeOK == /\ kind \in {"static", "dynamic"}
          /\ maxSize \in MessageSizes
          /\ pc \in {"idle", "sending", "fatal"}
          /\ hops \in 0..MaxHops
          /\ \A i \in DOMAIN bus :
               /\ bus[i].identifier \in Identifier
               /\ bus[i].identifier.idType = "standard"
                    => bus[i].identifier.id < StandardIds

(* When Send has returned and no frame of this message has been lost, the  *)
(* other side has got the message: whole, once more the same bytes behind  *)
(* the same identifier and type, and without any part of an earlier        *)
(* message that was cut by a loss.  The assertions on the length stop the  *)
(* program only for a message in dynamic mode that has no identifier or    *)
(* more data than a frame holds.                                           *)
MessageArrives ==
  /\ pc = "idle" /\ hops > 0 /\ intact => received = <<Normal(message)>>
  /\ pc = "fatal" => Dynamic /\ \/ Size(message) < WordSize
                                \/ Size(message) > FrameSize + WordSize

(* "The extended-ID flag is re-set in the upper bits so the sender can     *)
(* reconstruct the type" (source line 702): a message that is sent back as *)
(* it was received goes in the frame it came in.                           *)
EchoKeepsFrame ==
  [][SendBack /\ Dynamic => pending' = lastFrames]_vars

(* "Using dynamic CAN ID is not supported when max message size is greater *)
(* than MCAN_MAX_DATA_SIZE + sizeof(uint32_t) + sizeof(uint8_t)" (source   *)
(* lines 620-623): up to that size a message that has an identifier can be *)
(* sent.                                                                   *)
AcceptedSizeIsSent == pc = "fatal" => Size(message) < WordSize
=============================================================================
