------------------------------- MODULE SpwRx -------------------------------
(***************************************************************************)
(* The receive path of the SpaceWire driver (samrh71_rtems_spw.c): the     *)
(* poll task that arms the only receive buffer, busy-waits until the RX    *)
(* unit confirms it, sleeps on the RX semaphore and forwards what arrived; *)
(* the RX unit that writes one packet into the buffer by DMA; and the      *)
(* interrupt handler.  Packets that find no buffer wait on the link        *)
(* (overrun policy Stall).                                                 *)
(*                                                                         *)
(* A packet is known by its position in `arrived`; the buffer's memory     *)
(* holds the number of the packet last written into it.  A packet that     *)
(* does not fit into the data buffer deactivates it without being counted. *)
(***************************************************************************)
EXTENDS Naturals, Sequences

CONSTANTS Packet,      \* kinds of packets on the link
          MaxPackets,  \* bound: packets the partner sends
          DataSize     \* SAMRH71_RTEMS_SPW_RX_DATA_SIZE

ASSUME PacketAssumption ==
         Packet \subseteq [length : Nat, eop : BOOLEAN, eep : BOOLEAN]
ASSUME MaxPacketsAssumption == MaxPackets \in Nat
ASSUME DataSizeAssumption == DataSize \in Nat

VARIABLES
  pc,              \* where the poll task is
  rxSemaphore,     \* rx_semaphore, 1 = available
  remove_prot_id,  \* configuration: strip the first byte
  buffer,          \* the RX unit's buffer: "none", "next" or "active"
  irqPending,      \* ReceivedBufferDeactivated raised, not yet handled
  memory,          \* number of the packet in rx_info and rx_data, 0 at first
  arrived,         \* history: the packets the partner put on the link
  delivered        \* history: the calls of Broker_receive_packet

taskVars == <<pc, rxSemaphore, remove_prot_id, delivered>>
unitVars == <<buffer, irqPending, memory, arrived>>
vars == <<taskVars, unitVars>>

Init == /\ pc = "arm"
        /\ rxSemaphore = 0
        /\ remove_prot_id \in BOOLEAN
        /\ buffer = "none"
        /\ irqPending = FALSE
        /\ memory = 0
        /\ arrived = <<>>
        /\ delivered = <<>>

-----------------------------------------------------------------------------
(* The poll task.                                                          *)

(* Move from one place to the next, touching nothing else.                 *)
Go(from, to) == /\ pc = from
                /\ pc' = to
                /\ UNCHANGED <<rxSemaphore, remove_prot_id, delivered>>

(* Spw_Rx_setNextRxBuffer with StartNow.                                   *)
Arm == /\ Go("arm", "spin")
       /\ buffer' = "next"
       /\ UNCHANGED <<irqPending, memory, arrived>>

(* The busy wait reads the current status and ends when it is active.  The *)
(* unit does not wait for it: it may have come and gone.                   *)
SpinEnds == buffer = "active" /\ Go("spin", "wait") /\ UNCHANGED unitVars

WaitTimesOut == Go("wait", "process") /\ UNCHANGED unitVars
                                          \* mutant of WaitForDeactivation

WaitForDeactivation == /\ pc = "wait"
                       /\ rxSemaphore = 1
                       /\ rxSemaphore' = 0
                       /\ pc' = "process"
                       /\ UNCHANGED <<remove_prot_id, delivered, unitVars>>

(* prevStatus.receivedPackets of a buffer of one entry.                    *)
ReceivedPackets(p) == IF p.length <= DataSize THEN 1 ELSE 0

CompleteNoEep(p) == p.eop                               \* mutant of Complete
Complete(p) == p.eop /\ ~p.eep

(* What is left of a packet after the protocol identifier: the first byte  *)
(* kept and the number of bytes; a packet without bytes is not forwarded.  *)
First == IF remove_prot_id THEN 1 ELSE 0
ForwardEmpty(p) == ReceivedPackets(p) = 1 /\ Complete(p) /\ p.length >= First
                                                        \* mutant of ToForward
ToForward(p) == ReceivedPackets(p) = 1 /\ Complete(p) /\ p.length > First
Payload(id) == [id |-> id, first |-> First, length |-> arrived[id].length - First]

(* The status and, if a packet is counted, its entry are read; the entry   *)
(* is checked and reduced to a pointer and a length.                       *)
ProcessEntry ==
  /\ Go("process", IF ToForward(arrived[memory]) THEN "forward" ELSE "arm")
  /\ UNCHANGED unitVars

(* Broker_receive_packet reads the bytes where they are, in rx_data.       *)
Forward == /\ pc = "forward"
           /\ delivered' = Append(delivered, Payload(memory))
           /\ pc' = "arm"
           /\ UNCHANGED <<rxSemaphore, remove_prot_id, unitVars>>

-----------------------------------------------------------------------------
(* The link partner, the RX unit and the interrupt handler.                *)

Arrive(p) == /\ Len(arrived) < MaxPackets
             /\ arrived' = Append(arrived, p)
             /\ UNCHANGED <<taskVars, buffer, irqPending, memory>>

Activate == /\ buffer = "next"
            /\ buffer' = "active"
            /\ UNCHANGED <<taskVars, irqPending, memory, arrived>>

(* The oldest packet on the link goes to memory; the buffer has room for   *)
(* one packet, so the unit deactivates it.                                 *)
ReceivePacket == /\ memory < Len(arrived)
                 /\ buffer = "active"
                 /\ memory' = memory + 1
                 /\ buffer' = "none"
                 /\ irqPending' = TRUE
                 /\ UNCHANGED <<taskVars, arrived>>

(* spw_rx_callback; nothing reads the flag rx_deactivated it also sets.    *)
HandleIrq(sem) == /\ irqPending
                  /\ irqPending' = FALSE
                  /\ rxSemaphore' = sem
                  /\ UNCHANGED <<pc, remove_prot_id, delivered, buffer, memory,
                                 arrived>>

RxCallbackNoRelease == HandleIrq(rxSemaphore)           \* mutant of RxCallback

RxCallback == HandleIrq(1)

Poll == Arm \/ SpinEnds \/ WaitForDeactivation \/ ProcessEntry \/ Forward
Unit == Activate \/ ReceivePacket

Next == Poll \/ Unit \/ RxCallback \/ \E p \in Packet : Arrive(p)

Spec == Init /\ [][Next]_vars

(* The poll task has priority 1 and is never starved; the RX unit and the  *)
(* interrupt keep working.  The partner need not send anything.            *)
FairSpec == Spec /\ WF_vars(Poll) /\ WF_vars(Unit) /\ WF_vars(RxCallback)

-----------------------------------------------------------------------------
(* Properties.                                                             *)

(* Types of the driver's fields and of the RX unit's state.                *)
TypeOK == /\ pc \in {"arm", "spin", "wait", "process", "forward"}
          /\ rxSemaphore \in {0, 1}
          /\ remove_prot_id \in BOOLEAN
          /\ buffer \in {"none", "next", "active"}
          /\ irqPending \in BOOLEAN
          /\ memory \in 0..Len(arrived)
          /\ arrived \in Seq(Packet)
          /\ delivered \in Seq([id : Nat, first : {0, 1}, length : Nat \ {0}])

(* While the task examines and forwards a packet the RX unit has no buffer *)
(* to write to, and no old wake-up is left that would let the task process *)
(* a buffer it has not got yet.                                            *)
MemoryStable == pc \in {"arm", "process", "forward"}
                  => buffer = "none" /\ ~irqPending /\ rxSemaphore = 0

(* A packet is in memory and the task has not dealt with it yet.           *)
Unprocessed == irqPending \/ rxSemaphore = 1 \/ pc \in {"process", "forward"}
Processed == IF Unprocessed THEN memory - 1 ELSE memory

(* The Broker gets every complete, non-empty packet that fits and has been *)
(* dealt with, whole, once and in the order of arrival, and nothing else.  *)
ForwardedExactly ==
  LET expected == {i \in 1..Processed : /\ arrived[i].eop /\ ~arrived[i].eep
                                        /\ arrived[i].length > First
                                        /\ arrived[i].length <= DataSize}
  IN  /\ \A i \in expected : \E j \in DOMAIN delivered : delivered[j] = Payload(i)
      /\ \A j \in DOMAIN delivered : delivered[j].id \in expected
      /\ \A j, k \in DOMAIN delivered : j < k => delivered[j].id < delivered[k].id

(* The busy wait has missed the activation: a packet that was already on   *)
(* the link has filled the buffer before the status was read, and nothing  *)
(* will activate it again.                                                 *)
Missed == pc = "spin" /\ buffer = "none"

(* "Arms the RX DMA buffer, waits for deactivation, extracts packets and   *)
(* forwards each payload to Broker.  Loops indefinitely." (header line 96) *)
(* Every packet that arrives is dealt with, and the only thing that can    *)
(* keep the loop from it is a missed activation.                           *)
EveryPacketProcessed ==
  \A i \in 1..MaxPackets : Len(arrived) >= i ~> Processed >= i \/ Missed
=============================================================================
