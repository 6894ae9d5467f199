---------------------------- MODULE SpwRx_proofs ----------------------------
(***************************************************************************)
(* Proofs about SpwRx, for any kinds and number of packets and any size of *)
(* the buffer, whether the busy wait sees the activation or misses it.     *)
(* A wake-up for the poll task exists in one place at most: as the buffer  *)
(* the RX unit has, as the pending interrupt, in the semaphore, or as the  *)
(* packet in the task's hands.                                             *)
(***************************************************************************)
EXTENDS SpwRx, TLAPS

(* Where the only receive buffer is.                                       *)
OneWakeUp ==
  /\ pc \in {"arm", "process", "forward"}
       => buffer = "none" /\ ~irqPending /\ rxSemaphore = 0
  /\ buffer # "none" => ~irqPending /\ rxSemaphore = 0
  /\ irqPending => rxSemaphore = 0

(* A packet that is still to be processed is in memory, and one that is    *)
(* about to be forwarded has passed the checks.                            *)
InMemory == /\ Unprocessed => memory >= 1
            /\ pc = "forward" => ToForward(arrived[memory])

Inv == TypeOK /\ OneWakeUp /\ InMemory

-----------------------------------------------------------------------------
(* The payload of a packet that is to be forwarded is not empty.           *)
LEMMA PayloadType ==
  ASSUME TypeOK, NEW i \in 1..Len(arrived), ToForward(arrived[i])
  PROVE  Payload(i) \in [id : Nat, first : {0, 1}, length : Nat \ {0}]
<1>1. arrived[i] \in Packet /\ arrived[i].length \in Nat
      BY PacketAssumption DEF TypeOK
<1>2. First \in {0, 1} /\ arrived[i].length > First
      BY DEF First, ToForward, TypeOK
<1> QED BY <1>1, <1>2 DEF Payload

(* The invariant holds at the start.                                       *)
LEMMA InitInv == Init => Inv
<1> SUFFICES ASSUME Init
             PROVE  Inv
    OBVIOUS
<1>1. /\ pc = "arm" /\ buffer = "none" /\ irqPending = FALSE
      /\ rxSemaphore = 0 /\ memory = 0 /\ arrived = <<>> /\ delivered = <<>>
      /\ remove_prot_id \in BOOLEAN
      BY DEF Init
<1>2. TypeOK
  <2>1. arrived \in Seq(Packet)
        BY <1>1
  <2>2. delivered \in Seq([id : Nat, first : {0, 1}, length : Nat \ {0}])
        BY <1>1
  <2>3. memory \in 0..Len(arrived)
        BY <1>1
  <2> QED BY <1>1, <2>1, <2>2, <2>3 DEF TypeOK
<1> QED BY <1>1, <1>2 DEF Inv, OneWakeUp, InMemory, Unprocessed

(* No step of the poll task, the RX unit, the interrupt handler or the     *)
(* link partner breaks it.                                                 *)
LEMMA NextInv == Inv /\ [Next]_vars => Inv'
<1> SUFFICES ASSUME Inv, [Next]_vars
             PROVE  Inv'
    OBVIOUS
<1> USE DEF Inv, TypeOK, OneWakeUp, InMemory, Unprocessed, ToForward,
            Complete, First, taskVars, unitVars, Go
<1>1. CASE Arm
      BY <1>1 DEF Arm
<1>2. CASE SpinEnds
      BY <1>2 DEF SpinEnds
<1>3. CASE WaitForDeactivation
      BY <1>3 DEF WaitForDeactivation
<1>4. CASE ProcessEntry
  <2>1. CASE ToForward(arrived[memory])
        BY <1>4, <2>1 DEF ProcessEntry
  <2>2. CASE ~ToForward(arrived[memory])
        BY <1>4, <2>2 DEF ProcessEntry
  <2> QED BY <2>1, <2>2
<1>5. CASE Forward
  <2>1. memory \in 1..Len(arrived) /\ ToForward(arrived[memory])
        BY <1>5 DEF Forward
  <2>2. Payload(memory) \in [id : Nat, first : {0, 1}, length : Nat \ {0}]
        BY <2>1, PayloadType
  <2> QED BY <1>5, <2>2 DEF Forward
<1>6. CASE Activate
      BY <1>6 DEF Activate
<1>7. CASE ReceivePacket
      BY <1>7 DEF ReceivePacket
<1>8. CASE RxCallback
      BY <1>8 DEF RxCallback, HandleIrq
<1>9. ASSUME NEW p \in Packet, Arrive(p)
      PROVE  Inv'
  <2>1. arrived' \in Seq(Packet) /\ Len(arrived') = Len(arrived) + 1
        BY <1>9 DEF Arrive
  <2>2. memory \in 1..Len(arrived) => arrived'[memory] = arrived[memory]
        BY <1>9 DEF Arrive
  <2> QED BY <1>9, <2>1, <2>2 DEF Arrive
<1>10. CASE UNCHANGED vars
      BY <1>10 DEF vars
<1> QED BY <1>1, <1>2, <1>3, <1>4, <1>5, <1>6, <1>7, <1>8, <1>9, <1>10
        DEF Next, Poll, Unit

(* Every reachable state satisfies it.                                     *)
LEMMA SpecInv == Spec => []Inv
  BY InitInv, NextInv, PTL DEF Spec

-----------------------------------------------------------------------------
(* Driver fields and unit state keep their types.                          *)
THEOREM TypeCorrect == Spec => []TypeOK
<1>1. Inv => TypeOK
      BY DEF Inv
<1> QED BY <1>1, SpecInv, PTL

(* The RX unit never writes a packet the poll task is still working on.    *)
THEOREM MemoryIsStable == Spec => []MemoryStable
<1>1. Inv => MemoryStable
      BY DEF Inv, OneWakeUp, MemoryStable
<1> QED BY <1>1, SpecInv, PTL

-----------------------------------------------------------------------------
(* The packets that must have been forwarded by now.                       *)
Expected == {i \in 1..Processed : ToForward(arrived[i])}

Exactly ==
  /\ \A i \in Expected : \E j \in DOMAIN delivered : delivered[j] = Payload(i)
  /\ \A j \in DOMAIN delivered : delivered[j].id \in Expected
  /\ \A j, k \in DOMAIN delivered : j < k => delivered[j].id < delivered[k].id

(* The Broker gets every whole, non-empty packet once, complete and in     *)
(* order, and nothing else.                                                *)
THEOREM ForwardsExactly == Spec => []ForwardedExactly
<1>1. Exactly <=> ForwardedExactly
  <2>1. \A p : ReceivedPackets(p) = 1 <=> p.length <= DataSize
        BY DEF ReceivedPackets
  <2> QED BY <2>1 DEF Exactly, Expected, ForwardedExactly, ToForward, Complete
<1>2. Init => Exactly
  <2> SUFFICES ASSUME Init
               PROVE  Exactly
      OBVIOUS
  <2>1. delivered = <<>> /\ Processed = 0
        BY DEF Init, Processed, Unprocessed
  <2> QED BY <2>1 DEF Exactly, Expected
<1>3. ASSUME Inv, Inv', Exactly, [Next]_vars
      PROVE  Exactly'
  <2> USE <1>3
  <2>1. ASSUME Processed' = Processed, UNCHANGED <<delivered, remove_prot_id>>,
               \A i \in 1..Processed : arrived'[i] = arrived[i]
        PROVE  Exactly'
    <3>1. Expected' = Expected
          BY <2>1 DEF Expected, ToForward, Complete, First
    <3>2. \A i \in Expected : Payload(i)' = Payload(i)
          BY <2>1 DEF Expected, Payload, First
    <3> QED BY <2>1, <3>1, <3>2 DEF Exactly
  <2>2. CASE Arm \/ SpinEnds
    <3>1. /\ Processed' = Processed
          /\ UNCHANGED <<delivered, remove_prot_id, arrived>>
          BY <2>2 DEF Arm, SpinEnds, Go, unitVars, Processed, Unprocessed
    <3> QED BY <2>1, <3>1
  <2>3. CASE WaitForDeactivation
    <3>1. /\ Processed' = Processed
          /\ UNCHANGED <<delivered, remove_prot_id, arrived>>
          BY <2>3 DEF WaitForDeactivation, unitVars, Processed, Unprocessed
    <3> QED BY <2>1, <3>1
  <2>4. CASE ProcessEntry
    <3> USE DEF ProcessEntry, Go, unitVars, Processed, Unprocessed
    <3>1. UNCHANGED <<delivered, remove_prot_id, arrived, memory>>
          BY <2>4
    <3>2. CASE ToForward(arrived[memory])
      <4>1. Processed' = Processed
            BY <2>4, <3>2 DEF Inv, OneWakeUp
      <4> QED BY <2>1, <3>1, <4>1
    <3>3. CASE ~ToForward(arrived[memory])
      <4>1. memory \in Nat /\ Processed = memory - 1 /\ Processed' = memory
            BY <2>4, <3>3 DEF Inv, OneWakeUp, TypeOK
      <4>2. \A i : ToForward(arrived[i])' <=> ToForward(arrived[i])
            BY <3>1 DEF ToForward, Complete, First
      <4>3. Expected' = Expected
            BY <3>1, <3>3, <4>1, <4>2 DEF Expected
      <4>4. \A i : Payload(i)' = Payload(i)
            BY <3>1 DEF Payload, First
      <4> QED BY <3>1, <4>3, <4>4 DEF Exactly
    <3> QED BY <3>2, <3>3
  <2>5. CASE Forward
    <3>1. /\ UNCHANGED <<remove_prot_id, arrived, memory>>
          /\ delivered' = Append(delivered, Payload(memory))
          BY <2>5 DEF Forward, unitVars
    <3>2. memory \in Nat /\ Processed = memory - 1 /\ Processed' = memory
          BY <2>5 DEF Forward, unitVars, Processed, Unprocessed, Inv, OneWakeUp,
                      TypeOK
    <3>3. memory >= 1 /\ ToForward(arrived[memory])
          BY <2>5 DEF Forward, Inv, InMemory, Unprocessed
    <3>4. \A i : /\ Payload(i)' = Payload(i)
                 /\ ToForward(arrived[i])' <=> ToForward(arrived[i])
          BY <3>1 DEF Payload, ToForward, Complete, First
    <3>5. Expected' = Expected \cup {memory}
          BY <3>1, <3>2, <3>3, <3>4 DEF Expected
    <3>6. \A i \in Expected : i < memory
          BY <3>2 DEF Expected
    <3>7. Payload(memory).id = memory
          BY DEF Payload
    <3>8. delivered \in Seq([id : Nat, first : {0, 1}, length : Nat \ {0}])
          BY DEF Inv, TypeOK
    <3>9. /\ DOMAIN delivered' = 1..(Len(delivered) + 1)
          /\ \A j \in 1..Len(delivered) : delivered'[j] = delivered[j]
          /\ delivered'[Len(delivered) + 1] = Payload(memory)
          /\ DOMAIN delivered = 1..Len(delivered)
          BY <3>1, <3>8
    <3>10. \A i \in Expected' : \E j \in DOMAIN delivered' : delivered'[j] = Payload(i)'
          BY <3>4, <3>5, <3>8, <3>9 DEF Exactly
    <3>11. \A j \in DOMAIN delivered' : delivered'[j].id \in Expected'
          BY <3>5, <3>7, <3>8, <3>9 DEF Exactly
    <3>12. \A j, k \in DOMAIN delivered' :
              j < k => delivered'[j].id < delivered'[k].id
      <4> SUFFICES ASSUME NEW j \in DOMAIN delivered',
                          NEW k \in DOMAIN delivered', j < k
                   PROVE  delivered'[j].id < delivered'[k].id
          OBVIOUS
      <4>1. Len(delivered) \in Nat
            BY <3>8
      <4>2. j \in 1..Len(delivered) /\ delivered'[j] = delivered[j]
            BY <3>9, <4>1
      <4>3. CASE k \in 1..Len(delivered)
            BY <3>9, <4>2, <4>3 DEF Exactly
      <4>4. CASE k = Len(delivered) + 1
        <5>1. delivered[j].id \in Expected
              BY <3>9, <4>2 DEF Exactly
        <5> QED BY <3>6, <3>7, <3>9, <4>2, <4>4, <5>1
      <4> QED BY <3>9, <4>1, <4>3, <4>4
    <3> QED BY <3>10, <3>11, <3>12 DEF Exactly
  <2>6. CASE Activate
    <3>1. /\ Processed' = Processed
          /\ UNCHANGED <<delivered, remove_prot_id, arrived>>
          BY <2>6 DEF Activate, taskVars, Processed, Unprocessed
    <3> QED BY <2>1, <3>1
  <2>7. CASE ReceivePacket
    <3>1. /\ Processed' = Processed
          /\ UNCHANGED <<delivered, remove_prot_id, arrived>>
          BY <2>7 DEF ReceivePacket, taskVars, Processed, Unprocessed, Inv,
                      OneWakeUp, TypeOK
    <3> QED BY <2>1, <3>1
  <2>8. CASE RxCallback
    <3>1. /\ Processed' = Processed
          /\ UNCHANGED <<delivered, remove_prot_id, arrived>>
          BY <2>8 DEF RxCallback, HandleIrq, Processed, Unprocessed
    <3> QED BY <2>1, <3>1
  <2>9. ASSUME NEW p \in Packet, Arrive(p)
        PROVE  Exactly'
    <3>1. /\ Processed' = Processed
          /\ UNCHANGED <<delivered, remove_prot_id>>
          BY <2>9 DEF Arrive, taskVars, Processed, Unprocessed
    <3>2. Processed \in 0..Len(arrived) /\ arrived \in Seq(Packet)
          BY DEF Processed, Inv, InMemory, TypeOK
    <3>3. \A i \in 1..Processed : arrived'[i] = arrived[i]
          BY <2>9, <3>2 DEF Arrive
    <3> QED BY <2>1, <3>1, <3>3
  <2>10. CASE UNCHANGED vars
    <3>1. /\ Processed' = Processed
          /\ UNCHANGED <<delivered, remove_prot_id, arrived>>
          BY <2>10 DEF vars, taskVars, unitVars, Processed, Unprocessed
    <3> QED BY <2>1, <3>1
  <2> QED BY <2>2, <2>3, <2>4, <2>5, <2>6, <2>7, <2>8, <2>9, <2>10
          DEF Next, Poll, Unit
<1> QED BY <1>1, <1>2, <1>3, SpecInv, PTL DEF Spec
=============================================================================
