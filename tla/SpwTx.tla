------------------------------- MODULE SpwTx -------------------------------
(***************************************************************************)
(* The transmit path of the SpaceWire driver (samrh71_rtems_spw.c): tasks  *)
(* that call samrh71_rtems_spacewire_send, the binary semaphore that lends *)
(* them the only send list, the SpaceWire TX unit that reads the list and  *)
(* the payload by DMA after send has returned, the interrupt handler that  *)
(* gives the semaphore back, and the optional timeout callback.            *)
(*                                                                         *)
(* The payload is never copied (dataAddress = data): the send list holds   *)
(* the ADDRESS of a caller's buffer.  Each sender has one buffer, and its  *)
(* content is the number of the call it was last filled for.               *)
(***************************************************************************)
EXTENDS Naturals, Sequences

CONSTANTS Senders,            \* tasks calling samrh71_rtems_spacewire_send
          NoSender,           \* address in the send list before the first send
          MaxCalls,           \* bound: calls of send per task
          CallerKeepsBuffer,  \* does a caller leave its buffer alone until sent?
          CallbackValues      \* what the application may register: TRUE = a
                              \* function, FALSE = NULL

ASSUME SendersAssumption == NoSender \notin Senders
ASSUME MaxCallsAssumption == MaxCalls \in Nat
ASSUME CallerAssumption == CallerKeepsBuffer \in BOOLEAN
ASSUME CallbackAssumption == CallbackValues \subseteq BOOLEAN

VARIABLES
  pc,            \* where each sender is in send
  calls,         \* calls made by each sender = content of its buffer
  txSemaphore,   \* tx_semaphore, 1 = available
  sendList,      \* tx_send_list[0].dataAddress
  active,        \* the TX unit works on a send list
  statusLocked,  \* the TX unit's previous-send-list status is locked
  irqPending,    \* SendListDeactivated interrupt raised and not yet handled
  onTxTimeout,   \* on_tx_timeout # NULL
  accepted,      \* history: packets handed to the TX unit
  wire           \* history: packets put on the wire

taskVars == <<pc, calls, txSemaphore, sendList, onTxTimeout>>
hwVars == <<active, statusLocked, irqPending>>
history == <<accepted, wire>>
vars == <<taskVars, hwVars, history>>

Packet == [sender : Senders, call : 1..MaxCalls]
InBuffer(s) == [sender |-> s, call |-> calls[s]]

Init == /\ pc = [s \in Senders |-> "idle"]
        /\ calls = [s \in Senders |-> 0]
        /\ txSemaphore = 1
        /\ sendList = NoSender
        /\ active = FALSE
        /\ statusLocked = FALSE
        /\ irqPending = FALSE
        /\ onTxTimeout = FALSE
        /\ accepted = <<>>
        /\ wire = <<>>

-----------------------------------------------------------------------------
(* The calling tasks.                                                      *)

(* A task fills its buffer and calls send.  A careful caller does not      *)
(* touch a buffer the TX unit still reads.                                 *)
Call(s) == /\ pc[s] = "idle"
           /\ calls[s] < MaxCalls
           /\ CallerKeepsBuffer => ~(active /\ sendList = s)
           /\ calls' = [calls EXCEPT ![s] = @ + 1]
           /\ pc' = [pc EXCEPT ![s] = "obtain"]
           /\ UNCHANGED <<txSemaphore, sendList, onTxTimeout, hwVars, history>>

(* rtems_semaphore_obtain returns with the semaphore.  The hand-over to a  *)
(* waiting task is modelled as release followed by obtain, by any waiter.  *)
TakeSemaphore(s) == /\ txSemaphore' = txSemaphore - 1
                    /\ pc' = [pc EXCEPT ![s] = "fill"]
                    /\ UNCHANGED <<calls, sendList, onTxTimeout, hwVars, history>>

ObtainNoWait(s) == pc[s] = "obtain" /\ TakeSemaphore(s)   \* mutant of Obtain

Obtain(s) == /\ pc[s] = "obtain"
             /\ txSemaphore = 1
             /\ TakeSemaphore(s)

(* A step of send that changes nothing but the place in it.                *)
GoFrom(s, from, to) ==
  /\ pc[s] = from
  /\ pc' = [pc EXCEPT ![s] = to]
  /\ UNCHANGED <<calls, txSemaphore, sendList, onTxTimeout, hwVars, history>>

(* rtems_semaphore_obtain returns RTEMS_TIMEOUT: the task waited for the   *)
(* whole interval, so the semaphore is not available.                      *)
NoTimeout(s) == FALSE   \* mutant of Timeout

Timeout(s) == txSemaphore = 0 /\ GoFrom(s, "obtain", "timedOut")

(* on_tx_timeout is read twice: for the test and for the call.             *)
TestCallback(s) ==
  GoFrom(s, "timedOut", IF onTxTimeout THEN "callback" ELSE "idle")

CallCallback(s) == GoFrom(s, "callback", "idle")

Fill(s) == /\ pc[s] = "fill"
           /\ sendList' = s
           /\ pc' = [pc EXCEPT ![s] = "start"]
           /\ UNCHANGED <<calls, txSemaphore, onTxTimeout, hwVars, history>>

(* Spw_Tx_setNextSendList with StartNow; send returns while the DMA runs.  *)
(* The unit can hold a second list behind the running one; by              *)
(* SendListExclusive the driver never gives it one.                        *)
StartDma(s) == /\ pc[s] = "start"
               /\ active' = TRUE
               /\ accepted' = Append(accepted, InBuffer(s))
               /\ pc' = [pc EXCEPT ![s] = "idle"]
               /\ UNCHANGED <<calls, sendList, onTxTimeout, statusLocked,
                              irqPending, wire>>

StartAndRelease(s) == StartDma(s) /\ txSemaphore' = 1   \* mutant of Start

Start(s) == StartDma(s) /\ UNCHANGED txSemaphore

SetTimeoutCallback(c) ==
  /\ onTxTimeout # c
  /\ onTxTimeout' = c
  /\ UNCHANGED <<pc, calls, txSemaphore, sendList, hwVars, history>>

-----------------------------------------------------------------------------
(* The TX unit and the interrupt handler.                                  *)

(* The last byte of the list leaves.  The unit locks the status of the     *)
(* list; while an earlier status is still locked no interrupt is raised.   *)
HwTransmit == /\ active
              /\ wire' = Append(wire, InBuffer(sendList))
              /\ active' = FALSE
              /\ irqPending' = (irqPending \/ ~statusLocked)
              /\ statusLocked' = TRUE
              /\ UNCHANGED <<taskVars, accepted>>

(* spw_tx_callback: Spw_Tx_getStatus unlocks the status, then the          *)
(* semaphore is released.  Tasks do not run in between.                    *)
HandleIrq == /\ irqPending
             /\ irqPending' = FALSE
             /\ txSemaphore' = 1
             /\ UNCHANGED <<pc, calls, sendList, onTxTimeout, active, history>>

NoUnlock == HandleIrq /\ UNCHANGED statusLocked   \* mutant of TxCallback

TxCallback == HandleIrq /\ statusLocked' = FALSE

WaitEnds(s) == Obtain(s) \/ Timeout(s)
AfterWait(s) == Fill(s) \/ Start(s) \/ TestCallback(s) \/ CallCallback(s)

Next == \/ \E s \in Senders : Call(s) \/ WaitEnds(s) \/ AfterWait(s)
        \/ \E c \in CallbackValues : SetTimeoutCallback(c)
        \/ HwTransmit
        \/ TxCallback

Spec == Init /\ [][Next]_vars

(* Every task keeps getting the processor and the clock ticks, so a wait   *)
(* ends one way or the other.  Nothing is assumed of link and interrupt.   *)
TaskFairness == \A s \in Senders : WF_vars(WaitEnds(s)) /\ WF_vars(AfterWait(s))

(* The link partner grants credit and the interrupt is not masked.         *)
LinkFairness == WF_vars(HwTransmit) /\ WF_vars(TxCallback)

FairSpec == Spec /\ TaskFairness

-----------------------------------------------------------------------------
(* Properties.                                                             *)

PcValues == {"idle", "obtain", "fill", "start", "timedOut", "callback"}

(* Types of the driver's fields and of the TX unit's state.                *)
TypeOK == /\ pc \in [Senders -> PcValues]
          /\ calls \in [Senders -> 0..MaxCalls]
          /\ txSemaphore \in {0, 1}
          /\ sendList \in Senders \cup {NoSender}
          /\ active \in BOOLEAN
          /\ statusLocked \in BOOLEAN
          /\ irqPending \in BOOLEAN
          /\ onTxTimeout \in BOOLEAN
          /\ accepted \in Seq(Packet)
          /\ wire \in Seq(Packet)

Owns(s) == pc[s] \in {"fill", "start"}

(* The only send list has one user at a time: a task that writes it is     *)
(* alone, and the TX unit is neither reading the list nor about to report  *)
(* it done, however sends, completions and timeouts interleave.            *)
SendListExclusive ==
  \A s \in Senders : Owns(s) => /\ ~active /\ ~irqPending /\ txSemaphore = 0
                                /\ \A t \in Senders : Owns(t) => t = s

(* A send gives up only while another packet really occupies the link: a   *)
(* packet is never dropped although the TX unit is free and idle.          *)
DropOnlyWhenBusy ==
  [][\A s \in Senders :
       (pc[s] = "obtain" /\ pc'[s] = "timedOut")
         => active \/ irqPending \/ \E t \in Senders : Owns(t)]_vars

(* "Transmit length bytes of data as a single SpaceWire packet" (header    *)
(* line 103): what leaves on the wire is what the accepted calls carried,  *)
(* in their order.                                                         *)
WireFaithful ==
  /\ Len(wire) <= Len(accepted)
  /\ \A i \in 1..Len(wire) : wire[i] = accepted[i]

(* The callback that send calls after a timeout is a function, not NULL.   *)
CallbackNotNull == \A s \in Senders : pc[s] = "callback" => onTxTimeout

(* Every call of send returns, also on a link that never transmits.        *)
SendReturns == \A s \in Senders : pc[s] = "obtain" ~> pc[s] = "idle"

(* On a link that keeps transmitting, every packet handed to the TX unit   *)
(* makes the link available again: the semaphore is not lost with an       *)
(* interrupt that is never raised.                                         *)
LinkFreedAgain == LinkFairness => (active ~> txSemaphore = 1)

(* Neither the callers nor the link get stuck.                             *)
Progress == SendReturns /\ LinkFreedAgain

(* The transmit path implements a link with one slot.                      *)
FreeSlot == [sender |-> NoSender, call |-> 0]
Link == INSTANCE OneSlotLink
          WITH Free <- FreeSlot,
               slot <- IF active THEN accepted[Len(accepted)] ELSE FreeSlot,
               sent <- wire
LinkSpec == Link!Spec
=============================================================================
