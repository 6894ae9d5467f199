---------------------------- MODULE SpwTx_proofs ----------------------------
(***************************************************************************)
(* Proofs about SpwTx, for any number of tasks, calls and packets.  The    *)
(* argument follows the token that the TX semaphore stands for: it lies in *)
(* the semaphore, with the task that writes the send list, with the TX     *)
(* unit, or with the pending interrupt, and in no two of these at once.    *)
(***************************************************************************)
EXTENDS SpwTx, TLAPS

(* Where the token is.  The status lock is part of the argument: an        *)
(* unlocked status is what makes the TX unit raise the next interrupt.     *)
Token ==
  /\ \A s, t \in Senders : Owns(s) /\ Owns(t) => s = t
  /\ \A s \in Senders : Owns(s) => ~active /\ ~irqPending /\ txSemaphore = 0
  /\ active => ~irqPending /\ txSemaphore = 0
  /\ irqPending => txSemaphore = 0
  /\ statusLocked => irqPending
  /\ txSemaphore = 0 => active \/ irqPending \/ \E s \in Senders : Owns(s)

(* The send list names the buffer of the task that owns it or of the last  *)
(* one that started a transmission; a task inside send has filled its      *)
(* buffer at least once.                                                   *)
ListFilled ==
  /\ \A s \in Senders : pc[s] # "idle" => calls[s] >= 1
  /\ \A s \in Senders : pc[s] = "start" => sendList = s
  /\ active => sendList \in Senders /\ calls[sendList] >= 1

IInv == TypeOK /\ Token /\ ListFilled

(* What the TX unit still has to send is what the last accepted call       *)
(* carried: the strengthening of WireFaithful, for callers that keep their *)
(* buffers.                                                                *)
Carried == accepted = IF active THEN Append(wire, InBuffer(sendList)) ELSE wire

-----------------------------------------------------------------------------
(* The invariant holds at the start.                                       *)
LEMMA InitIInv == Init => IInv
<1> SUFFICES ASSUME Init
             PROVE  IInv
    OBVIOUS
<1> USE DEF Init
<1>1. TypeOK
  <2>1. pc \in [Senders -> PcValues] /\ calls \in [Senders -> 0..MaxCalls]
        BY MaxCallsAssumption DEF PcValues
  <2>2. accepted \in Seq(Packet) /\ wire \in Seq(Packet)
        OBVIOUS
  <2>3. /\ active \in BOOLEAN
        /\ statusLocked \in BOOLEAN
        /\ irqPending \in BOOLEAN
        /\ onTxTimeout \in BOOLEAN
        OBVIOUS
  <2> QED BY <2>1, <2>2, <2>3 DEF TypeOK
<1>2. Token
      BY DEF Token, Owns
<1>3. ListFilled
      BY DEF ListFilled
<1> QED BY <1>1, <1>2, <1>3 DEF IInv

(* What follows a timeout changes only the place in send.                  *)
LEMMA TimeoutPath ==
  ASSUME NEW s \in Senders, TestCallback(s) \/ CallCallback(s)
  PROVE  \E from \in {"timedOut", "callback"}, to \in {"callback", "idle"} :
           GoFrom(s, from, to)
<1>1. CASE TestCallback(s)
  <2>1. CASE onTxTimeout
        BY <1>1, <2>1 DEF TestCallback
  <2>2. CASE ~onTxTimeout
        BY <1>1, <2>2 DEF TestCallback
  <2> QED BY <2>1, <2>2
<1>2. CASE CallCallback(s)
      BY <1>2 DEF CallCallback
<1> QED BY <1>1, <1>2

(* No step of a task, of the TX unit or of the interrupt handler breaks    *)
(* the invariant.                                                          *)
LEMMA NextIInv == IInv /\ [Next]_vars => IInv'
<1> SUFFICES ASSUME IInv, [Next]_vars
             PROVE  IInv'
    OBVIOUS
<1> USE SendersAssumption, MaxCallsAssumption
        DEF IInv, TypeOK, PcValues, Token, ListFilled, Owns,
            taskVars, hwVars, history
<1>1. ASSUME NEW s \in Senders, Call(s)
      PROVE  IInv'
      BY <1>1 DEF Call
<1>2. ASSUME NEW s \in Senders, Obtain(s)
      PROVE  IInv'
      BY <1>2 DEF Obtain, TakeSemaphore
<1>3. ASSUME NEW s \in Senders, Timeout(s)
      PROVE  IInv'
      BY <1>3 DEF Timeout, GoFrom
<1>4. ASSUME NEW s \in Senders, TestCallback(s) \/ CallCallback(s)
      PROVE  IInv'
  <2>1. PICK from \in {"timedOut", "callback"}, to \in {"callback", "idle"} :
          GoFrom(s, from, to)
        BY <1>4, TimeoutPath
  <2> QED BY <2>1 DEF GoFrom
<1>5. ASSUME NEW s \in Senders, Fill(s)
      PROVE  IInv'
      BY <1>5 DEF Fill
<1>6. ASSUME NEW s \in Senders, Start(s)
      PROVE  IInv'
  <2> USE <1>6 DEF Start, StartDma
  <2>1. InBuffer(s) \in Packet
        BY DEF InBuffer, Packet
  <2>2. TypeOK'
        BY <2>1
  <2>3. Token'
        OBVIOUS
  <2>4. ListFilled'
        OBVIOUS
  <2> QED BY <2>2, <2>3, <2>4
<1>7. ASSUME NEW c \in CallbackValues, SetTimeoutCallback(c)
      PROVE  IInv'
      BY <1>7, CallbackAssumption DEF SetTimeoutCallback
<1>8. CASE HwTransmit
  <2> USE <1>8 DEF HwTransmit
  <2>1. InBuffer(sendList) \in Packet
        BY DEF InBuffer, Packet
  <2>2. TypeOK'
    <3>1. wire' \in Seq(Packet)
          BY <2>1
    <3>2. active' = FALSE /\ statusLocked' = TRUE /\ irqPending' \in BOOLEAN
          OBVIOUS
    <3> QED BY <3>1, <3>2
  <2>3. Token'
        OBVIOUS
  <2>4. ListFilled'
        OBVIOUS
  <2> QED BY <2>2, <2>3, <2>4
<1>9. CASE TxCallback
  <2> USE <1>9 DEF TxCallback, HandleIrq
  <2>1. TypeOK'
        OBVIOUS
  <2>2. Token'
        OBVIOUS
  <2>3. ListFilled'
        OBVIOUS
  <2> QED BY <2>1, <2>2, <2>3
<1>10. CASE UNCHANGED vars
      BY <1>10 DEF vars
<1> QED
    BY <1>1, <1>2, <1>3, <1>4, <1>5, <1>6, <1>7, <1>8, <1>9, <1>10
    DEF Next, WaitEnds, AfterWait

(* Every reachable state satisfies the invariant.                          *)
LEMMA SpecIInv == Spec => []IInv
  BY InitIInv, NextIInv, PTL DEF Spec

-----------------------------------------------------------------------------
(* Driver fields and unit state keep their types (TypeOK), for every       *)
(* number of tasks and calls.                                              *)
THEOREM TypeCorrect == Spec => []TypeOK
<1>1. IInv => TypeOK
      BY DEF IInv
<1> QED BY <1>1, SpecIInv, PTL

(* The only send list has one user at a time, the TX unit included.        *)
THEOREM SendListIsExclusive == Spec => []SendListExclusive
<1>1. IInv => SendListExclusive
      BY DEF IInv, Token, SendListExclusive
<1> QED BY <1>1, SpecIInv, PTL

(* A send times out only while another packet occupies the link.           *)
THEOREM DropsOnlyWhenBusy == Spec => DropOnlyWhenBusy
<1> DEFINE OK(s) == (pc[s] = "obtain" /\ pc'[s] = "timedOut")
                      => active \/ irqPending \/ \E t \in Senders : Owns(t)
<1>1. IInv /\ [Next]_vars => [\A s \in Senders : OK(s)]_vars
  <2> SUFFICES ASSUME IInv, Next, NEW r \in Senders,
                      pc[r] = "obtain", pc'[r] = "timedOut"
               PROVE  active \/ irqPending \/ \E t \in Senders : Owns(t)
      OBVIOUS
  <2>1. txSemaphore = 0
    <3> USE DEF IInv, TypeOK
    <3>1. ASSUME NEW s \in Senders, Call(s) PROVE txSemaphore = 0
          BY <3>1 DEF Call
    <3>2. ASSUME NEW s \in Senders, Obtain(s) PROVE txSemaphore = 0
          BY <3>2 DEF Obtain, TakeSemaphore
    <3>3. ASSUME NEW s \in Senders, Timeout(s) PROVE txSemaphore = 0
          BY <3>3 DEF Timeout
    <3>4. ASSUME NEW s \in Senders, AfterWait(s) PROVE txSemaphore = 0
          BY <3>4 DEF AfterWait, Fill, Start, StartDma, TestCallback,
                      CallCallback, GoFrom
    <3>5. ASSUME NEW c \in CallbackValues, SetTimeoutCallback(c)
          PROVE  txSemaphore = 0
          BY <3>5 DEF SetTimeoutCallback
    <3>6. CASE HwTransmit
          BY <3>6 DEF HwTransmit, taskVars
    <3>7. CASE TxCallback
          BY <3>7 DEF TxCallback, HandleIrq
    <3> QED BY <3>1, <3>2, <3>3, <3>4, <3>5, <3>6, <3>7 DEF Next, WaitEnds
  <2> QED BY <2>1 DEF IInv, Token
<1> QED BY <1>1, SpecIInv, PTL DEF Spec, DropOnlyWhenBusy

-----------------------------------------------------------------------------
(* From here on callers keep their buffers until they are on the wire.     *)

(* What is accepted is what was sent plus what the TX unit still reads.    *)
LEMMA SpecCarried ==
  ASSUME CallerKeepsBuffer
  PROVE  Spec => []Carried
<1>1. Init => Carried
      BY DEF Init, Carried
<1>2. ASSUME IInv, Carried, [Next]_vars
      PROVE  Carried'
  <2> USE <1>2 DEF Carried, InBuffer, hwVars, history, taskVars
  <2>1. ASSUME NEW s \in Senders, Call(s)
        PROVE  Carried'
    <3>1. active => calls'[sendList] = calls[sendList]
          BY <2>1 DEF Call, IInv, TypeOK, ListFilled
    <3> QED BY <2>1, <3>1 DEF Call
  <2>2. ASSUME NEW s \in Senders, WaitEnds(s)
        PROVE  Carried'
        BY <2>2 DEF WaitEnds, Obtain, TakeSemaphore, Timeout, GoFrom
  <2>3. ASSUME NEW s \in Senders, TestCallback(s) \/ CallCallback(s)
        PROVE  Carried'
    <3>1. PICK from \in {"timedOut", "callback"}, to \in {"callback", "idle"} :
            GoFrom(s, from, to)
          BY <2>3, TimeoutPath
    <3>2. UNCHANGED <<calls, sendList, active, accepted, wire>>
          BY <3>1 DEF GoFrom
    <3> QED BY <3>2
  <2>4. ASSUME NEW s \in Senders, Fill(s)
        PROVE  Carried'
        BY <2>4 DEF Fill, IInv, Token, Owns
  <2>5. ASSUME NEW s \in Senders, Start(s)
        PROVE  Carried'
        BY <2>5 DEF Start, StartDma, IInv, Token, ListFilled, Owns
  <2>6. ASSUME NEW c \in CallbackValues, SetTimeoutCallback(c)
        PROVE  Carried'
        BY <2>6 DEF SetTimeoutCallback
  <2>7. CASE HwTransmit
        BY <2>7 DEF HwTransmit
  <2>8. CASE TxCallback
        BY <2>8 DEF TxCallback, HandleIrq
  <2>9. CASE UNCHANGED vars
        BY <2>9 DEF vars
  <2> QED BY <2>1, <2>2, <2>3, <2>4, <2>5, <2>6, <2>7, <2>8, <2>9, <1>2
          DEF Next, AfterWait
<1> QED BY <1>1, <1>2, SpecIInv, PTL DEF Spec

(* Packets leave as they were handed over and in that order, as long as    *)
(* callers keep their buffers.                                             *)
THEOREM WireIsFaithful ==
  ASSUME CallerKeepsBuffer
  PROVE  Spec => []WireFaithful
<1>1. IInv /\ Carried => WireFaithful
  <2> SUFFICES ASSUME IInv, Carried
               PROVE  WireFaithful
      OBVIOUS
  <2>1. wire \in Seq(Packet)
        BY DEF IInv, TypeOK
  <2>2. CASE active
        BY <2>1, <2>2 DEF Carried, WireFaithful
  <2>3. CASE ~active
        BY <2>1, <2>3 DEF Carried, WireFaithful
  <2> QED BY <2>2, <2>3
<1> QED BY <1>1, SpecIInv, SpecCarried, PTL

(* The transmit path implements the one-slot link: every step is an        *)
(* acceptance, a completion or invisible.                                  *)
THEOREM ImplementsLink ==
  ASSUME CallerKeepsBuffer
  PROVE  Spec => LinkSpec
<1> DEFINE slot == IF active THEN accepted[Len(accepted)] ELSE FreeSlot
<1>1. Init => Link!Init
      BY DEF Init, Link!Init
<1>2. ASSUME IInv, Carried, [Next]_vars
      PROVE  [Link!Next]_(Link!linkVars)
  <2> USE <1>2 DEF Link!linkVars, hwVars, history, taskVars
  <2>1. ASSUME NEW s \in Senders, Call(s)
        PROVE  UNCHANGED Link!linkVars
        BY <2>1 DEF Call
  <2>2. ASSUME NEW s \in Senders, WaitEnds(s)
        PROVE  UNCHANGED Link!linkVars
        BY <2>2 DEF WaitEnds, Obtain, TakeSemaphore, Timeout, GoFrom
  <2>3. ASSUME NEW s \in Senders, TestCallback(s) \/ CallCallback(s)
        PROVE  UNCHANGED Link!linkVars
        BY <2>3 DEF TestCallback, CallCallback, GoFrom
  <2>4. ASSUME NEW s \in Senders, Fill(s)
        PROVE  UNCHANGED Link!linkVars
        BY <2>4 DEF Fill
  <2>5. ASSUME NEW s \in Senders, Start(s)
        PROVE  Link!Accept(InBuffer(s)) /\ InBuffer(s) \in Packet
    <3>1. ~active /\ accepted \in Seq(Packet) /\ InBuffer(s) \in Packet
          BY <2>5 DEF Start, StartDma, IInv, Token, ListFilled, Owns, TypeOK,
                      InBuffer, Packet
    <3>2. active' /\ accepted' = Append(accepted, InBuffer(s)) /\ wire' = wire
          BY <2>5 DEF Start, StartDma
    <3>3. accepted'[Len(accepted')] = InBuffer(s)
          BY <3>1, <3>2
    <3> QED BY <3>1, <3>2, <3>3 DEF Link!Accept
  <2>6. ASSUME NEW c \in CallbackValues, SetTimeoutCallback(c)
        PROVE  UNCHANGED Link!linkVars
        BY <2>6 DEF SetTimeoutCallback
  <2>7. CASE HwTransmit
    <3>1. active /\ wire \in Seq(Packet) /\ InBuffer(sendList) \in Packet
          BY <2>7 DEF HwTransmit, IInv, ListFilled, TypeOK, InBuffer, Packet
    <3>2. accepted = Append(wire, InBuffer(sendList))
          BY <3>1 DEF Carried
    <3>3. accepted[Len(accepted)] = InBuffer(sendList)
          BY <3>1, <3>2
    <3>4. InBuffer(sendList) # FreeSlot
          BY <3>1, SendersAssumption DEF FreeSlot, InBuffer, Packet
    <3>5. wire' = Append(wire, InBuffer(sendList)) /\ ~active'
          BY <2>7 DEF HwTransmit
    <3> QED BY <3>1, <3>3, <3>4, <3>5 DEF Link!Next, Link!Complete
  <2>8. CASE TxCallback
        BY <2>8 DEF TxCallback, HandleIrq
  <2>9. CASE UNCHANGED vars
        BY <2>9 DEF vars
  <2> QED BY <2>1, <2>2, <2>3, <2>4, <2>5, <2>6, <2>7, <2>8, <2>9
          DEF Next, AfterWait, Link!Next
<1> QED BY <1>1, <1>2, SpecIInv, SpecCarried, PTL DEF Spec, LinkSpec, Link!Spec
=============================================================================
