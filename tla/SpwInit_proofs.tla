--------------------------- MODULE SpwInit_proofs ---------------------------
(***************************************************************************)
(* Proofs about SpwInit, for any clocks, speeds and timeout.               *)
(***************************************************************************)
EXTENDS SpwInit, Integers, TLAPS

(* Every rate that can be configured is reached with a divider of eight    *)
(* bits; the board's clock of 100 MHz does so from 1 Mbit/s on.            *)
DividersFit ==
  \A c \in Clocks, s \in LinkSpeeds \cup {10} :
    s # 0 => 2 * c <= 256 * (s * MegaHz)

(* While the driver waits there are ticks left; before, none is used.      *)
Ticks == /\ pc \notin Started => ticks = 0
         /\ pc = "check" => ticks < ResetTimeout
         /\ pc \in Waited /\ ~init_ok => ticks = ResetTimeout

(* A link gets beyond Ready only by a command, which only the configured   *)
(* link is given, when its clock and its routes are set up.                *)
SetUpFor(l) == /\ l = link_id /\ l \in clocked
               /\ route = [own |-> SPW_PKTRX_ROUTER_PORT, remote |-> l]
Commands == /\ pc \in {"vectors", "router"} => link_id \in clocked
            /\ pc \in Started \cup {"reset", "configure"} => SetUpFor(link_id)
            /\ \A l \in LinkIds : command[l] = StartAndListen => l = link_id /\ pc \in Started

(* From the reset on the units are quiet until all is ready for them; the  *)
(* masks are opened only after the callbacks are registered.               *)
Masked == {"rxInterrupt", "txSemaphore", "rxSemaphore", "task", "done", "sent"}
Quiet == active = {} /\ deactivated = {}
UnitsReady == /\ irqMask # {} => pc \in Masked
              /\ pc \in Masked \cup {"interrupts"} => callbacks = Units
              /\ pc \in (Started \cup {"configure"}) \ {"done", "sent"} => Quiet
              /\ pc = "rxSemaphore" => "tx" \in created
              /\ pc \in {"task", "done", "sent"} => created = Units
              /\ polling # "none" => pc \in {"done", "sent"}

IInv == TypeOK /\ Ticks /\ Commands /\ OnlyConfiguredLinkRuns /\ UnitsReady

-----------------------------------------------------------------------------
(* Division.                                                               *)
LEMMA DivFacts ==
  ASSUME NEW a \in Nat, NEW b \in Nat \ {0}
  PROVE  /\ a \div b \in Nat
         /\ b * (a \div b) <= a
         /\ a < b * (a \div b) + b
BY Z3

LEMMA ModIdentity ==
  ASSUME NEW n \in 0..255
  PROVE  n % 256 = n
BY Z3

(* The ceiling division, reduced by one, is exact.                         *)
LEMMA CeilingIsExact ==
  ASSUME NEW a \in Nat \ {0}, NEW b \in Nat \ {0}, a <= 256 * b,
         NEW d, d = (a + b - 1) \div b - 1
  PROVE  /\ d \in 0..255
         /\ a <= b * (d + 1)
         /\ a > b * d
<1> DEFINE q == (a + b - 1) \div b
<1>1. a + b - 1 \in Nat
      OBVIOUS
<1>2. q \in Nat /\ b * q <= a + b - 1 /\ a + b - 1 < b * q + b
      BY <1>1, DivFacts
<1> HIDE DEF q
<1>3. q >= 1
  <2> SUFFICES ASSUME q = 0
               PROVE  FALSE
      BY <1>2
  <2> QED BY <1>2
<1>4. q <= 256
  <2> SUFFICES ASSUME q >= 257
               PROVE  FALSE
      BY <1>2
  <2>1. b * q >= b * 257
        BY <1>2
  <2> QED BY <2>1, <1>2
<1>5. d = q - 1
      BY DEF q
<1>6. b * (d + 1) = b * q /\ b * d = b * q - b
      BY <1>2, <1>3, <1>5
<1> QED BY <1>2, <1>3, <1>4, <1>5, <1>6

-----------------------------------------------------------------------------
(* The inductive invariant.                                                *)
LEMMA InitIInv == Init => IInv
<1> SUFFICES ASSUME Init
             PROVE  IInv
    OBVIOUS
<1> USE TimeoutAssumption DEF Init, LinkIds, Disabled, StartAndListen, Ready, ErrorReset
<1>1. TypeOK
  <2>1. ticks \in 0..ResetTimeout /\ txInitDiv \in 0..255 /\ txOperDiv \in 0..255
        OBVIOUS
  <2>2. command \in [LinkIds -> {Disabled, StartAndListen}]
        OBVIOUS
  <2>3. linkState \in [LinkIds -> LinkStates]
        BY DEF LinkStates
  <2>4. init_ok \in BOOLEAN
        OBVIOUS
  <2>5. /\ route \in [own : {NoPort, SPW_PKTRX_ROUTER_PORT}, remote : {NoPort} \cup LinkIds]
        /\ vectors \in BOOLEAN /\ pc \in PcValues
        BY DEF NoPort, PcValues, Started
  <2> QED BY <2>1, <2>2, <2>3, <2>4, <2>5 DEF TypeOK
<1>2. Ticks /\ Commands /\ OnlyConfiguredLinkRuns
      BY DEF Ticks, Commands, OnlyConfiguredLinkRuns, Started, Waited
<1>3. UnitsReady
      BY DEF UnitsReady, Masked, Started
<1> QED BY <1>1, <1>2, <1>3 DEF IInv

LEMMA DividerFits ==
  ASSUME TypeOK, NEW bitrate \in Nat \ {0}
  PROVE  Divider(bitrate) \in 0..255
<1>1. ((2 * clock + bitrate - 1) \div bitrate - 1) \in Int
  <2>1. clock \in Nat
        BY ClocksAssumption DEF TypeOK
  <2>2. 2 * clock + bitrate - 1 \in Nat
        BY <2>1
  <2> QED BY <2>2, DivFacts
<1>2. \A n \in Int : n % 256 \in 0..255
      OBVIOUS
<1> QED BY <1>1, <1>2 DEF Divider

LEMMA RatesPositive ==
  ASSUME TypeOK
  PROVE  InitBitrate \in Nat \ {0} /\ OperBitrate \in Nat \ {0}
BY SpeedsAssumption DEF TypeOK, InitBitrate, OperBitrate, MegaHz

(* No interrupt is raised before its callback and its semaphore exist.     *)
LEMMA InterruptsReady == IInv => InterruptFindsSemaphore
<1> SUFFICES ASSUME IInv, NEW u \in Units, InterruptOf(u)
             PROVE  u \in callbacks /\ u \in created
    BY DEF InterruptFindsSemaphore
<1>1. irqMask # {} /\ ~Quiet
      BY DEF InterruptOf, Quiet
<1>2. pc \in Masked
      BY <1>1 DEF IInv, UnitsReady
<1>3. pc \in {"done", "sent"}
      BY <1>1, <1>2 DEF IInv, UnitsReady, Masked, Started
<1> QED BY <1>2, <1>3 DEF IInv, UnitsReady, Masked

(* Steps of the initialisation that only set something up.                 *)
SetUpStep == \/ InitHardware \/ InstallHandler \/ InitRouter \/ RegisterHandlers
             \/ EnableTxInterrupt \/ EnableRxInterrupt
             \/ CreateTxSemaphore \/ CreateRxSemaphore \/ StartPollTask

LEMMA SetUpKeepsIInv ==
  ASSUME IInv, SetUpStep
  PROVE  IInv'
<1> USE DEF IInv, SetUpStep, InitHardware, InstallHandler, InitRouter, RegisterHandlers,
            EnableTxInterrupt, EnableRxInterrupt, Enable, CreateTxSemaphore,
            CreateRxSemaphore, Create, StartPollTask,
            config, dividers, links, waiting, setUp, units
<1>1. UNCHANGED <<config, dividers, links, waiting>>
      OBVIOUS
<1>2. link_id \in LinkIds /\ link_id' = link_id
      BY <1>1 DEF TypeOK
<1>3. TypeOK'
  <2>1. pc' \in PcValues
        BY DEF PcValues, Started
  <2>2. clocked' \subseteq LinkIds
        BY DEF TypeOK, LinkIds
  <2>3. route' \in [own : {NoPort, SPW_PKTRX_ROUTER_PORT}, remote : {NoPort} \cup LinkIds]
        BY <1>2 DEF TypeOK
  <2>4. vectors' \in BOOLEAN
        BY DEF TypeOK
  <2>5. callbacks' \subseteq Units /\ irqMask' \subseteq Units
        BY DEF TypeOK, Units
  <2>6. created' \subseteq Units /\ available' \subseteq created'
        BY DEF TypeOK, Units
  <2>7. active' \subseteq Units /\ deactivated' \subseteq Units /\ polling' \in {"none", "arm", "wait"}
        BY DEF TypeOK
  <2> QED BY <1>1, <2>1, <2>2, <2>3, <2>4, <2>5, <2>6, <2>7 DEF TypeOK
<1>4. Ticks'
  <2>1. /\ pc' \in Started => pc \in Waited
        /\ pc' # "check"
        BY DEF Started, Waited
  <2>2. UNCHANGED <<ticks, init_ok>>
        BY <1>1
  <2> QED BY <2>1, <2>2 DEF Ticks, Waited, Started
<1>5. Commands'
  <2>3. pc' \in {"vectors", "router"} => link_id' \in clocked'
        BY <1>2 DEF Commands, LinkIds, Started
  <2>1. pc' \in Started \cup {"reset", "configure"} => SetUpFor(link_id)'
    <3>1. CASE InitRouter
          BY <3>1, <1>2 DEF Commands, SetUpFor
    <3>2. CASE ~InitRouter
          BY <3>2, <1>2 DEF Commands, SetUpFor, Started
    <3> QED BY <3>1, <3>2
  <2>2. \A l \in LinkIds : command'[l] = StartAndListen => l = link_id' /\ pc' \in Started
    <3>1. pc \in Started => pc' \in Started
          BY DEF Started
    <3> QED BY <3>1, <1>1, <1>2 DEF Commands
  <2> QED BY <2>1, <2>2, <2>3 DEF Commands
<1>6. OnlyConfiguredLinkRuns'
  <2> SUFFICES ASSUME NEW l \in LinkIds, linkState'[l] > Ready
               PROVE  /\ l = link_id' /\ l \in clocked'
                      /\ route' = [own |-> SPW_PKTRX_ROUTER_PORT, remote |-> l]
      BY DEF OnlyConfiguredLinkRuns
  <2>1. /\ l = link_id /\ l \in clocked
        /\ route = [own |-> SPW_PKTRX_ROUTER_PORT, remote |-> l]
        BY <1>1 DEF OnlyConfiguredLinkRuns
  <2> QED BY <2>1, <1>2 DEF LinkIds
<1>7. UnitsReady'
      BY DEF UnitsReady, Masked, Started, Quiet, TypeOK, Units
<1> QED BY <1>3, <1>4, <1>5, <1>6, <1>7

LEMMA NextIInv == IInv /\ [Next]_vars => IInv'
<1> SUFFICES ASSUME IInv, [Next]_vars
             PROVE  IInv'
    OBVIOUS
<1> USE TimeoutAssumption DEF IInv, vars, config, dividers, links, waiting, setUp, units
<1>1. CASE ComputeDividers
  <2> USE <1>1 DEF ComputeDividers
  <2>1. pc = "dividers" /\ pc' \in {"hardware", "fatal"}
        OBVIOUS
  <2>2. TypeOK'
    <3>1. txInitDiv' \in 0..255 /\ txOperDiv' \in 0..255
      <4>1. Divider(InitBitrate) \in 0..255 /\ Divider(OperBitrate) \in 0..255
            BY RatesPositive, DividerFits
      <4> HIDE DEF IInv
      <4>2. txInitDiv \in 0..255 /\ txOperDiv \in 0..255
            BY DEF IInv, TypeOK
      <4> QED BY <4>1, <4>2
    <3>2. pc' \in PcValues
          BY <2>1 DEF PcValues
    <3> QED BY <3>1, <3>2 DEF TypeOK
  <2>3. (Ticks /\ Commands /\ OnlyConfiguredLinkRuns)'
        BY <2>1 DEF Ticks, Commands, OnlyConfiguredLinkRuns, Started, Waited, SetUpFor
  <2>4. UnitsReady'
        BY <2>1 DEF UnitsReady, Masked, Started, Quiet
  <2> QED BY <2>2, <2>3, <2>4
<1>2. CASE SetUpStep
      BY <1>2, SetUpKeepsIInv
<1>3. CASE Reset
  <2> USE <1>3 DEF Reset
  <2>1. pc = "reset" /\ pc' = "configure"
        OBVIOUS
  <2>2. TypeOK'
        BY <2>1 DEF TypeOK, LinkStates, ErrorReset, PcValues
  <2>3. (Ticks /\ Commands)'
        BY <2>1 DEF Ticks, Commands, Started, Waited, SetUpFor
  <2>4. OnlyConfiguredLinkRuns'
        BY DEF OnlyConfiguredLinkRuns, ErrorReset, Ready
  <2>5. UnitsReady'
        BY <2>1 DEF UnitsReady, Masked, Started, Quiet
  <2> QED BY <2>2, <2>3, <2>4, <2>5
<1>4. CASE Configure
  <2> USE <1>4 DEF Configure
  <2>1. pc = "configure" /\ pc' = "check"
        OBVIOUS
  <2>2. TypeOK'
        BY <2>1 DEF TypeOK, CommandOf, Disabled, StartAndListen, PcValues, Started
  <2>3. Ticks'
        BY <2>1 DEF Ticks, Started, Waited
  <2>4. Commands'
        BY <2>1 DEF Commands, CommandOf, Disabled, StartAndListen, Started, SetUpFor
  <2>5. OnlyConfiguredLinkRuns'
        BY DEF OnlyConfiguredLinkRuns
  <2>6. UnitsReady'
        BY <2>1 DEF UnitsReady, Masked, Started, Quiet
  <2> QED BY <2>2, <2>3, <2>4, <2>5, <2>6
<1>5. CASE CheckLink
  <2> USE <1>5 DEF CheckLink
  <2>1. ticks \in Nat /\ ticks < ResetTimeout
        BY DEF TypeOK, Ticks
  <2>2. linkState[link_id] \in 0..5
        BY DEF TypeOK, LinkStates
  <2>0. pc = "check" /\ pc' \in {"check", "callbacks"}
        OBVIOUS
  <2>3. TypeOK'
    <3>1. ticks' \in 0..ResetTimeout
          BY <2>1 DEF NextTick
    <3>2. init_ok' \in BOOLEAN
      <4>1. init_ok \in BOOLEAN
            BY DEF TypeOK
      <4>2. CASE WaitOn
            BY <4>1, <4>2
      <4>3. CASE ~WaitOn
        <5>1. init_ok' = (linkState[link_id] >= Ready)
              BY <4>3
        <5> QED BY <5>1
      <4> QED BY <4>2, <4>3
    <3>3. pc' \in PcValues
          BY <2>0 DEF PcValues, Started
    <3> QED BY <3>1, <3>2, <3>3 DEF TypeOK
  <2>4. Ticks'
    <3>1. ticks' = ticks + 1 /\ pc = "check"
          BY DEF NextTick
    <3>2. CASE WaitOn
      <4>1. pc' = "check" /\ ticks' < ResetTimeout
            BY <3>1, <3>2 DEF WaitOn, NextTick
      <4> QED BY <4>1 DEF Ticks, Started, Waited
    <3>3. CASE ~WaitOn
      <4>1. pc' = "callbacks" /\ (init_ok' <=> linkState[link_id] >= Ready)
            BY <3>1, <3>3
      <4>2. linkState[link_id] < Ready => ticks' = ResetTimeout
            BY <2>1, <3>1, <3>3 DEF WaitOn, NextTick
      <4>3. linkState[link_id] < Ready \/ linkState[link_id] >= Ready
            BY <2>2 DEF Ready
      <4> QED BY <4>1, <4>2, <4>3 DEF Ticks, Started, Waited
    <3> QED BY <3>2, <3>3
  <2>5. (Commands /\ OnlyConfiguredLinkRuns)'
        BY <2>0 DEF Commands, OnlyConfiguredLinkRuns, Started, SetUpFor
  <2>6. UnitsReady'
        BY <2>0 DEF UnitsReady, Masked, Started, Quiet
  <2> QED BY <2>3, <2>4, <2>5, <2>6
<1>6. ASSUME NEW l \in LinkIds, LinkAdvances(l)
      PROVE  IInv'
  <2> USE <1>6 DEF LinkAdvances
  <2>1. linkState \in [LinkIds -> 0..5] /\ linkState[l] < 5
        BY DEF TypeOK, LinkStates, Run
  <2>2. linkState' \in [LinkIds -> 0..5]
        BY <2>1
  <2>3. TypeOK'
        BY <2>2 DEF TypeOK, LinkStates
  <2>4. Ticks'
        BY DEF Ticks
  <2>5. Commands'
        BY DEF Commands, SetUpFor
  <2>6. OnlyConfiguredLinkRuns'
    <3>1. linkState[l] >= Ready => SetUpFor(l)
          BY DEF Commands
    <3>2. linkState'[l] = linkState[l] + 1
          BY <2>1
    <3>3. linkState[l] + 1 > Ready => linkState[l] >= Ready
          BY <2>1 DEF Ready
    <3>4. \A k \in LinkIds : k # l => linkState'[k] = linkState[k]
          BY <2>1
    <3> QED BY <3>1, <3>2, <3>3, <3>4 DEF OnlyConfiguredLinkRuns, SetUpFor
  <2>7. UnitsReady'
        BY DEF UnitsReady, Quiet
  <2> QED BY <2>3, <2>4, <2>5, <2>6, <2>7
<1>7. ASSUME NEW l \in LinkIds, LinkFails(l)
      PROVE  IInv'
  <2> USE <1>7 DEF LinkFails
  <2>1. TypeOK'
        BY DEF TypeOK, LinkStates, ErrorReset
  <2>2. (Ticks /\ Commands /\ UnitsReady)'
        BY DEF Ticks, Commands, SetUpFor, UnitsReady, Quiet
  <2>3. OnlyConfiguredLinkRuns'
        BY DEF OnlyConfiguredLinkRuns, TypeOK, Ready, ErrorReset
  <2> QED BY <2>1, <2>2, <2>3
<1>8. CASE FirstSend
  <2> USE <1>8 DEF FirstSend
  <2>1. pc = "done" /\ pc' = "sent"
        OBVIOUS
  <2>2. TypeOK'
        BY <2>1 DEF TypeOK, PcValues, Started, Units
  <2>3. (Ticks /\ Commands /\ OnlyConfiguredLinkRuns)'
        BY <2>1 DEF Ticks, Commands, OnlyConfiguredLinkRuns, SetUpFor, Started, Waited
  <2>4. UnitsReady'
        BY <2>1 DEF UnitsReady, Masked, Started
  <2> QED BY <2>2, <2>3, <2>4
<1>9. CASE ArmBuffer \/ WaitForDeactivation
  <2> USE <1>9 DEF ArmBuffer, WaitForDeactivation
  <2>1. pc \in {"done", "sent"} /\ UNCHANGED <<config, pc, dividers, links, waiting, setUp>>
        BY DEF UnitsReady
  <2>2. TypeOK'
    <3>1. active' \subseteq Units /\ deactivated' \subseteq Units
          BY DEF TypeOK, Units
    <3>2. available' \subseteq created' /\ polling' \in {"none", "arm", "wait"}
          BY DEF TypeOK
    <3> QED BY <2>1, <3>1, <3>2 DEF TypeOK
  <2>3. (Ticks /\ Commands /\ OnlyConfiguredLinkRuns)'
        BY <2>1 DEF Ticks, Commands, OnlyConfiguredLinkRuns, SetUpFor
  <2>4. UnitsReady'
        BY <2>1 DEF UnitsReady, Masked, Started
  <2> QED BY <2>2, <2>3, <2>4
<1>10. ASSUME NEW u \in Units, Interrupt(u)
       PROVE  IInv'
  <2> USE <1>10 DEF Interrupt
  <2>1. u \in created /\ UNCHANGED <<config, pc, dividers, links, waiting, setUp>>
        BY InterruptsReady DEF InterruptFindsSemaphore
  <2>2. TypeOK'
        BY <2>1 DEF TypeOK
  <2>3. (Ticks /\ Commands /\ OnlyConfiguredLinkRuns)'
        BY <2>1 DEF Ticks, Commands, OnlyConfiguredLinkRuns, SetUpFor
  <2>4. UnitsReady'
        BY <2>1 DEF UnitsReady, Quiet
  <2> QED BY <2>2, <2>3, <2>4
<1>11. ASSUME NEW u \in Units, Deactivate(u)
       PROVE  IInv'
  <2> USE <1>11 DEF Deactivate
  <2>1. ~Quiet /\ UNCHANGED <<config, pc, dividers, links, waiting, setUp, available, polling>>
        BY DEF Quiet
  <2>2. TypeOK'
        BY <2>1 DEF TypeOK
  <2>3. (Ticks /\ Commands /\ OnlyConfiguredLinkRuns)'
        BY <2>1 DEF Ticks, Commands, OnlyConfiguredLinkRuns, SetUpFor
  <2>4. UnitsReady'
        BY <2>1 DEF UnitsReady
  <2> QED BY <2>2, <2>3, <2>4
<1>12. CASE UNCHANGED vars
      BY <1>12 DEF TypeOK, Ticks, Commands, OnlyConfiguredLinkRuns, SetUpFor, UnitsReady, Quiet
<1> QED BY <1>1, <1>2, <1>3, <1>4, <1>5, <1>6, <1>7, <1>8, <1>9, <1>10, <1>11, <1>12
        DEF Next, Driver, Running, SetUpStep

LEMMA SpecIInv == Spec => []IInv
BY InitIInv, NextIInv, PTL DEF Spec

-----------------------------------------------------------------------------
(* Results.                                                                *)

(* The initialisation keeps its types; dividers fit eight bits.            *)
THEOREM TypeCorrect == Spec => []TypeOK
<1>1. IInv => TypeOK
      BY DEF IInv
<1> QED BY <1>1, SpecIInv, PTL

(* No interrupt comes before its callback is registered and its semaphore  *)
(* is created, although both units may have been left active.              *)
THEOREM InterruptsFindSemaphores == Spec => []InterruptFindsSemaphore
BY SpecIInv, InterruptsReady, PTL

(* The other link never leaves Ready, whatever the partners do, and the    *)
(* one that runs has its clock and its routes.                             *)
THEOREM OnlyOneLinkRuns == Spec => []OnlyConfiguredLinkRuns
<1>1. IInv => OnlyConfiguredLinkRuns
      BY DEF IInv
<1> QED BY <1>1, SpecIInv, PTL

(* The wait gives up only when the whole timeout has been used.            *)
THEOREM GivesUpAfterTimeout ==
  Spec => [](pc \in Waited /\ ~init_ok => ticks = ResetTimeout)
<1>1. IInv => (pc \in Waited /\ ~init_ok => ticks = ResetTimeout)
      BY DEF IInv, Ticks
<1> QED BY <1>1, SpecIInv, PTL

(* With clocks and speeds whose dividers fit eight bits, both links run at *)
(* the highest rate the clock allows and not above the one asked for.      *)
LEMMA DividerExact ==
  ASSUME TypeOK, NEW bitrate \in Nat \ {0}, 2 * clock <= 256 * bitrate
  PROVE  Exact(Divider(bitrate), bitrate)
<1> DEFINE d == (2 * clock + bitrate - 1) \div bitrate - 1
<1>1. clock \in Nat \ {0}
      BY ClocksAssumption DEF TypeOK
<1>2. 2 * clock \in Nat \ {0}
      BY <1>1
<1>3. d \in 0..255 /\ 2 * clock <= bitrate * (d + 1) /\ 2 * clock > bitrate * d
      BY <1>2, CeilingIsExact
<1>4. Divider(bitrate) = d
      BY <1>3, ModIdentity DEF Divider
<1> HIDE DEF d
<1> QED BY <1>3, <1>4 DEF Exact

THEOREM RatesAreExact ==
  ASSUME DividersFit
  PROVE  Spec => []RatesExact
<1>1. Init => RatesExact
      BY DEF Init, RatesExact
<1>2. IInv /\ RatesExact /\ [Next]_vars => RatesExact'
  <2> SUFFICES ASSUME IInv, RatesExact, [Next]_vars
               PROVE  RatesExact'
      OBVIOUS
  <2>1. CASE ComputeDividers
    <3>1. InitBitrate' = InitBitrate /\ OperBitrate' = OperBitrate /\ clock' = clock
          BY <2>1 DEF ComputeDividers, config, InitBitrate, OperBitrate
    <3>2. 2 * clock <= 256 * InitBitrate /\ 2 * clock <= 256 * OperBitrate
      <4>1. clock \in Clocks /\ link_speed \in LinkSpeeds /\ link_speed \in Nat
            BY SpeedsAssumption DEF IInv, TypeOK
      <4> QED BY <4>1, DividersFit DEF DividersFit, InitBitrate, OperBitrate
    <3>3. Exact(Divider(InitBitrate), InitBitrate) /\ Exact(Divider(OperBitrate), OperBitrate)
          BY <3>2, RatesPositive, DividerExact DEF IInv
    <3> QED BY <2>1, <3>1, <3>3 DEF ComputeDividers, RatesExact, Exact
  <2>2. ASSUME UNCHANGED <<config, dividers>>, pc \in {"dividers", "fatal"} => pc' = pc
        PROVE  RatesExact'
        BY <2>2 DEF RatesExact, Exact, config, dividers, InitBitrate, OperBitrate
  <2>3. CASE Driver /\ ~ComputeDividers
        BY <2>2, <2>3 DEF Driver, InitHardware, InstallHandler, InitRouter, Reset, Configure,
                    CheckLink, RegisterHandlers, EnableTxInterrupt, EnableRxInterrupt, Enable,
                    CreateTxSemaphore, CreateRxSemaphore, Create, StartPollTask
  <2>4. CASE Running
        BY <2>2, <2>4 DEF Running, FirstSend, ArmBuffer, WaitForDeactivation, Interrupt
  <2>5. CASE ~Driver /\ ~Running
        BY <2>2, <2>5 DEF Next, LinkAdvances, LinkFails, Deactivate, vars
  <2> QED BY <2>1, <2>3, <2>4, <2>5 DEF Driver
<1> QED BY <1>1, <1>2, SpecIInv, PTL DEF Spec
=============================================================================
