---------------------------- MODULE Board_proofs ----------------------------
(***************************************************************************)
(* Proofs about Board, for any number of drivers and any clocks: what a    *)
(* handler finds when its interrupt comes, then what the drivers share (the*)
(* clock of the CAN peripherals, and the pins, clocks, modes, lines and    *)
(* handles that a later initialisation leaves alone).                      *)
(***************************************************************************)
EXTENDS Board, TLAPS

UartStages == {"lowlevel", "clear", "priority", "subscribe", "pmc", "flexcom", "pio",
               "handle", "open", "configure", "semaphores", "start"}
CanStages == {"pio", "pck", "clear", "priority", "subscribe", "pmc", "open", "semaphores",
              "configure", "start", "fatal"}
InLoop == stage \in {"clear", "priority", "subscribe"}

(* The stage is one of the driver's initialisation, and the loop over the  *)
(* FLEXCOM lines is at one of them.                                        *)
StageFits ==
  /\ turn \in Drivers => /\ device[turn] \in Uarts => stage \in UartStages
                         /\ device[turn] \in Cans => stage \in CanStages
                         /\ device[turn] \in Uarts /\ InLoop => count \in 0..9
  /\ turn \notin Drivers => stage = "done"

Distinct == \A c, d \in Drivers : c # d => device[c] # device[d]

Typed == TypeOK /\ StageFits /\ Distinct

-----------------------------------------------------------------------------
(* Devices.                                                                *)
LEMMA DevicesFacts ==
  /\ \A dev \in Uarts : dev \in Devices /\ dev \notin Cans /\ dev[2] \in 0..9
                        /\ dev = <<"uart", dev[2]>>
  /\ \A dev \in Cans : dev \in Devices /\ dev \notin Uarts
  /\ \A dev \in Devices : dev \in Uarts \/ dev \in Cans
  /\ \A n \in 0..9 : <<"uart", n>> \in Uarts
BY DEF Devices, Uarts, Cans

LEMMA LineIsDevice ==
  ASSUME Typed, turn \in Drivers, InLoop
  PROVE  Line \in Devices
<1>1. device[turn] \in Devices
      BY DEF Typed, TypeOK
<1> QED BY <1>1, DevicesFacts DEF Line, Dev, Typed, StageFits

LEMMA ResetClockTyped == ResetClock \in PckSettings
<1>1. PckSettings # {}
  <2>1. PICK s \in Sources, p \in Prescalers : TRUE
        BY PckAssumption
  <2>2. [source |-> s, prescaler |-> p] \in PckSettings
        BY DEF PckSettings
  <2> QED BY <2>2
<1> QED BY <1>1 DEF ResetClock

LEMMA InitTyped == Init => Typed
<1> SUFFICES ASSUME Init
             PROVE  Typed
    OBVIOUS
<1> USE DEF Init
<1>1. 1 \in Drivers /\ turn = 1
      BY DriversAssumption DEF Drivers
<1>2. device[1] \in Devices
      BY <1>1
<1>3. TypeOK
  <2>1. device \in [Drivers -> Devices] /\ pck \in [Drivers -> PckSettings]
        OBVIOUS
  <2>2. turn \in 1..(LastDriver + 1) /\ count \in 0..10
        BY DriversAssumption
  <2>3. stage \in Stages
        BY DEF FirstStage, Stages
  <2>4. inited \in BOOLEAN /\ firstConfig \in Drivers \cup {NoDriver}
        OBVIOUS
  <2>5. gclk \in [Cans -> PckSettings]
        BY ResetClockTyped
  <2>6. DOMAIN pins = Pins /\ clocks \subseteq Devices /\ flexcom \subseteq 0..9
        OBVIOUS
  <2>7. priority \in [Devices -> {0, 4}] /\ subscribed \in [Devices -> Nat]
        OBVIOUS
  <2>8. handle \in [Devices -> Drivers \cup {NoDriver}]
        OBVIOUS
  <2>9. pending \subseteq Devices
        OBVIOUS
  <2>10. opened \subseteq Drivers /\ semaphores \subseteq Drivers /\ armed \subseteq Drivers
        OBVIOUS
  <2> QED BY <2>1, <2>2, <2>3, <2>4, <2>5, <2>6, <2>7, <2>8, <2>9, <2>10 DEF TypeOK
<1>4. StageFits
      BY <1>1, <1>2, DevicesFacts DEF StageFits, FirstStage, UartStages, CanStages, InLoop
<1>5. Distinct
      BY DEF Distinct, Compatible
<1> QED BY <1>3, <1>4, <1>5 DEF Typed

(* What the stages lead to.                                                *)
LEMMA StepFacts ==
  ASSUME Typed, NEW s, Step(s)
  PROVE  /\ turn \in Drivers /\ turn' = turn /\ stage = s
         /\ device' = device /\ pck' = pck
         /\ Dev \in Devices
         /\ Dev \in Uarts => stage' = AfterUart[s] /\ s \in UartStages
         /\ Dev \in Cans => stage' = AfterCan[s] /\ s \in CanStages
BY DevicesFacts DEF Step, config, Dev, Typed, StageFits, TypeOK

LEMMA StageStep == Typed /\ [Next]_vars => (StageFits /\ stage \in Stages)'
<1> SUFFICES ASSUME Typed, [Next]_vars
             PROVE  (StageFits /\ stage \in Stages)'
    OBVIOUS
<1>1. ASSUME NEW s \in {"clear", "priority", "pmc", "flexcom", "pio", "handle", "open",
                        "semaphores", "configure"},
             Step(s), count' = count
      PROVE  (StageFits /\ stage \in Stages)'
  <2>1. /\ turn \in Drivers /\ turn' = turn /\ stage = s /\ device' = device
        /\ Dev \in Devices /\ Dev = device[turn]
        /\ Dev \in Uarts => stage' = AfterUart[s] /\ s \in UartStages
        /\ Dev \in Cans => stage' = AfterCan[s] /\ s \in CanStages
        BY <1>1, StepFacts DEF Dev
  <2>2. CASE Dev \in Uarts
    <3>1. stage' \in UartStages \ {"lowlevel", "clear"}
          BY <2>1, <2>2, <1>1 DEF AfterUart, UartStages
    <3>2. stage' \in {"clear", "priority", "subscribe"} => s \in {"clear", "priority"}
          BY <2>1, <2>2, <1>1 DEF AfterUart
    <3>3. InLoop' => count' \in 0..9
      <4> SUFFICES ASSUME InLoop'
                   PROVE  count \in 0..9
          BY <1>1
      <4>1. s \in {"clear", "priority"}
            BY <3>2 DEF InLoop
      <4> QED BY <4>1, <2>1, <2>2 DEF InLoop, Typed, StageFits
    <3>4. Dev \notin Cans
          BY <2>2, DevicesFacts
    <3> QED BY <2>1, <2>2, <3>1, <3>3, <3>4 DEF StageFits, UartStages, Stages
  <2>3. CASE Dev \in Cans
    <3>1. stage' \in CanStages
          BY <2>1, <2>3, <1>1 DEF AfterCan, CanStages
    <3>2. Dev \notin Uarts
          BY <2>3, DevicesFacts
    <3> QED BY <2>1, <2>3, <3>1, <3>2 DEF StageFits, CanStages, Stages
  <2> QED BY <2>1, <2>2, <2>3, DevicesFacts
<1>2. CASE uartLowLevelInit
  <2>1. turn \in Drivers /\ turn' = turn /\ device' = device /\ device[turn] \in Devices
        BY <1>2 DEF uartLowLevelInit, config, Typed, TypeOK
  <2>2. device[turn] \in Uarts /\ device[turn] \notin Cans
        BY <1>2, <2>1, DevicesFacts DEF uartLowLevelInit, Typed, StageFits, CanStages
  <2> QED BY <1>2, <2>1, <2>2 DEF uartLowLevelInit, StageFits, UartStages, Stages
<1>3. CASE Subscribe
  <2>1. /\ turn \in Drivers /\ turn' = turn /\ device' = device
        /\ device[turn] \in Devices /\ Dev = device[turn] /\ InLoop
        BY <1>3 DEF Subscribe, config, Typed, TypeOK, Dev, InLoop
  <2>2. CASE Dev \in Uarts
    <3>1. count \in 0..9 /\ Dev \notin Cans
          BY <2>1, <2>2, DevicesFacts DEF Typed, StageFits
    <3>2. count' = count + 1 /\ (count # 9 => count' \in 0..9)
          BY <3>1, <2>2, <1>3 DEF Subscribe
    <3>3. stage' = "pmc" \/ (stage' = "clear" /\ count # 9)
          BY <1>3 DEF Subscribe, LastLine
    <3> QED BY <2>1, <2>2, <3>1, <3>2, <3>3 DEF StageFits, InLoop, UartStages, Stages
  <2>3. CASE Dev \in Cans
    <3>1. stage' = "pmc" /\ Dev \notin Uarts
          BY <2>3, <1>3, DevicesFacts DEF Subscribe, LastLine
    <3> QED BY <2>1, <2>3, <3>1 DEF StageFits, CanStages, Stages
  <2> QED BY <2>1, <2>2, <2>3, DevicesFacts
<1>4. CASE configureMcanPck
  <2>1. /\ turn \in Drivers /\ turn' = turn /\ device' = device
        /\ device[turn] \in Devices
        BY <1>4 DEF configureMcanPck, config, Typed, TypeOK
  <2>2. device[turn] \in Cans /\ device[turn] \notin Uarts
        BY <1>4, <2>1, DevicesFacts DEF configureMcanPck, Typed, StageFits, UartStages
  <2>3. stage' \in {"clear", "fatal"}
        BY <1>4 DEF configureMcanPck, AfterCan
  <2> QED BY <2>1, <2>2, <2>3 DEF StageFits, CanStages, Stages
<1>5. CASE StartTask
  <2>1. /\ turn \in Drivers /\ turn' = turn + 1 /\ device' = device
        BY <1>5 DEF StartTask, config
  <2>2. CASE turn < LastDriver
    <3>1. turn' \in Drivers
          BY <2>1, <2>2, DriversAssumption DEF Drivers
    <3>2. device[turn'] \in Devices
          BY <3>1 DEF Typed, TypeOK
    <3>3. stage' = FirstStage(device[turn'])
          BY <1>5, <2>1, <2>2 DEF StartTask
    <3> QED BY <2>1, <3>1, <3>2, <3>3, DevicesFacts
            DEF StageFits, FirstStage, UartStages, CanStages, Stages, InLoop
  <2>3. CASE ~(turn < LastDriver)
    <3>1. turn' \notin Drivers
          BY <2>1, <2>3, DriversAssumption DEF Drivers
    <3> QED BY <1>5, <2>3, <3>1 DEF StartTask, StageFits, Stages
  <2> QED BY <2>2, <2>3
<1>6. CASE UNCHANGED <<config, control>>
      BY <1>6 DEF StageFits, Stages, InLoop, Typed, TypeOK, config, control
<1>7. CASE Initialise
      BY <1>1, <1>2, <1>3, <1>4, <1>5, <1>7
         DEF Initialise, ClearPending, SetPriority, EnablePeripheralClock, uartInitFlexcom,
             ConfigurePins, uartInitHandle, Open, CreateSemaphores, SetConfig
<1> QED BY <1>6, <1>7 DEF Next, Raise, Handle, vars

(* Types are kept.                                                         *)
LEMMA NextTyped == Typed /\ [Next]_vars => Typed'
<1> SUFFICES ASSUME Typed, [Next]_vars
             PROVE  Typed'
    OBVIOUS
<1> USE DEF config, control, clocking, lines, drivers
<1>1. (StageFits /\ stage \in Stages)'
      BY StageStep
<1>2. device' = device /\ pck' = pck
      BY DEF Next, Initialise, uartLowLevelInit, ClearPending, SetPriority, Subscribe,
             EnablePeripheralClock, uartInitFlexcom, ConfigurePins, configureMcanPck,
             uartInitHandle, Open, CreateSemaphores, SetConfig, StartTask, Step, Raise,
             Handle, vars
<1>3. Distinct'
      BY <1>2 DEF Typed, Distinct
<1> DEFINE Others == /\ turn \in 1..(LastDriver + 1)
                     /\ count \in 0..10
                     /\ inited \in BOOLEAN
                     /\ firstConfig \in Drivers \cup {NoDriver}
                     /\ gclk \in [Cans -> PckSettings]
                     /\ clocks \subseteq Devices
                     /\ flexcom \subseteq 0..9
                     /\ DOMAIN pins = Pins
                     /\ priority \in [Devices -> {0, 4}]
                     /\ subscribed \in [Devices -> Nat]
                     /\ pending \subseteq Devices
                     /\ handle \in [Devices -> Drivers \cup {NoDriver}]
                     /\ opened \subseteq Drivers
                     /\ semaphores \subseteq Drivers
                     /\ armed \subseteq Drivers
<1>4. Others
      BY DEF Typed, TypeOK
<1>5. Others'
  <2>1. CASE uartLowLevelInit
        BY <1>4, <2>1 DEF uartLowLevelInit
  <2>2. CASE ClearPending
        BY <1>4, <2>2 DEF ClearPending, Step
  <2>3. CASE SetPriority
    <3>1. priority' \in [Devices -> {0, 4}]
          BY <1>4, <2>3 DEF SetPriority
    <3> QED BY <1>4, <2>3, <3>1 DEF SetPriority, Step
  <2>4. CASE Subscribe
    <3>1. turn \in Drivers /\ InLoop /\ Line \in Devices
          BY <2>4, LineIsDevice DEF Subscribe, InLoop
    <3>2. subscribed' \in [Devices -> Nat]
          BY <1>4, <2>4, <3>1 DEF Subscribe
    <3>3. handle' \in [Devices -> Drivers \cup {NoDriver}]
          BY <1>4, <2>4, <3>1 DEF Subscribe
    <3>4. count' \in 0..10
      <4>1. Dev \in Uarts => count \in 0..9
            BY <3>1 DEF Typed, StageFits, Dev
      <4> QED BY <1>4, <2>4, <4>1 DEF Subscribe
    <3> QED BY <1>4, <2>4, <3>2, <3>3, <3>4 DEF Subscribe
  <2>5. CASE EnablePeripheralClock
    <3>1. Dev \in Devices
          BY <2>5, StepFacts DEF EnablePeripheralClock
    <3>2. PeripheralId(Dev) \in Devices
          BY <3>1, DevicesFacts DEF PeripheralId, getUartPeripheralId, getUartId
    <3> QED BY <1>4, <2>5, <3>2 DEF EnablePeripheralClock, Step
  <2>6. CASE uartInitFlexcom
    <3>1. Dev \in Uarts
          BY <2>6, StepFacts, DevicesFacts DEF uartInitFlexcom, CanStages
    <3>2. getFlexcomId(Dev) \in 0..9
          BY <3>1, DevicesFacts DEF getFlexcomId
    <3> QED BY <1>4, <2>6, <3>2 DEF uartInitFlexcom, Step
  <2>7. CASE ConfigurePins
        BY <1>4, <2>7 DEF ConfigurePins, Step
  <2>8. CASE configureMcanPck
    <3>1. turn \in Drivers /\ pck[turn] \in PckSettings
          BY <2>8 DEF configureMcanPck, Typed, TypeOK
    <3>2. gclk' \in [Cans -> PckSettings]
          BY <1>4, <2>8, <3>1 DEF configureMcanPck
    <3>3. firstConfig' \in Drivers \cup {NoDriver}
          BY <1>4, <2>8, <3>1 DEF configureMcanPck
    <3>4. clocks' \subseteq Devices
      <4>1. Dev \in Devices
            BY <3>1 DEF Dev, Typed, TypeOK
      <4> QED BY <1>4, <2>8, <4>1 DEF configureMcanPck
    <3> QED BY <1>4, <2>8, <3>2, <3>3, <3>4 DEF configureMcanPck
  <2>9. CASE uartInitHandle
    <3>1. turn \in Drivers
          BY <2>9, StepFacts DEF uartInitHandle
    <3>2. handle' \in [Devices -> Drivers \cup {NoDriver}]
          BY <1>4, <2>9, <3>1 DEF uartInitHandle
    <3> QED BY <1>4, <2>9, <3>2 DEF uartInitHandle, Step
  <2>10. CASE Open
        BY <1>4, <2>10 DEF Open, Step
  <2>11. CASE CreateSemaphores
        BY <1>4, <2>11 DEF CreateSemaphores, Step
  <2>12. CASE SetConfig
        BY <1>4, <2>12 DEF SetConfig, Step
  <2>13. CASE StartTask
    <3>1. turn' \in 1..(LastDriver + 1)
          BY <2>13, DriversAssumption DEF StartTask, Drivers
    <3> QED BY <1>4, <2>13, <3>1 DEF StartTask
  <2>14. ASSUME NEW d \in Drivers, Raise(d)
         PROVE  Others'
    <3>1. device[d] \in Devices
          BY DEF Typed, TypeOK
    <3> QED BY <1>4, <2>14, <3>1 DEF Raise
  <2>15. ASSUME NEW i \in Devices, Handle(i)
         PROVE  Others'
        BY <1>4, <2>15 DEF Handle
  <2>16. CASE UNCHANGED vars
        BY <1>4, <2>16 DEF vars
  <2> HIDE DEF Others
  <2> QED BY <2>1, <2>2, <2>3, <2>4, <2>5, <2>6, <2>7, <2>8, <2>9, <2>10, <2>11, <2>12,
             <2>13, <2>14, <2>15, <2>16 DEF Next, Initialise
<1>6. TypeOK'
      BY <1>1, <1>2, <1>5 DEF Typed, TypeOK
<1> QED BY <1>1, <1>3, <1>6 DEF Typed

LEMMA SpecTyped == Spec => []Typed
BY InitTyped, NextTyped, PTL DEF Spec

(* The initialisation keeps its types; the loop over the interrupt lines   *)
(* stays within the table.                                                 *)
THEOREM TypeCorrect == Spec => []TypeOK
<1>1. Typed => TypeOK
      BY DEF Typed
<1> QED BY <1>1, SpecTyped, PTL

-----------------------------------------------------------------------------
(* Priorities.                                                             *)

Lowered == /\ PriorityBelowKernel
           /\ turn \in Drivers /\ stage = "subscribe" => priority[Line] = 4

(* The stage a step leads to is "subscribe" only from "priority".          *)
LEMMA SubscribeNext ==
  ASSUME Typed,
         NEW s \in {"clear", "pmc", "flexcom", "pio", "handle", "open", "semaphores",
                   "configure"},
         Step(s)
  PROVE  stage' # "subscribe"
<1>1. /\ Dev \in Devices
      /\ Dev \in Uarts => stage' = AfterUart[s] /\ s \in UartStages
      /\ Dev \in Cans => stage' = AfterCan[s] /\ s \in CanStages
      BY StepFacts
<1>2. CASE Dev \in Uarts
      BY <1>1, <1>2 DEF AfterUart
<1>3. CASE Dev \in Cans
  <2>1. s \in {"clear", "pmc", "pio", "open", "semaphores", "configure"}
        BY <1>1, <1>3 DEF CanStages
  <2> QED BY <1>1, <1>3, <2>1 DEF AfterCan
<1> QED BY <1>1, <1>2, <1>3, DevicesFacts

(* No handler is subscribed to a line before the line's priority has been  *)
(* lowered.                                                                *)
THEOREM PrioritiesAreLowered == Spec => []PriorityBelowKernel
<1>1. Init => Lowered
      BY DEF Init, Lowered, PriorityBelowKernel, FirstStage
<1>2. Typed /\ Lowered /\ [Next]_vars => Lowered'
  <2> SUFFICES ASSUME Typed, Lowered, [Next]_vars
               PROVE  Lowered'
      OBVIOUS
  <2> USE DEF config, control, clocking, lines, drivers
  <2>1. CASE SetPriority
    <3>1. turn \in Drivers /\ InLoop /\ Line \in Devices
          BY <2>1, LineIsDevice DEF SetPriority, Step, InLoop
    <3>2. priority' = [priority EXCEPT ![Line] = 4] /\ Line' = Line
          BY <2>1 DEF SetPriority, Step, Line, Dev
    <3>3. priority \in [Devices -> {0, 4}]
          BY DEF Typed, TypeOK
    <3>4. priority'[Line'] = 4
          BY <3>1, <3>2, <3>3
    <3>5. PriorityBelowKernel'
          BY <2>1, <3>2, <3>3 DEF SetPriority, Lowered, PriorityBelowKernel
    <3> QED BY <3>4, <3>5 DEF Lowered
  <2>2. CASE Subscribe
    <3>1. turn \in Drivers /\ InLoop /\ Line \in Devices
          BY <2>2, LineIsDevice DEF Subscribe, InLoop
    <3>2. subscribed \in [Devices -> Nat] /\ priority[Line] = 4
          BY <2>2 DEF Typed, TypeOK, Subscribe, Lowered
    <3>3. PriorityBelowKernel'
          BY <2>2, <3>1, <3>2 DEF Subscribe, Lowered, PriorityBelowKernel
    <3>4. stage' # "subscribe"
          BY <2>2 DEF Subscribe
    <3> QED BY <3>3, <3>4 DEF Lowered
  <2>3. CASE UNCHANGED <<priority, subscribed>> /\ stage' # "subscribe"
        BY <2>3 DEF Lowered, PriorityBelowKernel
  <2>4. CASE UNCHANGED <<priority, subscribed, config, control>>
        BY <2>4 DEF Lowered, PriorityBelowKernel, Line, Dev
  <2>5. ASSUME NEW s \in {"clear", "pmc", "flexcom", "pio", "handle", "open",
                          "semaphores", "configure"}, Step(s)
        PROVE  stage' # "subscribe"
        BY <2>5, SubscribeNext
  <2>6. CASE uartLowLevelInit \/ configureMcanPck \/ StartTask
    <3>1. stage' # "subscribe"
          BY <2>6 DEF uartLowLevelInit, configureMcanPck, StartTask, AfterCan, FirstStage
    <3> QED BY <2>3, <2>6, <3>1 DEF uartLowLevelInit, configureMcanPck, StartTask
  <2>7. CASE ClearPending \/ EnablePeripheralClock \/ uartInitFlexcom \/ ConfigurePins
               \/ uartInitHandle \/ Open \/ CreateSemaphores \/ SetConfig
        BY <2>3, <2>5, <2>7
           DEF ClearPending, EnablePeripheralClock, uartInitFlexcom, ConfigurePins,
               uartInitHandle, Open, CreateSemaphores, SetConfig
  <2> QED BY <2>1, <2>2, <2>4, <2>6, <2>7 DEF Next, Initialise, Raise, Handle, vars
<1>3. Lowered => PriorityBelowKernel
      BY DEF Lowered
<1> QED BY <1>1, <1>2, <1>3, SpecTyped, PTL DEF Spec

-----------------------------------------------------------------------------
(* Handlers.                                                               *)

(* A handler can run only for a driver whose peripheral may raise          *)
(* interrupts: what was pending before is cleared in time.                 *)
Armed(i) == \E d \in armed : device[d] = i

Expected ==
  /\ \A i \in Devices : CanBeTaken(i) => Armed(i)
  /\ turn \in Drivers /\ stage \in {"priority", "subscribe"} /\ Line \in pending
       => Armed(Line)

(* A peripheral may raise interrupts only when its driver is ready.        *)
Ready ==
  /\ \A d \in armed : d \in opened /\ d \in semaphores
  /\ turn \in Drivers =>
       /\ stage = "start" => turn \in opened /\ turn \in semaphores
       /\ Dev \in Uarts /\ stage \in {"configure", "semaphores"} => turn \in opened
       /\ Dev \in Cans /\ stage \in {"semaphores", "configure"} => turn \in opened
       /\ Dev \in Cans /\ stage = "configure" => turn \in semaphores

(* A handle is that of the driver of this peripheral.                      *)
Owned == \A i \in Devices : handle[i] # NoDriver => device[handle[i]] = i

HandlerInv == Expected /\ Ready /\ Owned

LEMMA HandlerInvSuffices == Typed /\ HandlerInv => HandlerFindsDriver
<1> SUFFICES ASSUME Typed, HandlerInv, NEW i \in Devices, CanBeTaken(i), handle[i] # NoDriver
             PROVE  handle[i] \in opened /\ handle[i] \in semaphores
    BY DEF HandlerFindsDriver
<1>1. PICK d \in armed : device[d] = i
      BY DEF HandlerInv, Expected, Armed
<1>2. d \in Drivers /\ handle[i] \in Drivers
      BY DEF Typed, TypeOK
<1>3. handle[i] = d
      BY <1>1, <1>2 DEF HandlerInv, Owned, Typed, Distinct
<1> QED BY <1>1, <1>3 DEF HandlerInv, Ready

(* Which stage the objects of a driver are made in.                        *)
LEMMA StageAfter ==
  ASSUME Typed, NEW s \in Stages, Step(s)
  PROVE  /\ Dev' = Dev /\ Dev \in Devices
         /\ s = "clear" => stage' = "priority"
         /\ s = "priority" => stage' = "subscribe"
         /\ s = "open" => IF Dev \in Uarts THEN stage' = "configure" ELSE stage' = "semaphores"
         /\ s = "semaphores" => IF Dev \in Uarts THEN stage' = "start" ELSE stage' = "configure"
         /\ s = "configure" => IF Dev \in Uarts THEN stage' = "semaphores" ELSE stage' = "start"
<1>1. /\ turn' = turn /\ device' = device
      /\ Dev \in Devices
      /\ Dev \in Uarts => stage' = AfterUart[s]
      /\ Dev \in Cans => stage' = AfterCan[s]
      BY StepFacts
<1>2. Dev' = Dev
      BY <1>1 DEF Dev
<1>3. CASE Dev \in Uarts
      BY <1>1, <1>2, <1>3 DEF AfterUart
<1>4. CASE Dev \in Cans
  <2>1. Dev \notin Uarts
        BY <1>4, DevicesFacts
  <2> QED BY <1>1, <1>2, <1>4, <2>1 DEF AfterCan
<1> QED BY <1>1, <1>3, <1>4, DevicesFacts

Late == {"configure", "semaphores", "start"}

(* A driver's objects are needed only from the stages after "open" on.     *)
LEMMA EarlyStages ==
  ASSUME Typed, NEW s \in {"clear", "priority", "pmc", "flexcom", "pio", "handle"}, Step(s)
  PROVE  stage' \notin Late
<1>1. /\ Dev \in Devices
      /\ Dev \in Uarts => stage' = AfterUart[s]
      /\ Dev \in Cans => stage' = AfterCan[s] /\ s \in CanStages
      BY StepFacts
<1>2. CASE Dev \in Uarts
      BY <1>1, <1>2 DEF AfterUart, Late
<1>3. CASE Dev \in Cans
  <2>1. s \in {"clear", "priority", "pmc", "pio"}
        BY <1>1, <1>3 DEF CanStages
  <2> QED BY <1>1, <1>3, <2>1 DEF AfterCan, Late
<1> QED BY <1>1, <1>2, <1>3, DevicesFacts

LEMMA ReadyNext == Typed /\ Ready /\ [Next]_vars => Ready'
<1> SUFFICES ASSUME Typed, Ready, [Next]_vars
             PROVE  Ready'
    OBVIOUS
<1> USE DEF config, control, clocking, lines, drivers
<1>1. ASSUME UNCHANGED drivers, stage' \notin Late
      PROVE  Ready'
      BY <1>1 DEF Ready, Late
<1>2. ASSUME UNCHANGED drivers, UNCHANGED <<config, control>>
      PROVE  Ready'
      BY <1>2 DEF Ready, Dev
<1>3. CASE ClearPending \/ SetPriority \/ EnablePeripheralClock \/ uartInitFlexcom
             \/ ConfigurePins \/ uartInitHandle
      BY <1>1, <1>3, EarlyStages
         DEF ClearPending, SetPriority, EnablePeripheralClock, uartInitFlexcom,
             ConfigurePins, uartInitHandle
<1>4. CASE uartLowLevelInit \/ Subscribe \/ configureMcanPck
      BY <1>1, <1>4 DEF uartLowLevelInit, Subscribe, configureMcanPck, AfterCan, Late
<1>5. CASE Open
  <2>1. Step("open") /\ turn' = turn /\ "open" \in Stages
        BY <1>5, StepFacts DEF Open, Stages
  <2>2. Dev' = Dev /\ (IF Dev \in Uarts THEN stage' = "configure" ELSE stage' = "semaphores")
        BY <2>1, StageAfter
  <2>3. opened' = opened \cup {turn} /\ armed' = armed /\ semaphores' = semaphores
        BY <1>5 DEF Open
  <2>4. Dev \in Cans => Dev \notin Uarts
        BY DevicesFacts
  <2> QED BY <2>1, <2>2, <2>3, <2>4 DEF Ready
<1>6. CASE CreateSemaphores
  <2>1. Step("semaphores") /\ turn' = turn /\ "semaphores" \in Stages
        BY <1>6, StepFacts DEF CreateSemaphores, Stages
  <2>2. /\ Dev' = Dev /\ Dev \in Devices
        /\ IF Dev \in Uarts THEN stage' = "start" ELSE stage' = "configure"
        BY <2>1, StageAfter
  <2>3. turn \in opened
        BY <2>1, <2>2, DevicesFacts, StepFacts DEF Ready
  <2>4. opened' = opened /\ armed' = armed /\ semaphores' = semaphores \cup {turn}
        BY <1>6 DEF CreateSemaphores
  <2> QED BY <2>1, <2>2, <2>3, <2>4 DEF Ready
<1>7. CASE SetConfig
  <2>1. Step("configure") /\ turn' = turn /\ turn \in Drivers /\ stage = "configure"
        BY <1>7, StepFacts DEF SetConfig
  <2>2. /\ Dev' = Dev /\ Dev \in Devices
        /\ IF Dev \in Uarts THEN stage' = "semaphores" ELSE stage' = "start"
    <3>1. "configure" \in Stages
          BY DEF Stages
    <3> QED BY <2>1, <3>1, StageAfter
  <2>3. /\ opened' = opened /\ semaphores' = semaphores
        /\ armed' = IF Dev \in Cans THEN armed \cup {turn} ELSE armed
        BY <1>7 DEF SetConfig
  <2>4. turn \in opened /\ (Dev \in Cans => turn \in semaphores)
        BY <2>1, <2>2, DevicesFacts DEF Ready
  <2>5. Dev \in Uarts \/ Dev \in Cans
        BY <2>2, DevicesFacts
  <2>6. Dev \in Uarts => Dev \notin Cans
        BY DevicesFacts
  <2> QED BY <2>1, <2>2, <2>3, <2>4, <2>5, <2>6 DEF Ready
<1>8. CASE StartTask
  <2>1. turn \in opened /\ turn \in semaphores
        BY <1>8 DEF StartTask, Ready
  <2>2. stage' \notin Late
        BY <1>8 DEF StartTask, FirstStage, Late
  <2> QED BY <1>8, <2>1, <2>2 DEF StartTask, Ready, Late
<1> QED BY <1>2, <1>3, <1>4, <1>5, <1>6, <1>7, <1>8 DEF Next, Initialise, Raise, Handle, vars

LEMMA OwnedNext == Typed /\ Owned /\ [Next]_vars => Owned'
<1> SUFFICES ASSUME Typed, Owned, [Next]_vars
             PROVE  Owned'
    OBVIOUS
<1> USE DEF config, control, clocking, lines, drivers
<1>1. CASE Subscribe
  <2>1. turn \in Drivers /\ device' = device /\ handle \in [Devices -> Drivers \cup {NoDriver}]
        BY <1>1 DEF Subscribe, Typed, TypeOK
  <2>2. handle' = IF Dev \in Cans THEN [handle EXCEPT ![Dev] = turn] ELSE handle
        BY <1>1 DEF Subscribe
  <2> QED BY <2>1, <2>2 DEF Owned, Dev
<1>2. CASE uartInitHandle
  <2>1. /\ turn \in Drivers /\ device' = device /\ Dev \in Uarts
        /\ handle \in [Devices -> Drivers \cup {NoDriver}]
        BY <1>2, StepFacts, DevicesFacts DEF uartInitHandle, Typed, TypeOK, CanStages
  <2>2. <<"uart", getUartId(Dev)>> = Dev
        BY <2>1, DevicesFacts DEF getUartId
  <2>3. handle' = [handle EXCEPT ![Dev] = turn]
        BY <1>2, <2>2 DEF uartInitHandle
  <2> QED BY <2>1, <2>3 DEF Owned, Dev
<1>3. CASE UNCHANGED <<device, handle>>
      BY <1>3 DEF Owned
<1> QED BY <1>1, <1>2, <1>3
        DEF Next, Initialise, uartLowLevelInit, ClearPending, SetPriority,
            EnablePeripheralClock, uartInitFlexcom, ConfigurePins, configureMcanPck,
            Open, CreateSemaphores, SetConfig, StartTask, Step, Raise, Handle, vars

LEMMA ExpectedNext == Typed /\ Expected /\ [Next]_vars => Expected'
<1> SUFFICES ASSUME Typed, Expected, [Next]_vars
             PROVE  Expected'
    OBVIOUS
<1> USE DEF config, control, clocking, lines, drivers
<1>1. device' = device /\ armed \subseteq armed'
      BY DEF Next, Initialise, uartLowLevelInit, ClearPending, SetPriority, Subscribe,
             EnablePeripheralClock, uartInitFlexcom, ConfigurePins, configureMcanPck,
             uartInitHandle, Open, CreateSemaphores, SetConfig, StartTask, Step, Raise,
             Handle, vars
<1>2. \A i : Armed(i) => Armed(i)'
      BY <1>1 DEF Armed
<1>3. ASSUME pending' \subseteq pending, subscribed' = subscribed,
             stage' \notin {"priority", "subscribe"}
      PROVE  Expected'
      BY <1>2, <1>3 DEF Expected, CanBeTaken
<1>4. CASE ClearPending
  <2>1. Step("clear") /\ "clear" \in Stages
        BY <1>4 DEF ClearPending, Stages
  <2>2. Dev' = Dev
        BY <2>1, StageAfter
  <2>3. Line' = Line
        BY <1>4, <2>2 DEF ClearPending, Line
  <2>4. pending' = pending \ {Line} /\ subscribed' = subscribed
        BY <1>4 DEF ClearPending
  <2> QED BY <1>2, <2>3, <2>4 DEF Expected, CanBeTaken
<1>5. CASE SetPriority
  <2>1. Step("priority") /\ "priority" \in Stages /\ turn \in Drivers /\ stage = "priority"
        BY <1>5 DEF SetPriority, Stages, Step
  <2>2. Dev' = Dev
        BY <2>1, StageAfter
  <2>3. Line' = Line
        BY <1>5, <2>2 DEF SetPriority, Line
  <2>4. pending' = pending /\ subscribed' = subscribed
        BY <1>5 DEF SetPriority
  <2> QED BY <1>2, <2>1, <2>3, <2>4 DEF Expected, CanBeTaken
<1>6. CASE Subscribe
  <2>1. /\ turn \in Drivers /\ stage = "subscribe" /\ pending' = pending
        /\ subscribed' = [subscribed EXCEPT ![Line] = @ + 1]
        /\ stage' \notin {"priority", "subscribe"}
        BY <1>6 DEF Subscribe
  <2>2. Line \in pending => Armed(Line)
        BY <2>1 DEF Expected
  <2>3. ASSUME NEW i \in Devices, CanBeTaken(i)'
        PROVE  Armed(i)
    <3>1. i \in pending
          BY <2>1, <2>3 DEF CanBeTaken
    <3>2. CASE i = Line
          BY <2>2, <3>1, <3>2
    <3>3. CASE i # Line
      <4>1. subscribed[i] = subscribed'[i]
            BY <2>1, <3>3 DEF Typed, TypeOK
      <4> QED BY <2>3, <3>1, <4>1 DEF Expected, CanBeTaken
    <3> QED BY <3>2, <3>3
  <2> QED BY <1>2, <2>1, <2>3 DEF Expected
<1>7. ASSUME NEW d \in Drivers, Raise(d)
      PROVE  Expected'
  <2>1. /\ pending' = pending \cup {device[d]} /\ Armed(device[d])
        /\ UNCHANGED <<subscribed, armed, device, turn, stage, count>>
        BY <1>7 DEF Raise, Armed
  <2>2. Line' = Line
        BY <2>1 DEF Line, Dev
  <2> QED BY <1>2, <2>1, <2>2 DEF Expected, CanBeTaken
<1>8. CASE UNCHANGED <<config, control, subscribed>> /\ pending' \subseteq pending
  <2>1. Line' = Line
        BY <1>8 DEF Line, Dev
  <2> QED BY <1>2, <1>8, <2>1 DEF Expected, CanBeTaken
<1>9. CASE uartLowLevelInit \/ configureMcanPck \/ StartTask
  <2>1. stage' \notin {"priority", "subscribe"}
        BY <1>9 DEF uartLowLevelInit, configureMcanPck, StartTask, AfterCan, FirstStage
  <2> QED BY <1>3, <1>9, <2>1 DEF uartLowLevelInit, configureMcanPck, StartTask
<1>10. ASSUME NEW s \in {"pmc", "flexcom", "pio", "handle", "open", "semaphores", "configure"},
              Step(s)
       PROVE  stage' \notin {"priority", "subscribe"}
  <2>1. /\ Dev \in Devices
        /\ Dev \in Uarts => stage' = AfterUart[s]
        /\ Dev \in Cans => stage' = AfterCan[s] /\ s \in CanStages
        BY <1>10, StepFacts
  <2>2. CASE Dev \in Uarts
        BY <2>1, <2>2 DEF AfterUart
  <2>3. CASE Dev \in Cans
    <3>1. s \in {"pmc", "pio", "open", "semaphores", "configure"}
          BY <2>1, <2>3 DEF CanStages
    <3> QED BY <2>1, <2>3, <3>1 DEF AfterCan
  <2> QED BY <2>1, <2>2, <2>3, DevicesFacts
<1>11. CASE EnablePeripheralClock \/ uartInitFlexcom \/ ConfigurePins
              \/ uartInitHandle \/ Open \/ CreateSemaphores \/ SetConfig
       BY <1>3, <1>10, <1>11
          DEF EnablePeripheralClock, uartInitFlexcom, ConfigurePins,
              uartInitHandle, Open, CreateSemaphores, SetConfig
<1> QED BY <1>4, <1>5, <1>6, <1>7, <1>8, <1>9, <1>11
        DEF Next, Initialise, Handle, vars

(* Whenever a handler can run, the driver it works on has its objects.     *)
THEOREM HandlersFindDrivers == Spec => []HandlerFindsDriver
<1>1. Init => HandlerInv
  <2>1. Init => Expected
        BY DEF Init, Expected, CanBeTaken, FirstStage
  <2>2. Init => Ready
        BY DEF Init, Ready, FirstStage
  <2>3. Init => Owned
        BY DEF Init, Owned
  <2> QED BY <2>1, <2>2, <2>3 DEF HandlerInv
<1>2. Typed /\ HandlerInv /\ [Next]_vars => HandlerInv'
      BY ExpectedNext, ReadyNext, OwnedNext DEF HandlerInv
<1> QED BY <1>1, <1>2, HandlerInvSuffices, SpecTyped, PTL DEF Spec

-----------------------------------------------------------------------------
(* What the drivers share.                                                 *)

(* The configuration never changes.                                        *)
LEMMA ConfigKept == [Next]_vars => device' = device /\ pck' = pck
BY DEF Next, Initialise, uartLowLevelInit, ClearPending, SetPriority, Subscribe,
       EnablePeripheralClock, uartInitFlexcom, ConfigurePins, configureMcanPck,
       uartInitHandle, Open, CreateSemaphores, SetConfig, StartTask, Step, Raise,
       Handle, vars, config

(* Every step of a driver's initialisation within it, with its successor.  *)
Steps == {"clear", "priority", "pmc", "flexcom", "pio", "handle", "open", "semaphores",
          "configure"}

LEMMA Successor ==
  ASSUME Typed, NEW s \in Steps, Step(s)
  PROVE  /\ turn \in Drivers /\ turn' = turn /\ stage = s
         /\ Dev' = Dev /\ Dev \in Devices /\ device' = device
         /\ Dev \in Uarts =>
              stage' = CASE s = "clear" -> "priority" [] s = "priority" -> "subscribe"
                         [] s = "pmc" -> "flexcom" [] s = "flexcom" -> "pio"
                         [] s = "pio" -> "handle" [] s = "handle" -> "open"
                         [] s = "open" -> "configure" [] s = "configure" -> "semaphores"
                         [] s = "semaphores" -> "start"
         /\ Dev \in Cans =>
              /\ s \notin {"flexcom", "handle"}
              /\ stage' = CASE s = "pio" -> "pck" [] s = "clear" -> "priority"
                            [] s = "priority" -> "subscribe" [] s = "pmc" -> "open"
                            [] s = "open" -> "semaphores" [] s = "semaphores" -> "configure"
                            [] s = "configure" -> "start"
<1>1. /\ turn \in Drivers /\ turn' = turn /\ stage = s /\ device' = device /\ Dev \in Devices
      /\ Dev \in Uarts => stage' = AfterUart[s]
      /\ Dev \in Cans => stage' = AfterCan[s] /\ s \in CanStages
      BY StepFacts
<1>2. Dev' = Dev
      BY <1>1 DEF Dev
<1>3. CASE Dev \in Uarts
  <2>1. Dev \notin Cans
        BY <1>3, DevicesFacts
  <2> QED BY <1>1, <1>2, <1>3, <2>1 DEF AfterUart, Steps
<1>4. CASE Dev \in Cans
  <2>1. Dev \notin Uarts /\ s \notin {"flexcom", "handle"}
        BY <1>1, <1>4, DevicesFacts DEF CanStages
  <2> QED BY <1>1, <1>2, <1>4, <2>1 DEF AfterCan, Steps
<1> QED BY <1>1, <1>3, <1>4, DevicesFacts

-----------------------------------------------------------------------------
(* The clock of the CAN peripherals.                                       *)

(* The driver's CAN peripheral runs from a clock.                          *)
Clocked(d) == /\ device[d] \in Cans
              /\ d < turn \/ (d = turn /\ stage \notin {"pio", "pck", "fatal"})

PckInv ==
  /\ \A d \in Drivers : Clocked(d) => /\ firstConfig # NoDriver
                                      /\ pck[d] = pck[firstConfig]
                                      /\ gclk[device[d]] = pck[d]
  /\ firstConfig # NoDriver => Clocked(firstConfig)
  /\ stage = "fatal" => firstConfig # NoDriver /\ pck[firstConfig] # pck[turn]

LEMMA SameClockMeansSame ==
  ASSUME NEW p \in PckSettings, NEW q \in PckSettings
  PROVE  SameClock(p, q) <=> p = q
BY DEF PckSettings, SameClock

(* Only configureMcanPck gives a peripheral its clock.                     *)
LEMMA ClockedKept ==
  ASSUME Typed, [Next]_vars, ~configureMcanPck
  PROVE  /\ \A d \in Drivers : Clocked(d)' <=> Clocked(d)
         /\ UNCHANGED <<gclk, firstConfig>>
         /\ stage' = "fatal" => stage = "fatal" /\ turn' = turn
<1> USE DEF config, control, clocking, lines, drivers
<1>1. device' = device
      BY ConfigKept
<1>2. UNCHANGED <<gclk, firstConfig>>
      BY DEF Next, Initialise, uartLowLevelInit, ClearPending, SetPriority, Subscribe,
             EnablePeripheralClock, uartInitFlexcom, ConfigurePins,
             uartInitHandle, Open, CreateSemaphores, SetConfig, StartTask, Raise,
             Handle, vars
<1> DEFINE Goal == /\ \A d \in Drivers : Clocked(d)' <=> Clocked(d)
                   /\ stage' = "fatal" => stage = "fatal" /\ turn' = turn
<1> SUFFICES Goal
    BY <1>2
<1>3. ASSUME NEW s \in Steps, Step(s)
      PROVE  Goal
  <2>1. Dev = device[turn] /\ turn' = turn /\ stage = s /\ Dev \in Devices
        BY <1>3, Successor DEF Dev
  <2>2. CASE Dev \in Uarts
    <3>1. Dev \notin Cans /\ stage' # "fatal"
          BY <1>3, <2>2, Successor, DevicesFacts DEF Steps
    <3> QED BY <1>1, <2>1, <3>1 DEF Clocked
  <2>3. CASE Dev \in Cans
    <3>1. stage' # "fatal" /\ (stage' \in {"pio", "pck"} <=> s = "pio")
          BY <1>3, <2>3, Successor DEF Steps
    <3> QED BY <1>1, <2>1, <3>1 DEF Clocked, Steps
  <2> QED BY <2>1, <2>2, <2>3, DevicesFacts
<1>4. CASE uartLowLevelInit
  <2>1. turn \in Drivers /\ device[turn] \in Devices /\ turn' = turn
        BY <1>4 DEF uartLowLevelInit, Typed, TypeOK
  <2>2. device[turn] \notin Cans /\ stage' # "fatal"
        BY <1>4, <2>1, DevicesFacts DEF uartLowLevelInit, Typed, StageFits, CanStages
  <2> QED BY <1>1, <2>1, <2>2 DEF Clocked
<1>5. CASE Subscribe
  <2>1. turn' = turn /\ stage = "subscribe" /\ stage' \in {"pmc", "clear"}
        BY <1>5 DEF Subscribe
  <2> QED BY <1>1, <2>1 DEF Clocked
<1>6. CASE StartTask
  <2>1. turn \in Drivers /\ turn' = turn + 1 /\ stage = "start"
        BY <1>6 DEF StartTask
  <2>2. stage' # "fatal"
        BY <1>6 DEF StartTask, FirstStage
  <2>3. turn' \in Drivers => device[turn'] \in Uarts \/ stage' = "pio"
    <3> SUFFICES ASSUME turn' \in Drivers, device[turn + 1] \notin Uarts
                 PROVE  stage' = "pio"
        BY <2>1
    <3>1. turn < LastDriver
          BY <2>1, DriversAssumption DEF Drivers
    <3> QED BY <1>6, <3>1 DEF StartTask, FirstStage
  <2>4. ASSUME NEW d \in Drivers
        PROVE  Clocked(d)' <=> Clocked(d)
    <3>1. CASE d = turn'
      <4>1. device[d] \in Uarts => device[d] \notin Cans
            BY DevicesFacts
      <4>2. ~Clocked(d)'
            BY <1>1, <2>1, <2>3, <3>1, <4>1, DriversAssumption DEF Clocked, Drivers
      <4>3. ~Clocked(d)
            BY <2>1, <3>1, DriversAssumption DEF Clocked, Drivers
      <4> QED BY <4>2, <4>3
    <3>2. CASE d # turn'
          BY <1>1, <2>1, <3>2, DriversAssumption DEF Clocked, Drivers
    <3> QED BY <3>1, <3>2
  <2> QED BY <2>2, <2>4
<1>7. CASE UNCHANGED <<config, control>>
      BY <1>7 DEF Clocked
<1>8. CASE Initialise
  <2> HIDE DEF Goal
  <2>1. CASE \E s \in Steps : Step(s)
        BY <1>3, <2>1
  <2> QED BY <1>4, <1>5, <1>6, <1>8, <2>1
          DEF Initialise, ClearPending, SetPriority, EnablePeripheralClock, uartInitFlexcom,
              ConfigurePins, uartInitHandle, Open, CreateSemaphores, SetConfig, Steps
<1> HIDE DEF Goal
<1> QED BY <1>7, <1>8 DEF Next, Raise, Handle, vars

LEMMA PckStep ==
  ASSUME Typed, PckInv, configureMcanPck
  PROVE  PckInv'
<1> USE DEF config
<1>1. /\ turn \in Drivers /\ stage = "pck" /\ turn' = turn /\ device' = device /\ pck' = pck
      /\ firstConfig' = IF firstConfig = NoDriver THEN turn ELSE firstConfig
      BY DEF configureMcanPck
<1>2. /\ pck \in [Drivers -> PckSettings] /\ gclk \in [Cans -> PckSettings]
      /\ firstConfig \in Drivers \cup {NoDriver} /\ turn # NoDriver
      BY <1>1, DriversAssumption DEF Typed, TypeOK, Drivers, NoDriver
<1>3. firstConfig' \in Drivers /\ firstConfig' # NoDriver
      BY <1>1, <1>2, DriversAssumption DEF Drivers, NoDriver
<1>4. Dev = device[turn] /\ Dev \in Cans
      BY <1>1, DevicesFacts DEF Typed, TypeOK, StageFits, UartStages, Dev
<1>5. \A d \in Drivers : Clocked(d) => d < turn /\ device[d] # Dev
      BY <1>1, <1>4, DriversAssumption DEF Clocked, Typed, Distinct, Drivers
<1>6. CASE SameClock(pck[firstConfig'], pck[turn])
  <2>1. gclk' = [gclk EXCEPT ![Dev] = pck[turn]] /\ stage' = "clear"
        BY <1>6 DEF configureMcanPck, AfterCan
  <2>2. pck[firstConfig'] = pck[turn]
        BY <1>1, <1>2, <1>3, <1>6, SameClockMeansSame
  <2>3. \A d \in Drivers : Clocked(d)' <=> Clocked(d) \/ d = turn
        BY <1>1, <1>4, <1>5, <2>1 DEF Clocked
  <2>4. ASSUME NEW d \in Drivers, Clocked(d)'
        PROVE  pck[d] = pck[firstConfig'] /\ gclk'[device[d]] = pck[d]
    <3>1. CASE d = turn
          BY <1>2, <1>4, <2>1, <2>2, <3>1
    <3>2. CASE d # turn
      <4>1. Clocked(d) /\ device[d] # Dev /\ device[d] \in Cans
            BY <1>5, <2>3, <2>4, <3>2 DEF Clocked
      <4> QED BY <1>1, <1>2, <2>1, <4>1 DEF PckInv
    <3> QED BY <3>1, <3>2
  <2>5. device[firstConfig'] \in Cans /\ (firstConfig' < turn \/ firstConfig' = turn)
    <3>1. CASE firstConfig = NoDriver
      <4>1. firstConfig' = turn
            BY <1>1, <3>1
      <4> QED BY <1>4, <4>1
    <3>2. CASE firstConfig # NoDriver
      <4>1. firstConfig' = firstConfig /\ Clocked(firstConfig) /\ firstConfig \in Drivers
            BY <1>1, <1>2, <3>2 DEF PckInv
      <4> QED BY <1>5, <4>1 DEF Clocked
    <3> QED BY <3>1, <3>2
  <2>6. Clocked(firstConfig)'
        BY <1>1, <2>1, <2>5 DEF Clocked
  <2> QED BY <1>1, <1>3, <2>1, <2>4, <2>6 DEF PckInv
<1>7. CASE ~SameClock(pck[firstConfig'], pck[turn])
  <2>1. gclk' = gclk /\ stage' = "fatal"
        BY <1>7 DEF configureMcanPck
  <2>2. pck[firstConfig'] # pck[turn]
        BY <1>1, <1>2, <1>3, <1>7, SameClockMeansSame
  <2>3. firstConfig # NoDriver /\ firstConfig' = firstConfig
        BY <1>1, <2>2
  <2>4. \A d \in Drivers : Clocked(d)' <=> Clocked(d)
        BY <1>1, <1>5, <2>1 DEF Clocked
  <2>5. Clocked(firstConfig) /\ firstConfig \in Drivers
        BY <1>2, <2>3 DEF PckInv
  <2>6. firstConfig < turn /\ device[firstConfig] \in Cans
        BY <1>5, <2>5 DEF Clocked
  <2>7. Clocked(firstConfig)'
        BY <1>1, <2>3, <2>6 DEF Clocked
  <2> QED BY <1>1, <2>1, <2>2, <2>3, <2>4, <2>7 DEF PckInv
<1> QED BY <1>6, <1>7

(* The CAN peripherals in use run from one clock, the one each driver was  *)
(* configured for, and the assertion fails only if they differ.            *)
THEOREM ClockIsShared == Spec => []PckAgrees
<1>1. Init => PckInv
  <2> SUFFICES ASSUME Init
               PROVE  PckInv
      OBVIOUS
  <2>1. /\ turn = 1 /\ 1 \in Drivers /\ firstConfig = NoDriver
        /\ stage = FirstStage(device[1])
        BY DriversAssumption DEF Init, Drivers
  <2>2. stage # "fatal" /\ (device[1] \in Cans => stage = "pio")
        BY <2>1, DevicesFacts DEF FirstStage
  <2>3. \A d \in Drivers : ~Clocked(d)
        BY <2>1, <2>2, DriversAssumption DEF Clocked, Drivers
  <2> QED BY <2>1, <2>2, <2>3 DEF PckInv
<1>2. Typed /\ PckInv /\ [Next]_vars => PckInv'
  <2> SUFFICES ASSUME Typed, PckInv, [Next]_vars, ~configureMcanPck
               PROVE  PckInv'
      BY PckStep
  <2>1. /\ \A d \in Drivers : Clocked(d)' <=> Clocked(d)
        /\ gclk' = gclk /\ firstConfig' = firstConfig
        /\ stage' = "fatal" => stage = "fatal" /\ turn' = turn
        BY ClockedKept
  <2>2. device' = device /\ pck' = pck
        BY ConfigKept
  <2>3. firstConfig # NoDriver => firstConfig \in Drivers
        BY DEF Typed, TypeOK
  <2>4. (firstConfig # NoDriver => Clocked(firstConfig))'
    <3> SUFFICES ASSUME firstConfig # NoDriver
                 PROVE  Clocked(firstConfig)'
        BY <2>1
    <3>1. (Clocked(firstConfig) <=> device[firstConfig] \in Cans
             /\ (firstConfig < turn \/ (firstConfig = turn /\ stage \notin {"pio", "pck", "fatal"})))'
          BY DEF Clocked
    <3>2. device[firstConfig] \in Cans
            /\ (firstConfig < turn' \/ (firstConfig = turn' /\ stage' \notin {"pio", "pck", "fatal"}))
          BY <2>1, <2>2, <2>3 DEF Clocked, PckInv
    <3> QED BY <2>1, <2>2, <3>1, <3>2
  <2> QED BY <2>1, <2>2, <2>4 DEF PckInv
<1>3. Typed /\ PckInv => PckAgrees
  <2> SUFFICES ASSUME Typed, PckInv
               PROVE  PckAgrees
      OBVIOUS
  <2>1. ASSUME NEW d \in Drivers, d < turn, device[d] \in Cans
        PROVE  pck[d] = pck[firstConfig] /\ gclk[device[d]] = pck[d]
        BY <2>1 DEF PckInv, Clocked
  <2>2. ASSUME stage = "fatal"
        PROVE  /\ firstConfig \in Drivers /\ firstConfig < turn
               /\ device[firstConfig] \in Cans /\ pck[firstConfig] # pck[turn]
        BY <2>2 DEF PckInv, Clocked, Typed, TypeOK
  <2> QED BY <2>1, <2>2 DEF PckAgrees
<1> QED BY <1>1, <1>2, <1>3, SpecTyped, PTL DEF Spec

-----------------------------------------------------------------------------
(* Pins.                                                                   *)

Roles == {"tx", "rx", "standby"}

LEMMA UartPins ==
  ASSUME NEW m \in 0..9, NEW n \in 0..9, m # n
  PROVE  /\ getUartTxPin[m + 1] # getUartTxPin[n + 1]
         /\ getUartRxPin[m + 1] # getUartRxPin[n + 1]
         /\ getUartTxPin[m + 1] # getUartRxPin[n + 1]
<1>1. m \in {0, 1, 2, 3, 4, 5, 6, 7, 8, 9} /\ n \in {0, 1, 2, 3, 4, 5, 6, 7, 8, 9}
      OBVIOUS
<1> QED BY <1>1, SMTT(60) DEF getUartTxPin, getUartRxPin

LEMMA UartPin ==
  ASSUME NEW m \in 0..9
  PROVE  /\ getUartTxPin[m + 1] \in Pins /\ getUartRxPin[m + 1] \in Pins
         /\ getUartTxPin[m + 1] # getUartRxPin[m + 1]
         /\ getUartTxPin[m + 1] \in {<<"B", 6>>, <<"B", 7>>} => m = 6
         /\ getUartRxPin[m + 1] \in {<<"B", 6>>, <<"B", 7>>} => m = 6
         /\ getUartTxPin[m + 1] \in {<<"B", 4>>, <<"B", 5>>} => m = 7
         /\ getUartRxPin[m + 1] \in {<<"B", 4>>, <<"B", 5>>} => m = 7
         /\ getUartTxPin[m + 1] \notin {<<"C", 7>>, <<"G", 30>>}
         /\ getUartRxPin[m + 1] \notin {<<"C", 7>>, <<"G", 30>>}
<1>1. m \in {0, 1, 2, 3, 4, 5, 6, 7, 8, 9}
      OBVIOUS
<1> QED BY <1>1, SMTT(60) DEF getUartTxPin, getUartRxPin, Pins

(* A pin has one role in a driver.                                         *)
LEMMA OneRole ==
  ASSUME NEW dev \in Devices
  PROVE  /\ \A u \in Uses(dev) : u[1] \in Pins /\ u[2] \in Roles /\ u = <<u[1], u[2]>>
         /\ \A u, v \in Uses(dev) : u[1] = v[1] => u[2] = v[2]
<1>1. CASE dev \in Uarts
  <2>1. dev[2] \in 0..9
        BY <1>1, DevicesFacts
  <2> QED BY <1>1, <2>1, UartPin DEF Uses, Roles
<1>2. CASE dev \in Cans
  <2>1. dev \notin Uarts
        BY <1>2, DevicesFacts
  <2> QED BY <1>2, <2>1 DEF Uses, Can0Pins, Can1Pins, Pins, Roles
<1> QED BY <1>1, <1>2, DevicesFacts

(* Drivers that can work together use different pins.                      *)
LEMMA UartCanPins ==
  ASSUME NEW a \in Uarts, NEW b \in Cans, Compatible(a, b),
         NEW u \in Uses(a), NEW v \in Uses(b)
  PROVE  u[1] # v[1]
<1>1. PICK m \in 0..9 : a = <<"uart", m>>
      BY DEF Uarts
<1>2. u[1] \in {getUartTxPin[m + 1], getUartRxPin[m + 1]}
      BY <1>1 DEF Uses
<1>3. b \notin Uarts
      BY DevicesFacts
<1>4. CASE b = <<"can", 0>>
  <2>1. m # 6
        BY <1>1, <1>4 DEF Compatible
  <2>2. v[1] \in {<<"B", 6>>, <<"B", 7>>, <<"C", 7>>}
        BY <1>3, <1>4 DEF Uses, Can0Pins
  <2> QED BY <1>2, <2>1, <2>2, UartPin
<1>5. CASE b = <<"can", 1>>
  <2>1. m # 7
        BY <1>1, <1>5 DEF Compatible
  <2>2. v[1] \in {<<"B", 4>>, <<"B", 5>>, <<"G", 30>>}
        BY <1>3, <1>5 DEF Uses, Can1Pins
  <2> QED BY <1>2, <2>1, <2>2, UartPin
<1> QED BY <1>4, <1>5 DEF Cans

LEMMA PinsDisjoint ==
  ASSUME NEW a \in Devices, NEW b \in Devices, Compatible(a, b),
         NEW u \in Uses(a), NEW v \in Uses(b)
  PROVE  u[1] # v[1]
<1>1. CASE a \in Uarts /\ b \in Uarts
  <2>1. PICK m \in 0..9, n \in 0..9 : a = <<"uart", m>> /\ b = <<"uart", n>>
        BY <1>1 DEF Uarts
  <2>2. m # n
        BY <2>1 DEF Compatible
  <2>3. /\ u[1] \in {getUartTxPin[m + 1], getUartRxPin[m + 1]}
        /\ v[1] \in {getUartTxPin[n + 1], getUartRxPin[n + 1]}
        BY <1>1, <2>1 DEF Uses
  <2> QED BY <2>2, <2>3, UartPins
<1>2. CASE a \in Uarts /\ b \in Cans
      BY <1>2, UartCanPins
<1>3. CASE a \in Cans /\ b \in Uarts
  <2>1. Compatible(b, a)
        BY DEF Compatible
  <2> QED BY <1>3, <2>1, UartCanPins
<1>4. CASE a \in Cans /\ b \in Cans
  <2>1. a \notin Uarts /\ b \notin Uarts
        BY <1>4, DevicesFacts
  <2>2. (a = <<"can", 0>> /\ b = <<"can", 1>>) \/ (a = <<"can", 1>> /\ b = <<"can", 0>>)
        BY <1>4 DEF Cans, Compatible
  <2> QED BY <2>1, <2>2 DEF Uses, Can0Pins, Can1Pins
<1> QED BY <1>1, <1>2, <1>3, <1>4, DevicesFacts

-----------------------------------------------------------------------------
(* How far a driver's initialisation has come.                             *)

(* The steps that matter, by the stages they lead from and to.             *)
Moves ==
  /\ Dev \in Uarts =>
       \/ stage = "lowlevel" /\ stage' \in {"pmc", "clear"} /\ uartLowLevelInit
       \/ stage = "clear" /\ stage' = "priority" /\ ClearPending
       \/ stage = "priority" /\ stage' = "subscribe" /\ SetPriority
       \/ stage = "subscribe" /\ stage' \in {"pmc", "clear"} /\ Subscribe
       \/ stage = "pmc" /\ stage' = "flexcom" /\ EnablePeripheralClock
       \/ stage = "flexcom" /\ stage' = "pio" /\ uartInitFlexcom
       \/ stage = "pio" /\ stage' = "handle" /\ ConfigurePins
       \/ stage = "handle" /\ stage' = "open" /\ uartInitHandle
       \/ stage = "open" /\ stage' = "configure" /\ Open
       \/ stage = "configure" /\ stage' = "semaphores" /\ SetConfig
       \/ stage = "semaphores" /\ stage' = "start" /\ CreateSemaphores
  /\ Dev \in Cans =>
       \/ stage = "pio" /\ stage' = "pck" /\ ConfigurePins
       \/ stage = "pck" /\ stage' \in {"clear", "fatal"} /\ configureMcanPck
       \/ stage = "clear" /\ stage' = "priority" /\ ClearPending
       \/ stage = "priority" /\ stage' = "subscribe" /\ SetPriority
       \/ stage = "subscribe" /\ stage' = "pmc" /\ Subscribe
       \/ stage = "pmc" /\ stage' = "open" /\ EnablePeripheralClock
       \/ stage = "open" /\ stage' = "semaphores" /\ Open
       \/ stage = "semaphores" /\ stage' = "configure" /\ CreateSemaphores
       \/ stage = "configure" /\ stage' = "start" /\ SetConfig

(* A step is one of these, the last of a driver's initialisation or an     *)
(* interrupt.                                                              *)
LEMMA StepKinds ==
  ASSUME Typed, [Next]_vars
  PROVE  \/ /\ turn \in Drivers /\ turn' = turn
            /\ Dev = device[turn] /\ Dev \in Devices /\ Dev' = Dev
            /\ Moves
         \/ StartTask
         \/ UNCHANGED <<config, control, clocking, lines>>
<1> USE DEF config
<1> DEFINE Goal == \/ /\ turn \in Drivers /\ turn' = turn
                      /\ Dev = device[turn] /\ Dev \in Devices /\ Dev' = Dev
                      /\ Moves
                   \/ StartTask
                   \/ UNCHANGED <<config, control, clocking, lines>>
<1> SUFFICES Goal
    OBVIOUS
<1>1. CASE uartLowLevelInit
  <2>1. turn \in Drivers /\ turn' = turn /\ device[turn] \in Devices /\ device' = device
        BY <1>1 DEF uartLowLevelInit, Typed, TypeOK
  <2>2. device[turn] \notin Cans
        BY <1>1, <2>1 DEF uartLowLevelInit, Typed, StageFits, CanStages
  <2> QED BY <1>1, <2>1, <2>2 DEF uartLowLevelInit, Moves, Dev
<1>2. CASE Subscribe
  <2>1. /\ turn \in Drivers /\ turn' = turn /\ device[turn] \in Devices /\ device' = device
        /\ stage = "subscribe"
        BY <1>2 DEF Subscribe, Typed, TypeOK
  <2>2. stage' \in {"pmc", "clear"} /\ (Dev \in Cans => stage' = "pmc")
        BY <1>2 DEF Subscribe, LastLine
  <2> QED BY <1>2, <2>1, <2>2 DEF Moves, Dev
<1>3. CASE configureMcanPck
  <2>1. /\ turn \in Drivers /\ turn' = turn /\ device[turn] \in Devices /\ device' = device
        /\ stage = "pck" /\ stage' \in {"clear", "fatal"}
        BY <1>3 DEF configureMcanPck, Typed, TypeOK, AfterCan
  <2>2. device[turn] \notin Uarts
        BY <1>3, <2>1 DEF Typed, StageFits, UartStages
  <2> QED BY <1>3, <2>1, <2>2 DEF Moves, Dev
<1>4. ASSUME NEW s \in Steps, Step(s),
             \/ s = "clear" /\ ClearPending
             \/ s = "priority" /\ SetPriority
             \/ s = "pmc" /\ EnablePeripheralClock
             \/ s = "flexcom" /\ uartInitFlexcom
             \/ s = "pio" /\ ConfigurePins
             \/ s = "handle" /\ uartInitHandle
             \/ s = "open" /\ Open
             \/ s = "semaphores" /\ CreateSemaphores
             \/ s = "configure" /\ SetConfig
      PROVE  Goal
  <2>1. /\ turn \in Drivers /\ turn' = turn /\ stage = s
        /\ Dev' = Dev /\ Dev \in Devices
        BY <1>4, Successor
  <2>2. ASSUME Dev \in Uarts
        PROVE  Dev \notin Cans /\ Moves
    <3>1. Dev \notin Cans
          BY <2>2, DevicesFacts
    <3> QED BY <1>4, <2>1, <2>2, <3>1, Successor DEF Moves, Steps
  <2>3. ASSUME Dev \in Cans
        PROVE  Dev \notin Uarts /\ Moves
    <3>1. Dev \notin Uarts
          BY <2>3, DevicesFacts
    <3> QED BY <1>4, <2>1, <2>3, <3>1, Successor DEF Moves, Steps
  <2> QED BY <2>1, <2>2, <2>3, DevicesFacts DEF Dev
<1> HIDE DEF Goal
<1>5. CASE Initialise
  <2>1. CASE StartTask
        BY <2>1 DEF Goal
  <2>2. CASE uartLowLevelInit \/ Subscribe \/ configureMcanPck
        BY <1>1, <1>2, <1>3, <2>2 DEF Goal
  <2>3. ASSUME \/ ClearPending \/ SetPriority \/ EnablePeripheralClock \/ uartInitFlexcom
               \/ ConfigurePins \/ uartInitHandle \/ Open \/ CreateSemaphores \/ SetConfig
        PROVE  Goal
    <3>1. /\ ClearPending => Step("clear")
          /\ SetPriority => Step("priority")
          /\ EnablePeripheralClock => Step("pmc")
          /\ uartInitFlexcom => Step("flexcom")
          /\ ConfigurePins => Step("pio")
          /\ uartInitHandle => Step("handle")
          /\ Open => Step("open")
          /\ CreateSemaphores => Step("semaphores")
          /\ SetConfig => Step("configure")
          BY DEF ClearPending, SetPriority, EnablePeripheralClock, uartInitFlexcom,
                 ConfigurePins, uartInitHandle, Open, CreateSemaphores, SetConfig
    <3>2. CASE ClearPending
          BY <1>4, <3>1, <3>2 DEF Steps
    <3>3. CASE SetPriority
          BY <1>4, <3>1, <3>3 DEF Steps
    <3>4. CASE EnablePeripheralClock
          BY <1>4, <3>1, <3>4 DEF Steps
    <3>5. CASE uartInitFlexcom
          BY <1>4, <3>1, <3>5 DEF Steps
    <3>6. CASE ConfigurePins
          BY <1>4, <3>1, <3>6 DEF Steps
    <3>7. CASE uartInitHandle
          BY <1>4, <3>1, <3>7 DEF Steps
    <3>8. CASE Open
          BY <1>4, <3>1, <3>8 DEF Steps
    <3>9. CASE CreateSemaphores
          BY <1>4, <3>1, <3>9 DEF Steps
    <3>10. CASE SetConfig
          BY <1>4, <3>1, <3>10 DEF Steps
    <3> QED BY <2>3, <3>2, <3>3, <3>4, <3>5, <3>6, <3>7, <3>8, <3>9, <3>10
  <2> QED BY <1>5, <2>1, <2>2, <2>3 DEF Initialise
<1>6. CASE UNCHANGED <<config, control, clocking, lines>>
      BY <1>6 DEF Goal
<1> QED BY <1>5, <1>6 DEF Next, Raise, Handle, vars

(* Driver d has come to one of the stages given or further.                *)
Past(d, uart, can) == \/ d < turn
                      \/ /\ d = turn
                         /\ device[d] \in Uarts => stage \in uart
                         /\ device[d] \in Cans => stage \in can

(* It gets there by a step of its own.                                     *)
LEMMA PastBySteps ==
  ASSUME Typed, [Next]_vars, NEW d \in Drivers,
         NEW uart, NEW can, "start" \in uart, "start" \in can,
         "lowlevel" \notin uart, "pio" \notin can,
         Past(d, uart, can)', ~Past(d, uart, can)
  PROVE  /\ d = turn /\ turn' = turn /\ Dev = device[d] /\ Dev \in Devices /\ Moves
         /\ Dev \in Uarts => stage' \in uart /\ stage \notin uart
         /\ Dev \in Cans => stage' \in can /\ stage \notin can
<1> USE DEF config, control
<1>1. device' = device
      BY ConfigKept
<1>2. device[d] \in Devices
      BY DEF Typed, TypeOK
<1>3. device[d] \in Uarts => device[d] \notin Cans
      BY DevicesFacts
<1>4. CASE StartTask
  <2>1. turn \in Drivers /\ turn' = turn + 1 /\ stage = "start"
        BY <1>4 DEF StartTask
  <2>2. d = turn'
        BY <1>1, <2>1, DriversAssumption DEF Past, Drivers
  <2>3. stage' = FirstStage(device[d])
        BY <1>4, <2>1, <2>2, DriversAssumption DEF StartTask, Drivers
  <2>4. ~Past(d, uart, can)'
        BY <1>1, <1>2, <1>3, <2>2, <2>3, DevicesFacts, DriversAssumption
           DEF Past, FirstStage, Drivers
  <2> QED BY <2>4
<1>5. CASE UNCHANGED <<config, control, clocking, lines>>
      BY <1>5 DEF Past
<1>6. CASE turn' = turn /\ Moves /\ Dev = device[turn]
  <2>1. d = turn
        BY <1>1, <1>6 DEF Past
  <2> QED BY <1>1, <1>2, <1>3, <1>6, <2>1 DEF Past
<1> QED BY <1>4, <1>5, <1>6, StepKinds

(* It never gets back.                                                     *)
LEMMA PastStays ==
  ASSUME Typed, [Next]_vars, NEW d \in Drivers, NEW uart, NEW can,
         Past(d, uart, can),
         Moves /\ Dev \in Uarts /\ stage \in uart => stage' \in uart,
         Moves /\ Dev \in Cans /\ stage \in can => stage' \in can
  PROVE  Past(d, uart, can)'
<1> USE DEF config, control
<1>1. device' = device
      BY ConfigKept
<1>2. CASE StartTask
      BY <1>1, <1>2, DriversAssumption DEF Past, StartTask, Drivers
<1>3. CASE UNCHANGED <<config, control, clocking, lines>>
      BY <1>3 DEF Past
<1>4. CASE turn' = turn /\ Moves /\ Dev = device[turn]
      BY <1>1, <1>4 DEF Past
<1> QED BY <1>2, <1>3, <1>4, StepKinds

-----------------------------------------------------------------------------
(* What a driver has set up by then.                                       *)

LastStages == {"configure", "semaphores", "start"}
AfterPins == {"handle", "open"} \cup LastStages
AfterClock == {"flexcom", "pio"} \cup AfterPins
AfterMode == {"pio"} \cup AfterPins
AfterHandle == {"open"} \cup LastStages
CanAfterPins == CanStages \ {"pio"}
CanAfterClock == {"open"} \cup LastStages
CanAfterSubscribe == {"pmc"} \cup CanAfterClock
AfterLowLevel == UartStages \ {"lowlevel"}

HasPins(d) == \A use \in Uses(device[d]) : pins[use[1]] = <<device[d], use[2]>>

Placed == \A c, d \in Drivers : c # d => Compatible(device[c], device[d])

PinsInv == \A d \in Drivers : Past(d, AfterPins, CanAfterPins) => HasPins(d)

ClocksInv == \A d \in Drivers : Past(d, AfterClock, CanAfterClock) => device[d] \in clocks

ModeInv == \A d \in Drivers : device[d] \in Uarts /\ Past(d, AfterMode, {"start"})
                                => getFlexcomId(device[d]) \in flexcom

HandleInv == \A d \in Drivers : Past(d, AfterHandle, CanAfterSubscribe)
                                  => handle[device[d]] = d

CanLines == \A d \in Drivers : device[d] \in Cans
              => subscribed[device[d]] = IF Past(d, {"start"}, CanAfterSubscribe) THEN 1 ELSE 0

(* The first serial driver subscribes the lines of all FLEXCOMs.           *)
UartInLoop == turn \in Drivers /\ Dev \in Uarts /\ InLoop

UartLines ==
  /\ \A n \in 0..9 : subscribed[<<"uart", n>>]
                       = IF inited /\ (UartInLoop => n < count) THEN 1 ELSE 0
  /\ \A d \in Drivers : device[d] \in Uarts /\ Past(d, AfterLowLevel, {"start"}) => inited
  /\ UartInLoop => \A d \in Drivers : d < turn => device[d] \notin Uarts

DeviceInv == Placed /\ PinsInv /\ ClocksInv /\ ModeInv /\ HandleInv /\ CanLines /\ UartLines

LEMMA InitPast ==
  ASSUME Init, NEW d \in Drivers, NEW uart, NEW can, "lowlevel" \notin uart, "pio" \notin can
  PROVE  ~Past(d, uart, can)
<1>1. /\ turn = 1 /\ 1 \in Drivers /\ device[1] \in Devices /\ stage = FirstStage(device[1])
      BY DriversAssumption DEF Init, Drivers
<1>2. ~(d < 1)
      BY DriversAssumption DEF Drivers
<1> QED BY <1>1, <1>2, DevicesFacts DEF Past, FirstStage

LEMMA InitDevice == Init => DeviceInv
<1> SUFFICES ASSUME Init
             PROVE  DeviceInv
    OBVIOUS
<1>1. Placed
      BY DEF Init, Placed
<1>2. PinsInv /\ ClocksInv /\ ModeInv /\ HandleInv
  <2>1. \A d \in Drivers : /\ ~Past(d, AfterPins, CanAfterPins)
                           /\ ~Past(d, AfterClock, CanAfterClock)
                           /\ ~Past(d, AfterMode, {"start"})
                           /\ ~Past(d, AfterHandle, CanAfterSubscribe)
        BY InitPast DEF AfterPins, CanAfterPins, AfterClock, CanAfterClock, AfterMode,
                        AfterHandle, CanAfterSubscribe, LastStages
  <2> QED BY <2>1 DEF PinsInv, ClocksInv, ModeInv, HandleInv
<1>3. CanLines
  <2>1. \A d \in Drivers : ~Past(d, {"start"}, CanAfterSubscribe)
        BY InitPast DEF CanAfterClock, CanAfterSubscribe, LastStages
  <2>2. \A i \in Devices : subscribed[i] = 0
        BY DEF Init
  <2> QED BY <2>1, <2>2, DevicesFacts DEF CanLines
<1>4. UartLines
  <2>1. \A d \in Drivers : ~Past(d, AfterLowLevel, {"start"})
        BY InitPast DEF AfterLowLevel
  <2>2. \A i \in Devices : subscribed[i] = 0
        BY DEF Init
  <2>3. ~inited /\ ~UartInLoop
        BY DEF Init, UartInLoop, InLoop, FirstStage
  <2> QED BY <2>1, <2>2, <2>3, DevicesFacts DEF UartLines
<1> QED BY <1>1, <1>2, <1>3, <1>4 DEF DeviceInv

LEMMA PinsNext ==
  ASSUME Typed, Placed, PinsInv, [Next]_vars
  PROVE  PinsInv'
<1> USE DEF config, control, clocking, lines, drivers
<1> SUFFICES ASSUME NEW d \in Drivers, Past(d, AfterPins, CanAfterPins)'
             PROVE  HasPins(d)'
    BY DEF PinsInv
<1>1. device' = device /\ device[d] \in Devices
      BY ConfigKept DEF Typed, TypeOK
<1>2. CASE ConfigurePins
  <2>1. turn \in Drivers /\ Dev = device[turn] /\ Dev \in Devices /\ turn' = turn /\ stage = "pio"
        BY <1>2, StepFacts DEF ConfigurePins, Dev
  <2>2. \A p \in Pins : pins'[p] = IF \E role \in Roles : <<p, role>> \in Uses(Dev)
                                     THEN <<Dev, CHOOSE role \in Roles : <<p, role>> \in Uses(Dev)>>
                                     ELSE pins[p]
        BY <1>2 DEF ConfigurePins, Roles
  <2>3. CASE d = turn
    <3> SUFFICES ASSUME NEW use \in Uses(Dev)
                 PROVE  pins'[use[1]] = <<Dev, use[2]>>
        BY <1>1, <2>1, <2>3 DEF HasPins
    <3>1. use[1] \in Pins /\ use[2] \in Roles /\ <<use[1], use[2]>> \in Uses(Dev)
          BY <2>1, OneRole
    <3>2. (CHOOSE role \in Roles : <<use[1], role>> \in Uses(Dev)) = use[2]
      <4>1. ASSUME NEW role \in Roles, <<use[1], role>> \in Uses(Dev)
            PROVE  role = use[2]
        <5>1. <<use[1], role>>[1] = use[1] /\ <<use[1], role>>[2] = role
              OBVIOUS
        <5> QED BY <2>1, <4>1, <5>1, OneRole
      <4> QED BY <3>1, <4>1
    <3> QED BY <2>2, <3>1, <3>2
  <2>4. CASE d # turn
    <3>1. Past(d, AfterPins, CanAfterPins)
          BY <1>1, <2>1, <2>4 DEF Past
    <3>2. Compatible(device[d], Dev)
          BY <2>1, <2>4 DEF Placed
    <3> SUFFICES ASSUME NEW use \in Uses(device[d])
                 PROVE  pins'[use[1]] = <<device[d], use[2]>>
        BY <1>1 DEF HasPins
    <3>3. use[1] \in Pins
          BY <1>1, OneRole
    <3>4. ASSUME NEW role \in Roles
          PROVE  <<use[1], role>> \notin Uses(Dev)
      <4> SUFFICES ASSUME <<use[1], role>> \in Uses(Dev)
                   PROVE  FALSE
          OBVIOUS
      <4>1. <<use[1], role>>[1] # use[1]
            BY <1>1, <2>1, <3>2, PinsDisjoint
      <4> QED BY <4>1
    <3>5. pins'[use[1]] = pins[use[1]]
          BY <2>2, <3>3, <3>4
    <3> QED BY <3>1, <3>5 DEF PinsInv, HasPins
  <2> QED BY <2>3, <2>4
<1>3. CASE ~ConfigurePins
  <2>1. pins' = pins
        BY <1>3 DEF Next, Initialise, uartLowLevelInit, ClearPending, SetPriority, Subscribe,
             EnablePeripheralClock, uartInitFlexcom, configureMcanPck,
             uartInitHandle, Open, CreateSemaphores, SetConfig, StartTask, Raise, Handle, vars
  <2>2. Past(d, AfterPins, CanAfterPins)
    <3> SUFFICES ASSUME ~Past(d, AfterPins, CanAfterPins)
                 PROVE  FALSE
        OBVIOUS
    <3>1. /\ "start" \in AfterPins /\ "start" \in CanAfterPins
          /\ "lowlevel" \notin AfterPins /\ "pio" \notin CanAfterPins
          BY DEF AfterPins, CanAfterPins, LastStages, CanStages
    <3>2. /\ Moves /\ Dev \in Devices
          /\ Dev \in Uarts => stage' \in AfterPins /\ stage \notin AfterPins
          /\ Dev \in Cans => stage' \in CanAfterPins /\ stage \notin CanAfterPins
          BY <3>1, PastBySteps
    <3>3. Dev \in Uarts => ConfigurePins
          BY <3>2 DEF Moves, AfterPins, LastStages
    <3>4. Dev \in Cans => ConfigurePins
          BY <3>2 DEF Moves, CanAfterPins, CanStages
    <3> QED BY <1>3, <3>2, <3>3, <3>4, DevicesFacts
  <2> QED BY <1>1, <2>1, <2>2 DEF PinsInv, HasPins
<1> QED BY <1>2, <1>3

LEMMA ClocksNext ==
  ASSUME Typed, ClocksInv, [Next]_vars
  PROVE  ClocksInv'
<1> USE DEF config, control, clocking, lines, drivers
<1> SUFFICES ASSUME NEW d \in Drivers, Past(d, AfterClock, CanAfterClock)'
             PROVE  (device[d] \in clocks)'
    BY DEF ClocksInv
<1>1. device' = device /\ device[d] \in Devices
      BY ConfigKept DEF Typed, TypeOK
<1>2. clocks \subseteq clocks'
      BY DEF Next, Initialise, uartLowLevelInit, ClearPending, SetPriority, Subscribe,
             EnablePeripheralClock, uartInitFlexcom, ConfigurePins, configureMcanPck,
             uartInitHandle, Open, CreateSemaphores, SetConfig, StartTask, Raise, Handle, vars
<1>3. CASE Past(d, AfterClock, CanAfterClock)
      BY <1>1, <1>2, <1>3 DEF ClocksInv
<1>4. CASE ~Past(d, AfterClock, CanAfterClock)
  <2>1. /\ "start" \in AfterClock /\ "start" \in CanAfterClock
        /\ "lowlevel" \notin AfterClock /\ "pio" \notin CanAfterClock
        BY DEF AfterClock, AfterPins, CanAfterClock, LastStages
  <2>2. /\ d = turn /\ Dev = device[d] /\ Dev \in Devices /\ Moves
        /\ Dev \in Uarts => stage' \in AfterClock /\ stage \notin AfterClock
        /\ Dev \in Cans => stage' \in CanAfterClock /\ stage \notin CanAfterClock
        BY <1>4, <2>1, PastBySteps
  <2>3. Dev \in Uarts => EnablePeripheralClock
        BY <2>2 DEF Moves, AfterClock, AfterPins, LastStages
  <2>4. Dev \in Cans => EnablePeripheralClock
        BY <2>2 DEF Moves, CanAfterClock, LastStages
  <2>5. clocks' = clocks \cup {PeripheralId(Dev)}
        BY <2>2, <2>3, <2>4, DevicesFacts DEF EnablePeripheralClock
  <2>6. PeripheralId(Dev) = Dev
        BY <2>2, DevicesFacts DEF PeripheralId, getUartPeripheralId, getUartId
  <2> QED BY <1>1, <2>2, <2>5, <2>6
<1> QED BY <1>3, <1>4

LEMMA ModeNext ==
  ASSUME Typed, ModeInv, [Next]_vars
  PROVE  ModeInv'
<1> USE DEF config, control, clocking, lines, drivers
<1>1. device' = device
      BY ConfigKept
<1> SUFFICES ASSUME NEW d \in Drivers, device[d] \in Uarts, Past(d, AfterMode, {"start"})'
             PROVE  getFlexcomId(device[d]) \in flexcom'
    BY <1>1 DEF ModeInv
<1>2. flexcom \subseteq flexcom'
      BY DEF Next, Initialise, uartLowLevelInit, ClearPending, SetPriority, Subscribe,
             EnablePeripheralClock, uartInitFlexcom, ConfigurePins, configureMcanPck,
             uartInitHandle, Open, CreateSemaphores, SetConfig, StartTask, Raise, Handle, vars
<1>3. CASE Past(d, AfterMode, {"start"})
      BY <1>2, <1>3 DEF ModeInv
<1>4. CASE ~Past(d, AfterMode, {"start"})
  <2>1. "start" \in AfterMode /\ "lowlevel" \notin AfterMode
        BY DEF AfterMode, AfterPins, LastStages
  <2>2. Dev = device[d] /\ Moves /\ stage' \in AfterMode /\ stage \notin AfterMode
        BY <1>4, <2>1, PastBySteps
  <2>3. uartInitFlexcom
        BY <2>2 DEF Moves, AfterMode, AfterPins, LastStages
  <2> QED BY <2>2, <2>3 DEF uartInitFlexcom
<1> QED BY <1>3, <1>4

LEMMA HandleNext ==
  ASSUME Typed, HandleInv, [Next]_vars
  PROVE  HandleInv'
<1> USE DEF config, control, clocking, lines, drivers
<1> SUFFICES ASSUME NEW d \in Drivers, Past(d, AfterHandle, CanAfterSubscribe)'
             PROVE  (handle[device[d]] = d)'
    BY DEF HandleInv
<1>1. device' = device /\ device[d] \in Devices
      BY ConfigKept DEF Typed, TypeOK
<1>2. handle \in [Devices -> Drivers \cup {NoDriver}]
      BY DEF Typed, TypeOK
<1> DEFINE Own == \/ uartInitHandle /\ Dev \in Uarts
                  \/ Subscribe /\ Dev \in Cans
<1>3. Own => /\ turn \in Drivers /\ Dev = device[turn] /\ Dev \in Devices
             /\ handle' = [handle EXCEPT ![Dev] = turn]
  <2>1. Own => turn \in Drivers /\ Dev = device[turn] /\ Dev \in Devices
        BY DevicesFacts DEF uartInitHandle, Subscribe, Step, Dev
  <2>2. Dev \in Uarts => <<"uart", getUartId(Dev)>> = Dev
        BY DevicesFacts DEF getUartId
  <2> QED BY <2>1, <2>2 DEF uartInitHandle, Subscribe
<1>4. ~Own => handle' = handle
  <2>1. uartInitHandle => Dev \in Uarts
        BY StepFacts, DevicesFacts DEF uartInitHandle, CanStages
  <2>2. Subscribe /\ Dev \notin Cans => handle' = handle
        BY DEF Subscribe
  <2>3. CASE uartInitHandle
        BY <2>1, <2>3
  <2>4. CASE Subscribe
        BY <2>2, <2>4
  <2>5. CASE ~uartInitHandle /\ ~Subscribe
        BY <2>5 DEF Next, Initialise, uartLowLevelInit, ClearPending, SetPriority,
             EnablePeripheralClock, uartInitFlexcom, ConfigurePins, configureMcanPck,
             Open, CreateSemaphores, SetConfig, StartTask, Raise, Handle, vars
  <2> QED BY <2>3, <2>4, <2>5
<1>5. CASE Past(d, AfterHandle, CanAfterSubscribe)
  <2>1. handle[device[d]] = d
        BY <1>5 DEF HandleInv
  <2>2. CASE Own
    <3>1. CASE d = turn
          BY <1>1, <1>2, <1>3, <2>2, <3>1
    <3>2. CASE d # turn
      <4>1. device[d] # Dev
            BY <1>3, <2>2, <3>2 DEF Typed, Distinct
      <4> QED BY <1>1, <1>2, <1>3, <2>1, <2>2, <4>1
    <3> QED BY <3>1, <3>2
  <2> HIDE DEF Own
  <2>3. CASE ~Own
        BY <1>1, <1>4, <2>1, <2>3
  <2> QED BY <2>2, <2>3
<1>6. CASE ~Past(d, AfterHandle, CanAfterSubscribe)
  <2>1. /\ "start" \in AfterHandle /\ "start" \in CanAfterSubscribe
        /\ "lowlevel" \notin AfterHandle /\ "pio" \notin CanAfterSubscribe
        BY DEF AfterHandle, CanAfterClock, CanAfterSubscribe, LastStages
  <2>2. /\ d = turn /\ Dev = device[d] /\ Dev \in Devices /\ Moves
        /\ Dev \in Uarts => stage' \in AfterHandle /\ stage \notin AfterHandle
        /\ Dev \in Cans => stage' \in CanAfterSubscribe /\ stage \notin CanAfterSubscribe
        BY <1>6, <2>1, PastBySteps
  <2>3. Dev \in Uarts => uartInitHandle
        BY <2>2 DEF Moves, AfterHandle, LastStages
  <2>4. Dev \in Cans => Subscribe
        BY <2>2 DEF Moves, CanAfterSubscribe, CanAfterClock, LastStages
  <2>5. Own
        BY <2>2, <2>3, <2>4, DevicesFacts
  <2> QED BY <1>1, <1>2, <1>3, <2>2, <2>5
<1> QED BY <1>5, <1>6

(* What a step does to the lines.                                          *)
LEMMA SubscribeStep ==
  ASSUME Typed, Subscribe
  PROVE  /\ turn \in Drivers /\ turn' = turn /\ device' = device /\ inited' = inited
         /\ Dev = device[turn] /\ Dev \in Devices /\ Dev' = Dev
         /\ stage = "subscribe" /\ Line \in Devices
         /\ subscribed' = [subscribed EXCEPT ![Line] = @ + 1]
         /\ subscribed \in [Devices -> Nat]
         /\ Dev \in Cans => Line = Dev /\ stage' = "pmc" /\ count' = count
         /\ Dev \in Uarts => /\ Line = <<"uart", count>> /\ count \in 0..9
                             /\ count' = count + 1
                             /\ stage' = IF count = 9 THEN "pmc" ELSE "clear"
<1>1. /\ turn \in Drivers /\ turn' = turn /\ device' = device /\ inited' = inited
      /\ stage = "subscribe" /\ subscribed' = [subscribed EXCEPT ![Line] = @ + 1]
      BY DEF Subscribe, config, clocking
<1>2. Line \in Devices /\ subscribed \in [Devices -> Nat] /\ device[turn] \in Devices
      BY <1>1, LineIsDevice DEF InLoop, Typed, TypeOK
<1>3. Dev = device[turn] /\ Dev' = Dev
      BY <1>1 DEF Dev
<1>4. Dev \in Cans => Line = Dev /\ stage' = "pmc" /\ count' = count
      BY DevicesFacts DEF Subscribe, Line, LastLine
<1>5. Dev \in Uarts => /\ Line = <<"uart", count>> /\ count \in 0..9
                       /\ count' = count + 1
                       /\ stage' = IF count = 9 THEN "pmc" ELSE "clear"
  <2> SUFFICES ASSUME Dev \in Uarts
               PROVE  /\ Line = <<"uart", count>> /\ count \in 0..9
                      /\ count' = count + 1
                      /\ stage' = IF count = 9 THEN "pmc" ELSE "clear"
      OBVIOUS
  <2>1. Dev \notin Cans
        BY DevicesFacts
  <2>2. count \in 0..9
        BY <1>1, <1>3 DEF Typed, StageFits, InLoop
  <2> QED BY <2>1, <2>2 DEF Subscribe, Line, LastLine
<1> QED BY <1>1, <1>2, <1>3, <1>4, <1>5

LEMMA SubscribedKept ==
  ASSUME [Next]_vars, ~Subscribe
  PROVE  subscribed' = subscribed
BY DEF Next, Initialise, uartLowLevelInit, ClearPending, SetPriority,
       EnablePeripheralClock, uartInitFlexcom, ConfigurePins, configureMcanPck,
       uartInitHandle, Open, CreateSemaphores, SetConfig, StartTask, Raise, Handle,
       vars, lines

LEMMA CanLinesNext ==
  ASSUME Typed, CanLines, [Next]_vars
  PROVE  CanLines'
<1>1. device' = device
      BY ConfigKept
<1> SUFFICES ASSUME NEW d \in Drivers, device[d] \in Cans
             PROVE  (subscribed[device[d]] = IF Past(d, {"start"}, CanAfterSubscribe)
                                               THEN 1 ELSE 0)'
    BY <1>1 DEF CanLines
<1>2. device[d] \in Devices /\ device[d] \notin Uarts
      BY DevicesFacts
<1>3. subscribed[device[d]] = IF Past(d, {"start"}, CanAfterSubscribe) THEN 1 ELSE 0
      BY DEF CanLines
<1>4. Past(d, {"start"}, CanAfterSubscribe) => Past(d, {"start"}, CanAfterSubscribe)'
  <2>1. Moves /\ Dev \in Uarts /\ stage \in {"start"} => stage' \in {"start"}
        BY DEF Moves
  <2>2. Moves /\ Dev \in Cans /\ stage \in CanAfterSubscribe => stage' \in CanAfterSubscribe
        BY DEF Moves, CanAfterSubscribe, CanAfterClock, LastStages
  <2> QED BY <2>1, <2>2, PastStays
<1>5. CASE Subscribe /\ Line = device[d]
  <2>1. Dev \in Cans
        BY <1>2, <1>5, SubscribeStep, DevicesFacts
  <2>2. d = turn
        BY <1>5, <2>1, SubscribeStep DEF Typed, Distinct
  <2>3. /\ turn' = turn /\ stage = "subscribe" /\ stage' = "pmc"
        /\ subscribed' = [subscribed EXCEPT ![device[d]] = @ + 1]
        /\ subscribed \in [Devices -> Nat]
        BY <1>5, <2>1, SubscribeStep
  <2>4. ~Past(d, {"start"}, CanAfterSubscribe)
    <3>1. ~(d < turn)
          BY <2>2 DEF Drivers
    <3> QED BY <2>3, <3>1 DEF Past, CanAfterSubscribe, CanAfterClock, LastStages
  <2>5. Past(d, {"start"}, CanAfterSubscribe)'
        BY <1>1, <1>2, <2>2, <2>3 DEF Past, CanAfterSubscribe
  <2> QED BY <1>1, <1>2, <1>3, <2>3, <2>4, <2>5
<1>6. CASE ~(Subscribe /\ Line = device[d])
  <2>1. subscribed'[device[d]] = subscribed[device[d]]
        BY <1>2, <1>6, SubscribeStep, SubscribedKept
  <2>2. Past(d, {"start"}, CanAfterSubscribe)' => Past(d, {"start"}, CanAfterSubscribe)
    <3> SUFFICES ASSUME Past(d, {"start"}, CanAfterSubscribe)',
                        ~Past(d, {"start"}, CanAfterSubscribe)
                 PROVE  FALSE
        OBVIOUS
    <3>1. "start" \in CanAfterSubscribe /\ "pio" \notin CanAfterSubscribe
          BY DEF CanAfterSubscribe, CanAfterClock, LastStages
    <3>2. /\ d = turn /\ Dev = device[d] /\ Moves
          /\ stage' \in CanAfterSubscribe /\ stage \notin CanAfterSubscribe
          BY <3>1, PastBySteps
    <3>3. Subscribe
          BY <3>2 DEF Moves, CanAfterSubscribe, CanAfterClock, LastStages
    <3>4. Line = device[d]
          BY <3>2 DEF Line
    <3> QED BY <1>6, <3>3, <3>4
  <2> QED BY <1>1, <1>3, <1>4, <2>1, <2>2
<1> QED BY <1>5, <1>6

(* The loop over the lines is entered by the first serial driver only.     *)
LEMMA InitedStays ==
  ASSUME Typed, UartLines, [Next]_vars
  PROVE  /\ inited => inited'
         /\ \A d \in Drivers : (device[d] \in Uarts /\ Past(d, AfterLowLevel, {"start"}))'
                                 => inited'
<1> USE DEF config, control, clocking, lines, drivers
<1>1. inited => inited'
      BY DEF Next, Initialise, uartLowLevelInit, ClearPending, SetPriority, Subscribe,
             EnablePeripheralClock, uartInitFlexcom, ConfigurePins, configureMcanPck,
             uartInitHandle, Open, CreateSemaphores, SetConfig, StartTask, Raise, Handle, vars
<1>2. device' = device
      BY ConfigKept
<1>3. ASSUME NEW d \in Drivers, device[d] \in Uarts, Past(d, AfterLowLevel, {"start"})'
      PROVE  inited'
  <2>1. CASE Past(d, AfterLowLevel, {"start"})
        BY <1>1, <1>3, <2>1 DEF UartLines
  <2>2. CASE ~Past(d, AfterLowLevel, {"start"})
    <3>1. "start" \in AfterLowLevel /\ "lowlevel" \notin AfterLowLevel
          BY DEF AfterLowLevel, UartStages
    <3>2. Dev = device[d] /\ Moves /\ stage \notin AfterLowLevel
          BY <1>3, <2>2, <3>1, PastBySteps
    <3>3. uartLowLevelInit
          BY <1>3, <3>2 DEF Moves, AfterLowLevel, UartStages
    <3> QED BY <3>3 DEF uartLowLevelInit
  <2> QED BY <2>1, <2>2
<1> QED BY <1>1, <1>2, <1>3

LEMMA UartLoopStep ==
  ASSUME Typed, UartLines, [Next]_vars, ~Subscribe, ~uartLowLevelInit
  PROVE  /\ UartInLoop' <=> UartInLoop
         /\ UartInLoop => turn' = turn /\ count' = count
         /\ inited' = inited
<1> USE DEF config, control, clocking, lines, drivers
<1>1. inited' = inited /\ count' = count
      BY DEF Next, Initialise, ClearPending, SetPriority,
             EnablePeripheralClock, uartInitFlexcom, ConfigurePins, configureMcanPck,
             uartInitHandle, Open, CreateSemaphores, SetConfig, StartTask, Raise, Handle, vars
<1>2. CASE StartTask
  <2>1. stage = "start" /\ stage' \notin {"clear", "priority", "subscribe"}
        BY <1>2 DEF StartTask, FirstStage
  <2> QED BY <1>1, <2>1 DEF UartInLoop, InLoop
<1>3. CASE UNCHANGED <<config, control, clocking, lines>>
      BY <1>1, <1>3 DEF UartInLoop, InLoop, Dev
<1>4. CASE turn \in Drivers /\ turn' = turn /\ Dev' = Dev /\ Dev \in Devices /\ Moves
  <2>1. CASE Dev \in Uarts
    <3>1. InLoop' <=> InLoop
          BY <1>4, <2>1 DEF Moves, InLoop
    <3> QED BY <1>1, <1>4, <3>1 DEF UartInLoop
  <2>2. CASE Dev \notin Uarts
        BY <1>1, <1>4, <2>2 DEF UartInLoop
  <2> QED BY <2>1, <2>2
<1> QED BY <1>2, <1>3, <1>4, StepKinds

LEMMA UartLinesNext ==
  ASSUME Typed, UartLines, [Next]_vars
  PROVE  UartLines'
<1>1. device' = device
      BY ConfigKept
<1>2. \A n \in 0..9 : subscribed[<<"uart", n>>]
                        = IF inited /\ (UartInLoop => n < count) THEN 1 ELSE 0
      BY DEF UartLines
<1> DEFINE Goal == /\ \A n \in 0..9 : subscribed'[<<"uart", n>>]
                        = IF inited' /\ (UartInLoop' => n < count') THEN 1 ELSE 0
                   /\ UartInLoop' => \A d \in Drivers : d < turn' => device[d] \notin Uarts
<1>3. ASSUME Subscribe, Dev \in Uarts
      PROVE  Goal
  <2>1. /\ turn \in Drivers /\ turn' = turn /\ inited' = inited /\ Dev = device[turn]
        /\ Dev' = Dev /\ stage = "subscribe"
        /\ subscribed' = [subscribed EXCEPT ![<<"uart", count>>] = @ + 1]
        /\ subscribed \in [Devices -> Nat] /\ count \in 0..9 /\ count' = count + 1
        /\ stage' = IF count = 9 THEN "pmc" ELSE "clear"
        BY <1>3, SubscribeStep
  <2>2. UartInLoop /\ (UartInLoop' <=> count # 9)
        BY <1>3, <2>1 DEF UartInLoop, InLoop
  <2>3. inited
    <3>1. Past(turn, AfterLowLevel, {"start"})
          BY <1>3, <2>1, DevicesFacts DEF Past, AfterLowLevel, UartStages
    <3> QED BY <1>3, <2>1, <3>1 DEF UartLines
  <2>4. ASSUME NEW n \in 0..9
        PROVE  subscribed'[<<"uart", n>>] = IF UartInLoop' => n < count' THEN 1 ELSE 0
    <3>1. <<"uart", n>> \in Devices
          BY DevicesFacts
    <3>2. CASE n = count
      <4>1. subscribed[<<"uart", n>>] = 0
            BY <1>2, <2>2, <3>2
      <4> QED BY <2>1, <3>1, <3>2, <4>1
    <3>3. CASE n # count
      <4>1. subscribed'[<<"uart", n>>] = subscribed[<<"uart", n>>]
            BY <2>1, <3>1, <3>3
      <4>2. subscribed[<<"uart", n>>] = IF n < count THEN 1 ELSE 0
            BY <1>2, <2>2, <2>3
      <4> QED BY <2>1, <2>2, <3>3, <4>1, <4>2
    <3> QED BY <3>2, <3>3
  <2> QED BY <2>1, <2>2, <2>3, <2>4 DEF UartLines
<1>4. ASSUME Subscribe, Dev \notin Uarts
      PROVE  Goal
  <2>1. Dev \in Cans /\ turn' = turn /\ inited' = inited /\ Dev' = Dev
        BY <1>4, SubscribeStep, DevicesFacts
  <2>2. subscribed' = [subscribed EXCEPT ![Dev] = @ + 1] /\ subscribed \in [Devices -> Nat]
        BY <1>4, <2>1, SubscribeStep
  <2>3. \A n \in 0..9 : subscribed'[<<"uart", n>>] = subscribed[<<"uart", n>>]
        BY <1>4, <2>2, DevicesFacts
  <2>4. ~UartInLoop /\ ~UartInLoop'
        BY <1>4, <2>1 DEF UartInLoop
  <2> QED BY <1>2, <2>1, <2>3, <2>4
<1>5. ASSUME uartLowLevelInit
      PROVE  Goal
  <2>1. /\ turn \in Drivers /\ turn' = turn /\ stage = "lowlevel" /\ count' = 0 /\ inited'
        /\ stage' = (IF inited THEN "pmc" ELSE "clear") /\ subscribed' = subscribed
        /\ inited \in BOOLEAN
        BY <1>5 DEF uartLowLevelInit, lines, Typed, TypeOK
  <2>2. Dev = device[turn] /\ Dev \in Uarts /\ Dev' = Dev
        BY <1>1, <2>1, DevicesFacts DEF Dev, Typed, TypeOK, StageFits, CanStages
  <2>3. ~UartInLoop /\ (UartInLoop' <=> ~inited)
        BY <2>1, <2>2 DEF UartInLoop, InLoop
  <2>4. ASSUME ~inited, NEW d \in Drivers, d < turn
        PROVE  device[d] \notin Uarts
        BY <2>4 DEF UartLines, Past
  <2>5. \A n \in 0..9 : ~(n < count')
        BY <2>1
  <2> QED BY <1>2, <2>1, <2>3, <2>4, <2>5
<1>6. ASSUME ~Subscribe, ~uartLowLevelInit
      PROVE  Goal
  <2>1. /\ UartInLoop' <=> UartInLoop
        /\ UartInLoop => turn' = turn /\ count' = count
        /\ inited' = inited
        BY <1>6, UartLoopStep
  <2>2. subscribed' = subscribed
        BY <1>6, SubscribedKept
  <2> QED BY <1>2, <2>1, <2>2 DEF UartLines
<1>7. Goal
  <2> HIDE DEF Goal
  <2> QED BY <1>3, <1>4, <1>5, <1>6
<1>8. \A d \in Drivers : (device[d] \in Uarts /\ Past(d, AfterLowLevel, {"start"}))' => inited'
      BY InitedStays
<1> QED BY <1>1, <1>7, <1>8 DEF UartLines

(* What the initialisation of one driver sets up, no later one undoes.     *)
THEOREM DriversKeepDevices == Spec => []RunningDriverKeepsDevice
<1>1. Typed /\ DeviceInv /\ [Next]_vars => DeviceInv'
  <2> SUFFICES ASSUME Typed, DeviceInv, [Next]_vars
               PROVE  DeviceInv'
      OBVIOUS
  <2>1. Placed'
        BY ConfigKept DEF DeviceInv, Placed
  <2> QED BY <2>1, PinsNext, ClocksNext, ModeNext, HandleNext, CanLinesNext, UartLinesNext
          DEF DeviceInv
<1>2. Typed /\ DeviceInv => RunningDriverKeepsDevice
  <2> SUFFICES ASSUME Typed, DeviceInv, NEW d \in Drivers, d < turn
               PROVE  /\ HasPins(d)
                      /\ device[d] \in clocks
                      /\ device[d] \in Uarts => getFlexcomId(device[d]) \in flexcom
                      /\ subscribed[device[d]] = 1
                      /\ handle[device[d]] = d
      BY DEF RunningDriverKeepsDevice, HasPins
  <2>1. \A uart, can : Past(d, uart, can)
        BY DEF Past
  <2>2. HasPins(d) /\ device[d] \in clocks /\ handle[device[d]] = d
        BY <2>1 DEF DeviceInv, PinsInv, ClocksInv, HandleInv
  <2>3. device[d] \in Uarts => getFlexcomId(device[d]) \in flexcom
        BY <2>1 DEF DeviceInv, ModeInv
  <2>4. subscribed[device[d]] = 1
    <3>1. CASE device[d] \in Cans
          BY <2>1, <3>1 DEF DeviceInv, CanLines
    <3>2. CASE device[d] \in Uarts
      <4>1. PICK n \in 0..9 : device[d] = <<"uart", n>>
            BY <3>2 DEF Uarts
      <4>2. inited /\ ~UartInLoop
            BY <2>1, <3>2 DEF DeviceInv, UartLines
      <4> QED BY <4>1, <4>2 DEF DeviceInv, UartLines
    <3>3. device[d] \in Devices
          BY DEF Typed, TypeOK
    <3> QED BY <3>1, <3>2, <3>3, DevicesFacts
  <2> QED BY <2>2, <2>3, <2>4
<1> QED BY <1>1, <1>2, InitDevice, SpecTyped, PTL DEF Spec
=============================================================================
