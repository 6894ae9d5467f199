------------------------------- MODULE Board -------------------------------
(***************************************************************************)
(* Initialisation of several serial and CAN drivers on one board           *)
(* (samrh71_rtems_serial.c, samrh71_can_generic.c): the pins, peripheral   *)
(* clocks, FLEXCOM modes, interrupt lines, table of handles and clock      *)
(* source they share.  One task initialises the drivers one after the      *)
(* other; interrupts come between any two steps, also ones that were       *)
(* pending before.                                                         *)
(***************************************************************************)
EXTENDS Naturals

CONSTANTS LastDriver,   \* the drivers are 1..LastDriver, in this order
          Sources,      \* clock sources that pck_source can name
          Prescalers    \* values of pck_prescaler

ASSUME DriversAssumption == LastDriver \in Nat \ {0}
ASSUME PckAssumption == Sources # {} /\ Prescalers # {}

VARIABLES
  device,      \* the peripheral each driver is configured for
  pck,         \* the clock each CAN driver is configured for
  turn,        \* the driver being initialised; the ones before it run
  stage,       \* what its initialisation does next; "fatal": assert failed
  count,       \* lines dealt with by the loop over the FLEXCOM interrupts
  inited,      \* SamRH71RtemsSerial_inited
  firstConfig, \* the driver that configured the clock first, or NoDriver
  gclk,        \* the clock selected for each CAN peripheral
  pins,        \* who configured a pin last, and as what
  clocks,      \* peripherals whose clock is enabled
  flexcom,     \* FLEXCOMs in USART mode
  priority,    \* NVIC priority of each interrupt line
  subscribed,  \* how often a handler was subscribed to each line
  pending,     \* lines with a pending interrupt
  handle,      \* the driver that the handler of each line works on
  opened,      \* drivers whose HAL object has been initialised
  semaphores,  \* drivers whose semaphores exist
  armed        \* drivers whose peripheral may raise interrupts

config == <<device, pck>>
control == <<turn, stage, count>>
clocking == <<inited, firstConfig, gclk, clocks, flexcom, pins>>
lines == <<priority, subscribed, handle>>
drivers == <<opened, semaphores, armed>>
vars == <<config, control, clocking, lines, pending, drivers>>

Drivers == 1..LastDriver
NoDriver == 0

Uarts == {"uart"} \X (0..9)
Cans == {"can"} \X {0, 1}
Devices == Uarts \cup Cans         \* also the name of the interrupt line
NoDevice == <<"none", 0>>

(* The numbers behind the names of the configured device.                  *)
getUartId(dev) == dev[2]
getFlexcomId(dev) == dev[2]

PckSettings == [source : Sources, prescaler : Prescalers]
ResetClock == CHOOSE p \in PckSettings : TRUE

-----------------------------------------------------------------------------
(* Pin tables.                                                             *)

getUartTxPin == <<<<"C", 21>>, <<"F", 30>>, <<"A", 2>>, <<"A", 20>>, <<"C", 0>>,
                  <<"C", 9>>, <<"B", 6>>, <<"B", 4>>, <<"A", 27>>, <<"A", 25>>>>
getUartRxPin == <<<<"C", 22>>, <<"F", 29>>, <<"A", 6>>, <<"A", 19>>, <<"C", 1>>,
                  <<"C", 10>>, <<"B", 7>>, <<"B", 5>>, <<"A", 28>>, <<"A", 26>>>>

(* Transmission, reception and the transceiver's standby pin.              *)
Can0Pins == {<<<<"B", 6>>, "tx">>, <<<<"B", 7>>, "rx">>, <<<<"C", 7>>, "standby">>}
Can1Pins == {<<<<"B", 4>>, "tx">>, <<<<"B", 5>>, "rx">>, <<<<"G", 30>>, "standby">>}

(* The pins a driver configures and what as.                               *)
Uses(dev) == IF dev \in Uarts
               THEN {<<getUartTxPin[dev[2] + 1], "tx">>, <<getUartRxPin[dev[2] + 1], "rx">>}
               ELSE IF dev[2] = 0 THEN Can0Pins ELSE Can1Pins

Pins == {"A", "B", "C", "F", "G"} \X (0..30)

(* Two drivers never share a peripheral, and the evaluation kit's CAN pins *)
(* are those of UART6 and UART7: the configurations that can work.         *)
Compatible(a, b) ==
  /\ a # b
  /\ {a, b} # {<<"uart", 6>>, <<"can", 0>>}
  /\ {a, b} # {<<"uart", 7>>, <<"can", 1>>}

FirstStage(dev) == IF dev \in Uarts THEN "lowlevel" ELSE "pio"

Init ==
  /\ device \in [Drivers -> Devices]
  /\ \A c, d \in Drivers : c # d => Compatible(device[c], device[d])
  /\ pck \in [Drivers -> PckSettings]
  /\ \A d \in Drivers : device[d] \in Uarts => pck[d] = ResetClock
  /\ turn = 1
  /\ stage = FirstStage(device[1])
  /\ count = 0
  /\ inited = FALSE
  /\ firstConfig = NoDriver
  /\ gclk = [c \in Cans |-> ResetClock]
  /\ pins = [p \in Pins |-> <<NoDevice, "none">>]
  /\ clocks = {}
  /\ flexcom = {}
  /\ priority = [i \in Devices |-> 0]
  /\ subscribed = [i \in Devices |-> 0]
  /\ pending \in SUBSET {device[d] : d \in Drivers}
  /\ handle = [i \in Devices |-> NoDriver]
  /\ opened = {}
  /\ semaphores = {}
  /\ armed = {}

-----------------------------------------------------------------------------
(* The stages of the two initialisation functions.                         *)

AfterUart ==
  [clear |-> "priority", priority |-> "subscribe", pmc |-> "flexcom", flexcom |-> "pio",
   pio |-> "handle", handle |-> "open", open |-> "configure",
   configure |-> "semaphores", semaphores |-> "start"]
AfterCan ==
  [pio |-> "pck", pck |-> "clear", clear |-> "priority", priority |-> "subscribe",
   pmc |-> "open", open |-> "semaphores", semaphores |-> "configure", configure |-> "start"]

Dev == device[turn]

(* The driver being initialised does stage s and goes on to the next one.  *)
Step(s) == /\ turn \in Drivers
           /\ stage = s
           /\ stage' = IF Dev \in Uarts THEN AfterUart[s] ELSE AfterCan[s]
           /\ UNCHANGED <<config, turn>>

-----------------------------------------------------------------------------
(* Interrupt lines.  A serial driver's first initialisation deals with the *)
(* lines of all FLEXCOMs, a CAN driver's with its own.                     *)

LowLevelInitAlways ==                              \* mutant of uartLowLevelInit
  /\ turn \in Drivers
  /\ stage = "lowlevel"
  /\ count' = 0
  /\ stage' = "clear"
  /\ inited' = inited
  /\ UNCHANGED <<config, turn, firstConfig, gclk, clocks, flexcom, pins, lines, pending, drivers>>

uartLowLevelInit ==
  /\ turn \in Drivers
  /\ stage = "lowlevel"
  /\ count' = 0
  /\ stage' = IF inited THEN "pmc" ELSE "clear"
  /\ inited' = TRUE
  /\ UNCHANGED <<config, turn, firstConfig, gclk, clocks, flexcom, pins, lines, pending, drivers>>

Line == IF Dev \in Cans THEN Dev ELSE <<"uart", count>>

ClearNothing == /\ Step("clear")                       \* mutant of ClearPending
                /\ UNCHANGED <<count, clocking, lines, pending, drivers>>

ClearPending == /\ Step("clear")
                /\ pending' = pending \ {Line}
                /\ UNCHANGED <<count, clocking, lines, drivers>>

SetOwnPriority ==                                       \* mutant of SetPriority
  /\ Step("priority")
  /\ priority' = [priority EXCEPT ![Dev] = 4]
  /\ UNCHANGED <<count, clocking, subscribed, handle, pending, drivers>>

SetPriority == /\ Step("priority")
               /\ priority' = [priority EXCEPT ![Line] = 4]
               /\ UNCHANGED <<count, clocking, subscribed, handle, pending, drivers>>

LastLineLate == Dev \in Cans \/ count = 10              \* mutant of LastLine
LastLine == Dev \in Cans \/ count = 9

(* A CAN handler gets the driver as its argument, a UART's handler looks   *)
(* it up in the table of handles.                                          *)
Subscribe ==
  /\ turn \in Drivers
  /\ stage = "subscribe"
  /\ subscribed' = [subscribed EXCEPT ![Line] = @ + 1]
  /\ handle' = IF Dev \in Cans THEN [handle EXCEPT ![Dev] = turn] ELSE handle
  /\ stage' = IF LastLine THEN "pmc" ELSE "clear"
  /\ count' = IF Dev \in Uarts THEN count + 1 ELSE count
  /\ UNCHANGED <<config, turn, clocking, priority, pending, drivers>>

-----------------------------------------------------------------------------
(* Clocks, mode and pins.                                                  *)

getUartPeripheralId(id) == <<"uart", id>>
PeripheralId(dev) == IF dev \in Uarts THEN getUartPeripheralId(getUartId(dev)) ELSE dev

EnablePeripheralClock ==
  /\ Step("pmc")
  /\ clocks' = clocks \cup {PeripheralId(Dev)}
  /\ UNCHANGED <<count, inited, firstConfig, gclk, flexcom, pins, lines, pending, drivers>>

uartInitFlexcom ==
  /\ Step("flexcom")
  /\ flexcom' = flexcom \cup {getFlexcomId(Dev)}
  /\ UNCHANGED <<count, inited, firstConfig, gclk, clocks, pins, lines, pending, drivers>>

ConfigurePins ==
  /\ Step("pio")
  /\ pins' = [p \in Pins |-> IF \E role \in {"tx", "rx", "standby"} : <<p, role>> \in Uses(Dev)
                               THEN <<Dev, CHOOSE role \in {"tx", "rx", "standby"} :
                                             <<p, role>> \in Uses(Dev)>>
                               ELSE pins[p]]
  /\ UNCHANGED <<count, inited, firstConfig, gclk, clocks, flexcom, lines, pending, drivers>>

SameSource(p, q) == p.source = q.source                   \* mutant of SameClock
SameClock(p, q) == p.source = q.source /\ p.prescaler = q.prescaler

(* The first CAN driver decides on the clock, others must agree with it;   *)
(* the peripheral's own clock is switched on with it.                      *)
configureMcanPck ==
  /\ turn \in Drivers
  /\ stage = "pck"
  /\ firstConfig' = IF firstConfig = NoDriver THEN turn ELSE firstConfig
  /\ IF SameClock(pck[firstConfig'], pck[turn])
       THEN /\ gclk' = [gclk EXCEPT ![Dev] = pck[turn]]
            /\ clocks' = clocks \cup {Dev}
            /\ stage' = AfterCan.pck
       ELSE /\ stage' = "fatal"
            /\ UNCHANGED <<gclk, clocks>>
  /\ UNCHANGED <<config, turn, count, inited, flexcom, pins, lines, pending, drivers>>

-----------------------------------------------------------------------------
(* The driver's objects.                                                   *)

uartInitHandle ==
  /\ Step("handle")
  /\ handle' = [handle EXCEPT ![<<"uart", getUartId(Dev)>>] = turn]
  /\ UNCHANGED <<count, clocking, priority, subscribed, pending, drivers>>

Open == /\ Step("open")
        /\ opened' = opened \cup {turn}
        /\ UNCHANGED <<count, clocking, lines, pending, semaphores, armed>>

CreateSemaphores == /\ Step("semaphores")
                    /\ semaphores' = semaphores \cup {turn}
                    /\ UNCHANGED <<count, clocking, lines, pending, opened, armed>>

(* Mcan_setConfig switches the interrupts on; those of a UART come with    *)
(* the first read, by the poll task.                                       *)
SetConfig == /\ Step("configure")
             /\ armed' = IF Dev \in Cans THEN armed \cup {turn} ELSE armed
             /\ UNCHANGED <<count, clocking, lines, pending, opened, semaphores>>

StartTask == /\ turn \in Drivers
             /\ stage = "start"
             /\ turn' = turn + 1
             /\ stage' = IF turn < LastDriver THEN FirstStage(device[turn + 1]) ELSE "done"
             /\ armed' = armed \cup {turn}
             /\ UNCHANGED <<config, count, clocking, lines, pending, opened, semaphores>>

-----------------------------------------------------------------------------
(* Interrupts.                                                             *)

Raise(d) == /\ d \in armed
            /\ stage # "fatal"
            /\ device[d] \in clocks
            /\ pending' = pending \cup {device[d]}
            /\ UNCHANGED <<config, control, clocking, lines, drivers>>

CanBeTaken(i) == i \in pending /\ subscribed[i] > 0

Handle(i) == /\ CanBeTaken(i)
             /\ stage # "fatal"
             /\ pending' = pending \ {i}
             /\ UNCHANGED <<config, control, clocking, lines, drivers>>

Initialise == \/ uartLowLevelInit \/ ClearPending \/ SetPriority \/ Subscribe
              \/ EnablePeripheralClock \/ uartInitFlexcom \/ ConfigurePins
              \/ configureMcanPck \/ uartInitHandle \/ Open \/ CreateSemaphores
              \/ SetConfig \/ StartTask

Next == \/ Initialise
        \/ \E d \in Drivers : Raise(d)
        \/ \E i \in Devices : Handle(i)

Spec == Init /\ [][Next]_vars

-----------------------------------------------------------------------------
(* Properties.                                                             *)

Stages == {"lowlevel", "clear", "priority", "subscribe", "pmc", "flexcom", "pio", "pck",
           "handle", "open", "configure", "semaphores", "start", "done", "fatal"}

(* Types; the loop over the interrupt lines stays within the table.        *)
TypeOK == /\ device \in [Drivers -> Devices]
          /\ pck \in [Drivers -> PckSettings]
          /\ turn \in 1..(LastDriver + 1)
          /\ stage \in Stages
          /\ count \in 0..10
          /\ inited \in BOOLEAN
          /\ firstConfig \in Drivers \cup {NoDriver}
          /\ gclk \in [Cans -> PckSettings]
          /\ clocks \subseteq Devices
          /\ flexcom \subseteq 0..9
          /\ DOMAIN pins = Pins
          /\ priority \in [Devices -> {0, 4}]
          /\ subscribed \in [Devices -> Nat]
          /\ pending \subseteq Devices
          /\ handle \in [Devices -> Drivers \cup {NoDriver}]
          /\ opened \subseteq Drivers
          /\ semaphores \subseteq Drivers
          /\ armed \subseteq Drivers

(* Whenever a handler can run, the driver it works on has its registers    *)
(* and, for CAN, the semaphores that mcan_int0_Handler releases: neither   *)
(* an interrupt left over from before nor an early one finds a handle that *)
(* is not ready.                                                           *)
HandlerFindsDriver ==
  \A i \in Devices : CanBeTaken(i) /\ handle[i] # NoDriver
    => handle[i] \in opened /\ (i \in Cans => handle[i] \in semaphores)

(* "IRQ handlers that use RTEMS-related functionality ... MUST HAVE THEIR  *)
(* PRIORITY SET TO AT LEAST 0x80 (4 after the bit-shift)": no handler is   *)
(* subscribed to a line before the line's priority is lowered.             *)
PriorityBelowKernel == \A i \in Devices : subscribed[i] > 0 => priority[i] >= 4

(* What the initialisation of one driver sets up, no later one undoes: a   *)
(* running driver has its pins, clock and mode, and its line calls one     *)
(* handler, which works on it.                                             *)
RunningDriverKeepsDevice ==
  \A d \in Drivers : d < turn =>
    /\ \A use \in Uses(device[d]) : pins[use[1]] = <<device[d], use[2]>>
    /\ device[d] \in clocks
    /\ device[d] \in Uarts => getFlexcomId(device[d]) \in flexcom
    /\ subscribed[device[d]] = 1
    /\ handle[device[d]] = d

(* "Cannot configure PCK5, the driver has different configuration than     *)
(* other": the CAN peripherals in use run from one clock, the one each     *)
(* driver was configured for, and the assertion fails only if they differ. *)
PckAgrees ==
  LET Clocked == {d \in Drivers : d < turn /\ device[d] \in Cans}
  IN /\ \A c, d \in Clocked : gclk[device[c]] = pck[d]
     /\ stage = "fatal" => \E c \in Clocked : pck[c] # pck[turn]
=============================================================================
