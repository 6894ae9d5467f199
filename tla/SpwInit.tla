------------------------------ MODULE SpwInit ------------------------------
(***************************************************************************)
(* samrh71_rtems_spacewire_init (samrh71_rtems_spw.c) from the first store *)
(* to the start of the poll task, and the application's first send: the    *)
(* dividers for the two bit rates, clocks, interrupt vectors, router and   *)
(* resets, the configuration that starts one link and keeps the other      *)
(* disabled, the bounded wait for the started link, callbacks, interrupt   *)
(* masks, semaphores and the poll task.  Meanwhile both links change state *)
(* by themselves, and so do the TX and RX units, which a boot loader may   *)
(* have left active.                                                       *)
(***************************************************************************)
EXTENDS Naturals

CONSTANTS Clocks,       \* master clock frequencies in Hz
          LinkSpeeds,   \* configured speeds in Mbit/s, 0 = not configured
          ResetTimeout  \* SAMRH71_RTEMS_SPW_RESET_TIMEOUT_TICKS

ASSUME ClocksAssumption == Clocks \subseteq Nat \ {0}
ASSUME SpeedsAssumption == LinkSpeeds \subseteq Nat
ASSUME TimeoutAssumption == ResetTimeout \in Nat \ {0}

VARIABLES
  clock,       \* master_clock_frequency
  link_speed,  \* link_speed of the device configuration
  link_id,     \* hardware number of the configured link
  pc,          \* where the initialisation is; "fatal": an assertion failed
  txInitDiv,   \* divider while a link is being initialised
  txOperDiv,   \* divider of a running link
  command,     \* the command of each link: 0 = disabled, 3 = start and listen
  linkState,   \* the state of each link
  ticks,       \* ticks waited for the link
  init_ok,     \* what samrh71_rtems_spacewire_is_init_ok returns
  clocked,     \* the links whose peripheral clock is on
  route,       \* router table: the ports for node_id and remote_node_id
  vectors,     \* is samrh71_spw_irq_handler installed?
  callbacks,   \* the units whose callback is registered
  irqMask,     \* the units whose deactivation raises an interrupt
  active,      \* the units that have a send list or a receive buffer
  deactivated, \* the units whose deactivation is still to be reported
  created,     \* the semaphores that exist
  available,   \* those of them that are available
  polling      \* where the poll task is

config == <<clock, link_speed, link_id>>
dividers == <<txInitDiv, txOperDiv>>
links == <<command, linkState>>
waiting == <<ticks, init_ok>>
setUp == <<clocked, route, vectors, callbacks, irqMask, created>>
units == <<active, deactivated, available, polling>>
vars == <<config, pc, dividers, links, waiting, setUp, units>>

LinkIds == {1, 2}

(* ErrorReset, ErrorWait, Ready, Started, Connecting, Run.                 *)
LinkStates == 0..5
ErrorReset == 0
Ready == 2
Run == 5

StartAndListen == 3
Disabled == 0

Units == {"tx", "rx"}

(* Port 0 stands for no table entry, ports 1 and 2 are the links.          *)
NoPort == 0
SPW_PKTRX_ROUTER_PORT == 3

MegaHz == 1000000

Init == /\ clock \in Clocks
        /\ link_speed \in LinkSpeeds
        /\ link_id \in LinkIds
        /\ pc = "dividers"
        /\ txInitDiv = 0
        /\ txOperDiv = 0
        /\ command = [l \in LinkIds |-> Disabled]
        /\ linkState = [l \in LinkIds |-> ErrorReset]
        /\ ticks = 0
        /\ init_ok = FALSE
        /\ clocked = {}
        /\ route = [own |-> NoPort, remote |-> NoPort]
        /\ vectors = FALSE
        /\ callbacks = {}
        /\ irqMask = {}
        /\ active \in SUBSET Units
        /\ deactivated = {}
        /\ created = {}
        /\ available = {}
        /\ polling = "none"

-----------------------------------------------------------------------------
(* The driver.                                                             *)

InitBitrate == 10 * MegaHz
OperBitrate == IF link_speed > 0 THEN link_speed * MegaHz ELSE InitBitrate

Floor(bitrate) == ((2 * clock) \div bitrate - 1) % 256   \* mutant of Divider

(* ceil(2 * fMaster / bitrate) - 1, stored in eight bits.                  *)
Divider(bitrate) == ((2 * clock + bitrate - 1) \div bitrate - 1) % 256

(* samrh71_rtems_spacewire_init asserts that both rates can be reached.    *)
ComputeDividers ==
  /\ pc = "dividers"
  /\ IF InitBitrate <= 2 * clock /\ OperBitrate <= 2 * clock
       THEN /\ txInitDiv' = Divider(InitBitrate)
            /\ txOperDiv' = Divider(OperBitrate)
            /\ pc' = "hardware"
       ELSE /\ pc' = "fatal"
            /\ UNCHANGED dividers
  /\ UNCHANGED <<config, links, waiting, setUp, units>>

CommandByIndex(l) == IF l + 1 = link_id THEN StartAndListen ELSE Disabled
                                                         \* mutant of CommandOf
CommandOf(l) == IF l = link_id THEN StartAndListen ELSE Disabled

(* init_pmc; the second link has a clock of its own.                       *)
InitHardware == /\ pc = "hardware"
                /\ clocked' = IF link_id = 2 THEN {1, 2} ELSE {1}
                /\ pc' = "vectors"
                /\ UNCHANGED <<config, dividers, links, waiting, route, vectors,
                               callbacks, irqMask, created, units>>

(* init_nvic_irq.                                                          *)
InstallHandler == /\ pc = "vectors"
                  /\ vectors' = TRUE
                  /\ pc' = "router"
                  /\ UNCHANGED <<config, dividers, links, waiting, clocked, route,
                                 callbacks, irqMask, created, units>>

(* init_spw_router.                                                        *)
InitRouter == /\ pc = "router"
              /\ route' = [own |-> SPW_PKTRX_ROUTER_PORT, remote |-> link_id]
              /\ pc' = "reset"
              /\ UNCHANGED <<config, dividers, links, waiting, clocked, vectors,
                             callbacks, irqMask, created, units>>

ResetLinksOnly == /\ pc = "reset"                        \* mutant of Reset
                  /\ linkState' = [l \in LinkIds |-> ErrorReset]
                  /\ pc' = "configure"
                  /\ UNCHANGED <<config, dividers, command, waiting, setUp, units>>

(* Links and units are reset, whatever they were doing.                    *)
Reset == /\ pc = "reset"
         /\ linkState' = [l \in LinkIds |-> ErrorReset]
         /\ active' = {}
         /\ deactivated' = {}
         /\ pc' = "configure"
         /\ UNCHANGED <<config, dividers, command, waiting, setUp, available,
                        polling>>

(* Only the configured link is started; no interrupt is enabled yet.       *)
Configure == /\ pc = "configure"
             /\ command' = [l \in LinkIds |-> CommandOf(l)]
             /\ pc' = "check"
             /\ UNCHANGED <<config, dividers, linkState, waiting, setUp, units>>

NextTick == ticks + 1

Forever == linkState[link_id] < Ready                    \* mutant of WaitOn
EarlyEnd == linkState[link_id] < Ready /\ NextTick + 1 < ResetTimeout
                                                         \* mutant of WaitOn
WaitOn == linkState[link_id] < Ready /\ NextTick < ResetTimeout

(* check_spw_is_init_ok: one turn of the loop sleeps for a tick and reads  *)
(* the state; the state read last decides.                                 *)
CheckLink == /\ pc = "check"
             /\ ticks' = NextTick
             /\ IF WaitOn
                  THEN UNCHANGED <<pc, init_ok>>
                  ELSE /\ pc' = "callbacks"
                       /\ init_ok' = (linkState[link_id] >= Ready)
             /\ UNCHANGED <<config, dividers, links, setUp, units>>

(* Spw_registerTxHandler and Spw_registerRxHandler.                        *)
RegisterHandlers == /\ pc = "callbacks"
                    /\ callbacks' = Units
                    /\ pc' = "interrupts"
                    /\ UNCHANGED <<config, dividers, links, waiting, clocked, route,
                                   vectors, irqMask, created, units>>

(* Spw_Tx_setConfig, then Spw_Rx_setConfig.                                *)
Enable(u, next) == /\ irqMask' = irqMask \cup {u}
                   /\ pc' = next
                   /\ UNCHANGED <<config, dividers, links, waiting, clocked, route,
                                  vectors, callbacks, created, units>>
EnableTxInterrupt == pc = "interrupts" /\ Enable("tx", "rxInterrupt")
EnableRxInterrupt == pc = "rxInterrupt" /\ Enable("rx", "txSemaphore")

(* init_rtems_synchronization_primitives: TX unlocked, then RX locked.     *)
Create(u, next) == /\ created' = created \cup {u}
                   /\ available' = IF u = "tx" THEN available \cup {u}
                                              ELSE available \ {u}
                   /\ pc' = next
                   /\ UNCHANGED <<config, dividers, links, waiting, clocked, route,
                                  vectors, callbacks, irqMask, active, deactivated,
                                  polling>>
CreateTxSemaphore == pc = "txSemaphore" /\ Create("tx", "rxSemaphore")
CreateRxSemaphore == pc = "rxSemaphore" /\ Create("rx", "task")

(* start_poll_task.                                                        *)
StartPollTask == /\ pc = "task"
                 /\ polling' = "arm"
                 /\ pc' = "done"
                 /\ UNCHANGED <<config, dividers, links, waiting, setUp, active,
                                deactivated, available>>

Driver == \/ ComputeDividers \/ InitHardware \/ InstallHandler \/ InitRouter
          \/ Reset \/ Configure \/ CheckLink \/ RegisterHandlers
          \/ EnableTxInterrupt \/ EnableRxInterrupt
          \/ CreateTxSemaphore \/ CreateRxSemaphore \/ StartPollTask

-----------------------------------------------------------------------------
(* What runs from then on: the first send, the poll task, the interrupt.   *)

(* The application sends when the initialisation has returned.             *)
FirstSend == /\ pc = "done"
             /\ "tx" \in available
             /\ available' = available \ {"tx"}
             /\ active' = active \cup {"tx"}
             /\ pc' = "sent"
             /\ UNCHANGED <<config, dividers, links, waiting, setUp, deactivated,
                            polling>>

ArmBuffer == /\ polling = "arm"
             /\ active' = active \cup {"rx"}
             /\ polling' = "wait"
             /\ UNCHANGED <<config, pc, dividers, links, waiting, setUp, deactivated,
                            available>>

WaitForDeactivation == /\ polling = "wait"
                       /\ "rx" \in available
                       /\ available' = available \ {"rx"}
                       /\ polling' = "arm"
                       /\ UNCHANGED <<config, pc, dividers, links, waiting, setUp,
                                      active, deactivated>>

(* samrh71_spw_irq_handler: the callback of the unit, if one is registered,*)
(* releases the unit's semaphore.                                          *)
InterruptOf(u) == vectors /\ u \in deactivated \cap irqMask
Interrupt(u) == /\ InterruptOf(u)
                /\ deactivated' = deactivated \ {u}
                /\ available' = IF u \in callbacks THEN available \cup {u}
                                                   ELSE available
                /\ UNCHANGED <<config, pc, dividers, links, waiting, setUp, active,
                               polling>>

Running == \/ FirstSend \/ ArmBuffer \/ WaitForDeactivation
           \/ \E u \in Units : Interrupt(u)

-----------------------------------------------------------------------------
(* The hardware.  A disabled link gets as far as Ready; a unit that has    *)
(* finished its list or buffer is active no more.                          *)

LinkAdvances(l) ==
  /\ linkState[l] < Run
  /\ linkState[l] >= Ready => command[l] = StartAndListen
  /\ linkState' = [linkState EXCEPT ![l] = @ + 1]
  /\ UNCHANGED <<config, pc, dividers, command, waiting, setUp, units>>

LinkFails(l) ==
  /\ linkState[l] # ErrorReset
  /\ linkState' = [linkState EXCEPT ![l] = ErrorReset]
  /\ UNCHANGED <<config, pc, dividers, command, waiting, setUp, units>>

Deactivate(u) ==
  /\ u \in active
  /\ active' = active \ {u}
  /\ deactivated' = deactivated \cup {u}
  /\ UNCHANGED <<config, pc, dividers, links, waiting, setUp, available, polling>>

Next == \/ Driver \/ Running
        \/ \E l \in LinkIds : LinkAdvances(l) \/ LinkFails(l)
        \/ \E u \in Units : Deactivate(u)

Spec == Init /\ [][Next]_vars

(* The initialising task is not starved and the clock ticks; the links may *)
(* stay where they are or fail again and again.                            *)
FairSpec == Spec /\ WF_vars(Driver)

-----------------------------------------------------------------------------
(* Properties.                                                             *)

(* The steps of the initialisation; "check" waits for the link.             *)
Started == {"check", "callbacks", "interrupts", "rxInterrupt", "txSemaphore",
            "rxSemaphore", "task", "done", "sent"}
Waited == Started \ {"check"}
PcValues == Started \cup {"dividers", "hardware", "vectors", "router", "reset",
                         "configure", "fatal"}

(* Types of the driver's fields, of the links and of the units.            *)
TypeOK == /\ clock \in Clocks
          /\ link_speed \in LinkSpeeds
          /\ link_id \in LinkIds
          /\ pc \in PcValues
          /\ txInitDiv \in 0..255
          /\ txOperDiv \in 0..255
          /\ command \in [LinkIds -> {Disabled, StartAndListen}]
          /\ linkState \in [LinkIds -> LinkStates]
          /\ ticks \in 0..ResetTimeout
          /\ init_ok \in BOOLEAN
          /\ clocked \subseteq LinkIds
          /\ route \in [own : {NoPort, SPW_PKTRX_ROUTER_PORT},
                        remote : {NoPort} \cup LinkIds]
          /\ vectors \in BOOLEAN
          /\ callbacks \subseteq Units /\ irqMask \subseteq Units
          /\ active \subseteq Units /\ deactivated \subseteq Units
          /\ created \subseteq Units /\ available \subseteq created
          /\ polling \in {"none", "arm", "wait"}

(* A divider slows the doubled clock down to the bit rate or less, and the *)
(* next smaller divider would not.                                         *)
Exact(div, bitrate) == /\ 2 * clock <= bitrate * (div + 1)
                       /\ div > 0 => 2 * clock > bitrate * div

(* "The ceiling division avoids a divider that is slightly too small"      *)
(* (source line 415): the links run at the highest rate that the clock     *)
(* allows and that is not above the one asked for.                         *)
RatesExact == pc \notin {"dividers", "fatal"}
                => Exact(txInitDiv, InitBitrate) /\ Exact(txOperDiv, OperBitrate)

(* "Only the configured link is started" (source line 273): the other link *)
(* never leaves Ready, whatever its partner does; and the link that runs   *)
(* has its clock and finds the way of the packets set up: those for this   *)
(* node to the RX unit, those for the remote node to this link.            *)
OnlyConfiguredLinkRuns ==
  \A l \in LinkIds : linkState[l] > Ready
    => /\ l = link_id /\ l \in clocked
       /\ route = [own |-> SPW_PKTRX_ROUTER_PORT, remote |-> l]

(* Callbacks are registered and interrupts enabled before the semaphores   *)
(* they release are created; still no interrupt comes before its callback  *)
(* is registered and its semaphore exists, also when a boot loader left    *)
(* the units active.                                                       *)
InterruptFindsSemaphore ==
  \A u \in Units : InterruptOf(u) => u \in callbacks /\ u \in created

(* The wait uses the timeout and no more: the initialisation ends, also    *)
(* with a link that never becomes ready, but gives up only after all ticks,*)
(* so that a link that becomes ready with the last one is still accepted.  *)
TimeoutIsUsed == /\ <>(pc \in {"done", "sent", "fatal"})
                 /\ [](pc \in Waited /\ ~init_ok => ticks = ResetTimeout)
=============================================================================
