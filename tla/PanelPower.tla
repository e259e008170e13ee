------------------------------ MODULE PanelPower ------------------------------
(***************************************************************************)
(* The power pins of the card: PWR_HOLD (PA0), which keeps the card supplied *)
(* when the field drops, EPD_POWER_EN (PA6), the panel's rail, and the mode *)
(* of the pins of the panel's bus, as the main loop (app.c) and the PVD      *)
(* interrupt (stm32g0xx_it.c) switch them through board.c.                   *)
(*                                                                           *)
(* The interrupt comes between any two accesses of the main program.  A      *)
(* write of BSRR is one access.  HAL_GPIO_Init is two for each pin, a read   *)
(* of the whole MODER register and a write of it, and what the interrupt     *)
(* changes between the two is lost.  A voltage sample or a wait may succeed  *)
(* or fail whenever it is made.  The levels of the bus pins, deep sleep      *)
(* (which changes none of these pins) and the second of the two calls of     *)
(* board_epd_power_off in finish_epd_failure (which repeats the first) are   *)
(* left out.                                                                 *)
(***************************************************************************)
EXTENDS Naturals

CONSTANT PinCount    \* pins of the panel's bus, numbered in port order

ASSUME PinCountAssumption == PinCount \in Nat \ {0}

VARIABLES
    brownout_latched,
    rail,       \* EPD_POWER_EN is high
    hold,       \* PWR_HOLD is high
    moder,      \* mode of each bus pin
    fetched,    \* MODER as HAL_GPIO_Init has read it
    pin,        \* the pin HAL_GPIO_Init has come to
    pc,         \* where the main program is
    outcome     \* what board_epd_power_off is followed by

power == <<brownout_latched, rail, hold>>
bus == <<moder, fetched, pin>>
vars == <<brownout_latched, rail, hold, moder, fetched, pin, pc, outcome>>

Pin == 1 .. PinCount
Modes == [Pin -> {"analog", "driven"}]
Analog == [p \in Pin |-> "analog"]
Driven == \E p \in Pin : moder[p] = "driven"

\* Steps of a refresh between taking the hold and the panel's commands.
Raising == {"gate", "check", "switch", "settle", "activeRead", "activeWrite"}
Driving == {"drive", "sending"}
Lowering == {"hizRead", "hizWrite", "cut"}
Step == {"guard", "idle", "hold", "release", "halted"}
           \cup Raising \cup Driving \cup Lowering

TypeOK ==
    /\ brownout_latched \in BOOLEAN
    /\ rail \in BOOLEAN
    /\ hold \in BOOLEAN
    /\ moder \in Modes
    /\ fetched \in Modes
    /\ pin \in 1 .. PinCount + 1
    /\ pc \in Step
    /\ outcome \in {"done", "error", "halt"}

\* After board_early_power_safe and board_gpio_init, before the PVD is armed.
Init ==
    /\ brownout_latched = FALSE
    /\ rail = FALSE
    /\ hold = TRUE
    /\ moder = Analog
    /\ fetched = Analog
    /\ pin = 1
    /\ pc = "guard"
    /\ outcome = "done"

Goto(step) == pc' = step /\ UNCHANGED <<power, bus, outcome>>

(* Mutant: a failed refresh cuts the rail and leaves the bus as it is.      *)
MutantPowerOff(after) ==
    /\ outcome' = after
    /\ pc' = "cut"
    /\ pin' = pin
    /\ UNCHANGED <<power, moder, fetched>>

\* board_epd_power_off is entered: HAL_GPIO_Init starts with the first pin.
PowerOff(after) ==
    /\ outcome' = after
    /\ pc' = "hizRead"
    /\ pin' = 1
    /\ UNCHANGED <<power, moder, fetched>>

set_error == PowerOff("error")

-----------------------------------------------------------------------------
(* board_power_guard_init finds the supply low, or a later initialisation    *)
(* fails: Error_Handler, which disables interrupts.  Or the loop begins.     *)
GuardInit ==
    /\ pc = "guard"
    /\ \/ Goto("idle")
       \/ PowerOff("halt")

(* app_process: a brownout is an error on every pass; else a refresh may be  *)
(* due, or some other error may be raised.  The refresh looks at the latch   *)
(* before it takes the hold.                                                 *)
Pass ==
    /\ pc = "idle"
    /\ \/ ~brownout_latched /\ Goto("hold")
       \/ set_error

(* Mutant: the refresh does not take the hold again.                        *)
MutantTakeHold == pc = "hold" /\ Goto("gate")

TakeHold ==
    /\ pc = "hold"
    /\ hold' = TRUE
    /\ pc' = "gate"
    /\ UNCHANGED <<brownout_latched, rail, bus, outcome>>

ChargeGate ==
    /\ pc = "gate"
    /\ Goto("check") \/ set_error

\* board_epd_power_on: the latch is read, then the rail switched on.
CheckLatch ==
    /\ pc = "check"
    /\ Goto(IF brownout_latched THEN "settle" ELSE "switch")

SwitchRail ==
    /\ pc = "switch"
    /\ rail' = TRUE
    /\ pc' = "settle"
    /\ UNCHANGED <<brownout_latched, hold, bus, outcome>>

(* HAL_Delay(10) and the sample after it.  board_epd_bus_active follows, and *)
(* it does not look at the latch.                                            *)
Settle ==
    /\ pc = "settle"
    /\ \/ /\ pc' = "activeRead"
          /\ pin' = 1
          /\ UNCHANGED <<power, moder, fetched, outcome>>
       \/ set_error

ReadModer(from, to) ==
    /\ pc = from
    /\ fetched' = moder
    /\ pc' = to
    /\ UNCHANGED <<power, moder, pin, outcome>>

WriteModer(from, to, mode, end) ==
    /\ pc = from
    /\ moder' = [fetched EXCEPT ![pin] = mode]
    /\ pin' = pin + 1
    /\ pc' = IF pin = PinCount THEN end ELSE to
    /\ UNCHANGED <<power, fetched, outcome>>

BusActive ==
    \/ ReadModer("activeRead", "activeWrite")
    \/ WriteModer("activeWrite", "activeRead", "driven", "drive")

(* Mutant: the driver does not look at the latch.                           *)
MutantDrive ==
    \/ pc = "drive" /\ Goto("sending")
    \/ pc = "sending" /\ Goto("drive")
    \/ pc = "drive" /\ PowerOff("done")

(* send_bytes, which looks at the latch before and after each transfer;      *)
(* every wait between commands, which does so too, and may time out; and the *)
(* last wait, for the waveform to end.                                       *)
Drive ==
    \/ pc = "drive" /\ ~brownout_latched /\ Goto("sending")
    \/ pc = "sending" /\ ~brownout_latched /\ Goto("drive")
    \/ pc = "drive" /\ ~brownout_latched /\ PowerOff("done")
    \/ pc \in Driving /\ set_error

BusHiz ==
    \/ ReadModer("hizRead", "hizWrite")
    \/ WriteModer("hizWrite", "hizRead", "analog", "cut")

CutRail ==
    /\ pc = "cut"
    /\ rail' = FALSE
    /\ pc' = IF outcome = "done" THEN "idle" ELSE "release"
    /\ UNCHANGED <<brownout_latched, hold, bus, outcome>>

(* Mutant: the hold is kept after an error.                                 *)
MutantReleaseHold ==
    /\ pc = "release"
    /\ Goto(IF outcome = "halt" THEN "halted" ELSE "idle")

ReleaseHold ==
    /\ pc = "release"
    /\ hold' = FALSE
    /\ pc' = IF outcome = "halt" THEN "halted" ELSE "idle"
    /\ UNCHANGED <<brownout_latched, rail, bus, outcome>>

MainProgram ==
    \/ GuardInit \/ Pass \/ TakeHold \/ ChargeGate \/ CheckLatch \/ SwitchRail
    \/ Settle \/ BusActive \/ Drive \/ BusHiz \/ CutRail \/ ReleaseHold

(* board_brownout_shutdown_isr, on a falling edge of the supply; also what   *)
(* board_power_guard_init calls when the supply is low already.              *)
BrownoutInterrupt ==
    /\ outcome # "halt"
    /\ brownout_latched' = TRUE
    /\ rail' = FALSE
    /\ moder' = Analog
    /\ hold' = FALSE
    /\ UNCHANGED <<fetched, pin, pc, outcome>>

\* The supply fails and returns: reset, main up to the PVD.
PowerCycle ==
    /\ brownout_latched' = FALSE
    /\ rail' = FALSE
    /\ hold' = TRUE
    /\ moder' = Analog
    /\ fetched' = Analog
    /\ pin' = 1
    /\ pc' = "guard"
    /\ outcome' = "done"

Next == MainProgram \/ BrownoutInterrupt \/ PowerCycle

(* The processor runs: each access is followed by the next, and each wait    *)
(* has a timeout.                                                            *)
Spec == Init /\ [][Next]_vars /\ WF_vars(MainProgram)

-----------------------------------------------------------------------------
Dark == ~rail /\ ~Driven /\ ~hold

(* However a refresh ends, the loop goes on with the panel's rail off and    *)
(* its bus analog, and without the hold if there was a brownout, even if the *)
(* interrupt came after the last look at the latch or was undone by the      *)
(* accesses it came between.                                                 *)
LoopIsDark ==
    pc \in {"idle", "halted"} =>
        ~rail /\ ~Driven /\ (brownout_latched => ~hold)

(* The panel is never powered on the field alone: while its rail is on the   *)
(* card holds its own supply, brownout excepted.                             *)
HeldWhileRailOn == rail /\ ~brownout_latched => hold

(* Without a brownout the bus is driven only while the rail is on.           *)
NoBackPower == Driven /\ ~brownout_latched => rail

(* Once a brownout is latched and power does not cycle, the rail, the bus    *)
(* and the hold end off for good, whatever the loop was doing.               *)
BrownoutEndsDark == <>[]brownout_latched => <>[]Dark
=============================================================================
