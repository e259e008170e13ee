-------------------------- MODULE PanelPower_proofs --------------------------
(***************************************************************************)
(* Proof, for a bus of any number of pins, that the loop of PanelPower goes  *)
(* on with the panel dark however a refresh ended, that the rail is never on *)
(* without the hold, and that the bus is not driven into a panel without     *)
(* power, brownout excepted.                                                 *)
(***************************************************************************)
EXTENDS PanelPower, TLAPS

AllAnalog(m) == \A p \in Pin : m[p] = "analog"

\* Until the bus is configured, and once it is released, it is analog.
BusInv ==
    /\ pc \in {"guard", "idle", "hold", "gate", "check", "switch", "settle",
               "cut", "release", "halted"} => AllAnalog(moder)
    /\ pc \in {"hizRead", "hizWrite"} =>
           \A p \in Pin : p < pin => moder[p] = "analog"
    /\ pc = "hizWrite" => \A p \in Pin : p < pin => fetched[p] = "analog"
    /\ pc \in {"activeWrite", "hizWrite"} /\ ~brownout_latched /\ ~rail =>
           AllAnalog(fetched)
    /\ pc \in {"activeRead", "activeWrite", "hizRead", "hizWrite"} => pin \in Pin

\* The rail is on from SwitchRail to CutRail at most.
RailInv ==
    /\ pc \in {"guard", "idle", "hold", "gate", "check", "switch", "release", "halted"} =>
           ~rail
    /\ pc \in {"settle", "activeRead", "activeWrite"} \cup Driving =>
           rail \/ brownout_latched
    /\ ~rail /\ ~brownout_latched => AllAnalog(moder)

\* The hold taken by a refresh, and the one a brownout took back.
HoldInv ==
    /\ pc \in Raising \cup Driving => hold \/ brownout_latched
    /\ rail => hold \/ brownout_latched
    /\ pc \in {"guard", "idle", "hold", "halted"} => (brownout_latched => ~hold)
    /\ pc \in Lowering /\ outcome = "done" => (brownout_latched => ~hold)
    /\ pc = "release" => outcome # "done"

PowerInv == TypeOK /\ BusInv /\ RailInv /\ HoldInv

USE PinCountAssumption DEF Pin, Raising, Driving, Lowering

-----------------------------------------------------------------------------
LEMMA AnalogIsAllAnalog == Analog \in Modes /\ AllAnalog(Analog)
  BY DEF Analog, Modes, AllAnalog

LEMMA InitInv == Init => PowerInv
<1> SUFFICES ASSUME Init PROVE PowerInv
  OBVIOUS
<1> USE AnalogIsAllAnalog DEF Init
<1>1. TypeOK
  <2>1. brownout_latched \in BOOLEAN
    OBVIOUS
  <2>2. rail \in BOOLEAN /\ hold \in BOOLEAN
    OBVIOUS
  <2>3. moder \in Modes /\ fetched \in Modes
    OBVIOUS
  <2>4. pin \in 1 .. PinCount + 1
    OBVIOUS
  <2>5. pc \in Step
    BY DEF Step
  <2> QED
    BY <2>1, <2>2, <2>3, <2>4, <2>5 DEF TypeOK
<1>2. BusInv
  BY DEF BusInv
<1>3. RailInv
  BY DEF RailInv
<1>4. HoldInv
  BY DEF HoldInv
<1> QED
  BY <1>1, <1>2, <1>3, <1>4 DEF PowerInv

LEMMA PowerOffInv ==
  ASSUME PowerInv, NEW after \in {"done", "error", "halt"}, PowerOff(after),
         pc \in {"guard", "idle", "gate", "settle", "drive", "sending"},
         after = "done" => ~brownout_latched
  PROVE  PowerInv'
  BY DEF PowerInv, TypeOK, BusInv, RailInv, HoldInv, Modes, AllAnalog, Step,
         PowerOff, power

LEMMA GotoInv ==
  ASSUME PowerInv, NEW step, Goto(step),
         \/ pc = "guard" /\ step = "idle"
         \/ pc = "idle" /\ step = "hold"
         \/ pc = "gate" /\ step = "check"
         \/ pc = "check" /\ step = IF brownout_latched THEN "settle" ELSE "switch"
         \/ pc = "drive" /\ step = "sending"
         \/ pc = "sending" /\ step = "drive"
  PROVE  PowerInv'
  BY DEF PowerInv, TypeOK, BusInv, RailInv, HoldInv, Modes, AllAnalog, Step,
         Goto, power, bus

LEMMA BusActiveInv == PowerInv /\ BusActive => PowerInv'
  BY DEF PowerInv, TypeOK, BusInv, RailInv, HoldInv, Modes, AllAnalog, Step,
         BusActive, ReadModer, WriteModer, power

LEMMA BusHizInv == PowerInv /\ BusHiz => PowerInv'
  BY DEF PowerInv, TypeOK, BusInv, RailInv, HoldInv, Modes, AllAnalog, Step,
         BusHiz, ReadModer, WriteModer, power

LEMMA InterruptInv == PowerInv /\ BrownoutInterrupt => PowerInv'
  BY DEF PowerInv, TypeOK, BusInv, RailInv, HoldInv, Modes, Analog, AllAnalog, Step,
         BrownoutInterrupt

LEMMA PowerCycleInv == PowerInv /\ PowerCycle => PowerInv'
<1>1. PowerCycle => Init'
  BY DEF PowerCycle, Init
<1> QED
  BY <1>1, InitInv, PTL

LEMMA MainInv == PowerInv /\ MainProgram => PowerInv'
<1> SUFFICES ASSUME PowerInv, MainProgram PROVE PowerInv'
  OBVIOUS
<1>1. CASE GuardInit
  BY <1>1, GotoInv, PowerOffInv DEF GuardInit
<1>2. CASE Pass
  BY <1>2, GotoInv, PowerOffInv DEF Pass, set_error
<1>3. CASE TakeHold
  BY <1>3 DEF PowerInv, TypeOK, BusInv, RailInv, HoldInv, Modes, AllAnalog, Step,
              TakeHold, bus
<1>4. CASE ChargeGate
  BY <1>4, GotoInv, PowerOffInv DEF ChargeGate, set_error
<1>5. CASE CheckLatch
  BY <1>5, GotoInv DEF CheckLatch
<1>6. CASE SwitchRail
  BY <1>6 DEF PowerInv, TypeOK, BusInv, RailInv, HoldInv, Modes, AllAnalog, Step,
              SwitchRail, bus
<1>7. CASE Settle
  <2>1. CASE set_error
    BY <1>7, <2>1, PowerOffInv DEF Settle, set_error
  <2>2. CASE ~set_error
    BY <1>7, <2>2 DEF PowerInv, TypeOK, BusInv, RailInv, HoldInv, Modes, AllAnalog,
                      Step, Settle, power
  <2> QED BY <2>1, <2>2
<1>8. CASE BusActive
  BY <1>8, BusActiveInv
<1>9. CASE Drive
  BY <1>9, GotoInv, PowerOffInv DEF Drive, set_error
<1>10. CASE BusHiz
  BY <1>10, BusHizInv
<1>11. CASE CutRail
  BY <1>11 DEF PowerInv, TypeOK, BusInv, RailInv, HoldInv, Modes, AllAnalog, Step,
               CutRail, bus
<1>12. CASE ReleaseHold
  BY <1>12 DEF PowerInv, TypeOK, BusInv, RailInv, HoldInv, Modes, AllAnalog, Step,
               ReleaseHold, bus
<1> QED
  BY <1>1, <1>2, <1>3, <1>4, <1>5, <1>6, <1>7, <1>8, <1>9, <1>10, <1>11, <1>12
     DEF MainProgram

(* PowerInv is inductive: every access of the main program and every         *)
(* interrupt between two of them keeps it.                                   *)
THEOREM PowerInductive == Spec => []PowerInv
<1>1. PowerInv /\ [Next]_vars => PowerInv'
  <2> SUFFICES ASSUME PowerInv, [Next]_vars PROVE PowerInv'
      OBVIOUS
  <2>1. CASE UNCHANGED vars
    BY <2>1 DEF PowerInv, TypeOK, BusInv, RailInv, HoldInv, AllAnalog, Modes, Step, vars
  <2> QED
    BY <2>1, MainInv, InterruptInv, PowerCycleInv DEF Next
<1> QED
  BY InitInv, <1>1, PTL DEF Spec

(* However a refresh ended, and wherever a brownout came, the loop goes on   *)
(* with the panel dark (app.c:907, board.c:115).                             *)
THEOREM LoopStaysDark == Spec => []LoopIsDark
<1>1. PowerInv => LoopIsDark
  BY DEF PowerInv, BusInv, RailInv, HoldInv, AllAnalog, LoopIsDark, Driven
<1> QED
  BY PowerInductive, <1>1, PTL

(* The panel's rail is on only while the card holds its supply               *)
(* (app.c:443, app.c:617).                                                   *)
THEOREM RailNeedsHold == Spec => []HeldWhileRailOn
<1>1. PowerInv => HeldWhileRailOn
  BY DEF PowerInv, HoldInv, HeldWhileRailOn
<1> QED
  BY PowerInductive, <1>1, PTL

(* Until a brownout the bus is driven only while the rail is on              *)
(* (board.c:141, app.c:457).                                                 *)
THEOREM BusNeedsRail == Spec => []NoBackPower
<1>1. PowerInv => NoBackPower
  BY DEF PowerInv, RailInv, AllAnalog, NoBackPower, Driven
<1> QED
  BY PowerInductive, <1>1, PTL
=============================================================================
