------------------------ MODULE SoundboxModes_proofs ------------------------
(***************************************************************************)
(* Proofs about SoundboxModes, for any number of devices and countdowns    *)
(* and any choice of stimuli: the types, the implementation of the kernel, *)
(* and the confinement of the Bluetooth stack to its mode; in ordinary     *)
(* use, also that no exit timer disturbs a stack that is started.          *)
(***************************************************************************)
EXTENDS SoundboxModes, TLAPS

(* What app_task_switch_next finds is one of the modes it tries, and has   *)
(* passed the checks.                                                      *)
LEMMA NextInListAdmitted ==
  ASSUME NEW t, NEW A, Kernel!NextInList(t, A) # NoTask
  PROVE  /\ Kernel!NextInList(t, A) \in A
         /\ \E k \in 1..Kernel!Tries(t) : Kernel!NextInList(t, A) = Kernel!NextTry(t, k)
<1> DEFINE ok == {k \in 1..Kernel!Tries(t) : Kernel!NextTry(t, k) \in A}
<1>1. Len(TaskList) = 4
  BY DEF TaskList
<1>2. ok \subseteq 1..4 /\ ok # {}
  BY <1>1 DEF Kernel!NextInList, Kernel!Tries
<1>3. \E k \in ok : \A j \in ok : k <= j
  <2>1. CASE 1 \in ok
    BY <1>2, <2>1
  <2>2. CASE 1 \notin ok /\ 2 \in ok
    BY <1>2, <2>2
  <2>3. CASE 1 \notin ok /\ 2 \notin ok /\ 3 \in ok
    BY <1>2, <2>3
  <2>4. CASE 1 \notin ok /\ 2 \notin ok /\ 3 \notin ok
    BY <1>2, <2>4
  <2> QED
    BY <2>1, <2>2, <2>3, <2>4
<1>4. (CHOOSE k \in ok : \A j \in ok : k <= j) \in ok
  BY <1>3
<1> QED
  BY <1>2, <1>4 DEF Kernel!NextInList

(* What a request does: the kernel's variables change as the kernel says,  *)
(* and the flags of the power-off stay Boolean.                            *)
Switches == Kernel!NoSwitch \/ \E t \in Task : Kernel!SwitchTo(t)

PowerTyped ==
  /\ force_poweroff \in BOOLEAN /\ goto_poweroff \in BOOLEAN
  /\ exitTimer \in BOOLEAN /\ escoTimer \in BOOLEAN

(* A handler that requests nothing.                                        *)
LEMMA NoRequestSwitches ==
  ASSUME PowerTyped, NoRequest
  PROVE  Switches /\ PowerTyped'
BY DEF PowerTyped, NoRequest, Switches, powerVars

(* app_task_switch_to, in its three outcomes.                              *)
LEMMA RequestSwitches ==
  ASSUME PowerTyped, NEW t \in Task, NEW d, NEW l, RequestWith(t, d, l)
  PROVE  Switches /\ PowerTyped'
<1>1. CASE (t = curr \/ ~CanEnter(t, d, l)) /\ Kernel!NoSwitch /\ UNCHANGED powerVars
  BY <1>1 DEF Switches, PowerTyped, powerVars
<1>2. CASE ExitRefused /\ Kernel!NoSwitch /\ BtRefuseExit
  BY <1>2 DEF Switches, PowerTyped, BtRefuseExit
<1>3. CASE /\ Kernel!SwitchTo(t)
           /\ IF curr = "BT" THEN BtAllowExit ELSE UNCHANGED powerVars
  BY <1>3 DEF Switches, PowerTyped, BtAllowExit, powerVars
<1> QED
  BY <1>1, <1>2, <1>3 DEF RequestWith

(* app_task_switch_next, whether or not it finds a mode.                   *)
LEMMA RequestNextSwitches ==
  ASSUME PowerTyped, NEW l, RequestNext(l)
  PROVE  Switches /\ PowerTyped'
<1> DEFINE A == {m \in Task : m # curr /\ CanEnter(m, devs, l)}
           t == Kernel!NextInList(curr, A)
<1>1. CASE t = NoTask
  BY <1>1, NoRequestSwitches DEF RequestNext
<1>2. CASE t # NoTask
  <2>1. t \in Task
    BY <1>2, NextInListAdmitted
  <2>2. RequestWith(t, devs, l)
    BY <1>2 DEF RequestNext
  <2> QED
    BY <2>1, <2>2, RequestSwitches
<1> QED
  BY <1>1, <1>2

-----------------------------------------------------------------------------
(* Messages.  All but the reset of IdleIrKey have one shape.               *)

Quiet ==
  /\ pc = "get" /\ body # "POWEROFF" /\ pc' = "poll"
  /\ UNCHANGED <<curr, body, lifeVars>>
  /\ Switches /\ PowerTyped'
  /\ UNCHANGED toneVars \/ PlayTone(NoTask, FALSE)

RestTyped ==
  /\ keys \in BOOLEAN /\ btwork \subseteq {"call", "sco"}
  /\ tone \in ToneTask \cup {NoTask} /\ toneCb \subseteq ToneTask
  /\ powerOnTimer \in BOOLEAN /\ irTimers \in 0..MaxIr
  /\ powerClass \in 0..2 /\ fmInit \in BOOLEAN
  /\ devs \in 0..MaxDev /\ lineIn \in BOOLEAN /\ phase \in 0..2

(* Every handler of a message leaves the flags of the stack alone, moves   *)
(* app_core to the poll and changes the kernel's variables as a request.   *)
LEMMA MessagesAreQuiet ==
  ASSUME TypeOK, Message, ~IdleIrKey
  PROVE  Quiet /\ RestTyped'
<1> USE ModesAssumption
<1>1. PowerTyped /\ RestTyped
  BY DEF TypeOK, Tones!TypeOK, BtTypeOK, PowerTyped, RestTyped
<1>2. ASSUME UNCHANGED <<rest, btwork>> PROVE RestTyped' /\ UNCHANGED toneVars
  BY <1>1, <1>2 DEF RestTyped, rest, toneVars, timerVars, miscVars, envVars
<1>3. CASE OtherMessage
  BY <1>1, <1>2, <1>3, NoRequestSwitches DEF OtherMessage, Quiet, Event
<1>4. CASE ModeKey
  BY <1>1, <1>2, <1>4, NoRequestSwitches, RequestNextSwitches DEF ModeKey, Quiet, Event
<1>5. ASSUME NEW t \in Task, NEW d, NEW l, DeviceRequest(t, d, l)
      PROVE  Switches /\ PowerTyped'
  BY <1>1, <1>5, NoRequestSwitches, RequestSwitches DEF DeviceRequest
<1>6. CASE StorageIn
  <2>1. Switches /\ PowerTyped'
    BY <1>5, <1>6 DEF StorageIn, Task
  <2>2. RestTyped'
    BY <1>1, <1>6 DEF StorageIn, RestTyped, toneVars, timerVars, miscVars
  <2> QED
    BY <1>6, <2>1, <2>2 DEF StorageIn, Quiet, Event
<1>7. CASE StorageOut
  <2>1. RestTyped'
    BY <1>1, <1>7 DEF StorageOut, RestTyped, toneVars, timerVars, miscVars
  <2> QED
    BY <1>1, <1>7, <2>1, NoRequestSwitches DEF StorageOut, Quiet, Event
<1>8. CASE MusicQuits
  <2>1. Switches /\ PowerTyped'
    BY <1>1, <1>8, RequestNextSwitches, RequestSwitches DEF MusicQuits, Request, Task
  <2> QED
    BY <1>2, <1>8, <2>1 DEF MusicQuits, Quiet, Event
<1>9. CASE LineIn
  <2>4. Switches /\ PowerTyped'
    <3>1. CASE body = "LINEIN" /\ lineIn
      BY <1>1, <1>9, <3>1, RequestNextSwitches DEF LineIn
    <3>2. CASE body # "LINEIN" /\ ~lineIn
      BY <1>5, <1>9, <3>2 DEF LineIn, Task
    <3>3. CASE ~(body = "LINEIN" /\ lineIn) /\ ~(body # "LINEIN" /\ ~lineIn)
      <4>1. NoRequest
        BY <1>9, <3>3 DEF LineIn
      <4> QED
        BY <1>1, <4>1, NoRequestSwitches
    <3> QED
      BY <3>1, <3>2, <3>3
  <2>5. RestTyped'
    BY <1>1, <1>9 DEF LineIn, RestTyped, toneVars, timerVars, miscVars
  <2> QED
    BY <1>9, <2>4, <2>5 DEF LineIn, Quiet, Event
<1>10. CASE LowPower
  <2>1. PowerTyped' /\ RestTyped'
    BY <1>1, <1>10
       DEF LowPower, SoftPoweroff, PowerTyped, RestTyped, toneVars, timerVars, envVars
  <2> QED
    BY <1>10, <2>1 DEF LowPower, Quiet, Event, Switches
<1>11. CASE PowerKey
  <2>1. PowerTyped'
    BY <1>1, <1>11 DEF PowerKey, SoftPoweroff, PowerTyped
  <2> QED
    BY <1>2, <1>11, <2>1 DEF PowerKey, Quiet, Event, Switches
<1>12. CASE IrKey
  <2>1. RestTyped'
    BY <1>1, <1>12 DEF IrKey, PlayTone, Tones!Play, Tones!Break, RestTyped, envVars
  <2> QED
    BY <1>1, <1>12, <2>1, NoRequestSwitches DEF IrKey, Quiet, Event
<1>13. CASE IdlePowerOnKey
  <2>1. PowerTyped'
    BY <1>1, <1>13 DEF IdlePowerOnKey, PowerTyped
  <2>2. Switches
    BY <1>13 DEF IdlePowerOnKey, Switches, Task
  <2> QED
    BY <1>2, <1>13, <2>1, <2>2 DEF IdlePowerOnKey, Quiet, Event
<1>14. CASE PowerWarning
  <2>1. RestTyped'
    BY <1>1, <1>14 DEF PowerWarning, PlayTone, Tones!Play, Tones!Break, RestTyped,
                       timerVars, miscVars, envVars
  <2> QED
    BY <1>1, <1>14, <2>1, NoRequestSwitches DEF PowerWarning, Quiet, Event
<1> QED
  BY <1>3, <1>4, <1>6, <1>7, <1>8, <1>9, <1>10, <1>11, <1>12, <1>13, <1>14 DEF Message

-----------------------------------------------------------------------------
(* The modes implement the kernel                                          *)

(* One step of the modes is a step of the kernel or leaves it alone.       *)
LEMMA StepImplementsKernel ==
  ASSUME TypeOK, [Next]_vars
  PROVE  [Kernel!Next]_switchVars
<1> USE ModesAssumption
<1>1. PowerTyped
  BY DEF TypeOK, BtTypeOK, PowerTyped
<1>2. CASE Enter
  <2>1. ASSUME pc' = "get" PROVE Kernel!Enter
    BY <1>2, <2>1 DEF Enter, Kernel!Enter
  <2>2. ASSUME pc' = "off" PROVE Kernel!PowerCut
    BY <1>2, <2>2 DEF Enter, Kernel!PowerCut
  <2>3. pc' \in {"get", "off"}
    BY <1>2 DEF Enter, EnterPowerOn, EnterBt, EnterPlain, EnterFm, EnterIdle, EnterPowerOff
  <2> QED
    BY <2>1, <2>2, <2>3 DEF Kernel!Next, Kernel!Core
<1>3. CASE PollNone
  BY <1>3 DEF PollNone, Kernel!PollNone, Kernel!Next, Kernel!Core, LingerTask
<1>4. CASE PollCommit
  BY <1>4 DEF PollCommit, Kernel!Next, Kernel!Core
<1>5. CASE PollClear
  BY <1>5 DEF PollClear, Kernel!Next, Kernel!Core
<1>6. CASE Close
  BY <1>6 DEF Close, CloseOthers, CloseBt, Kernel!Close, Kernel!Next, Kernel!Core, LingerTask
<1>7. CASE Message /\ ~IdleIrKey
  <2>1. Quiet
    BY <1>7, MessagesAreQuiet
  <2>2. Kernel!Handle
    BY <2>1 DEF Quiet, Switches, Kernel!Handle, FinalTask
  <2> QED
    BY <2>2 DEF Kernel!Next, Kernel!Core
<1>8. CASE IdleIrKey
  BY <1>8 DEF IdleIrKey, Kernel!Next
<1>9. CASE InitOk
  BY <1>9 DEF InitOk, Event, Kernel!Handle, FinalTask, Kernel!Next, Kernel!Core
<1>10. CASE ExitTimerFires
  <2>1. Switches
    BY <1>10 DEF ExitTimerFires, Switches, Task
  <2>2. Kernel!Callback
    BY <1>10, <2>1 DEF ExitTimerFires, Switches, Kernel!Callback
  <2> QED
    BY <2>2 DEF Kernel!Next
<1>11. CASE PowerOnTimerFires
  <2>1. Switches
    BY <1>1, <1>11, RequestSwitches DEF PowerOnTimerFires, Request, Task
  <2>2. CASE Kernel!NoSwitch
    BY <1>11, <2>2 DEF PowerOnTimerFires, Kernel!NoSwitch, switchVars
  <2>3. CASE \E t \in Task : Kernel!SwitchTo(t)
    BY <1>11, <2>3 DEF PowerOnTimerFires, Kernel!HiTimerFires, Kernel!Next, CommitWindow
  <2> QED
    BY <2>1, <2>2, <2>3 DEF Switches
<1>12. CASE IrTimerFires
  <2>1. Switches
    BY <1>1, <1>12, RequestSwitches DEF IrTimerFires, Request, Task
  <2>2. CASE Kernel!NoSwitch
    BY <1>12, <2>2 DEF IrTimerFires, Kernel!NoSwitch, switchVars
  <2>3. CASE \E t \in Task : Kernel!SwitchTo(t)
    BY <1>12, <2>3 DEF IrTimerFires, Kernel!HiTimerFires, Kernel!Next, CommitWindow
  <2> QED
    BY <2>1, <2>2, <2>3 DEF Switches
<1>13. CASE PowerOffTone
  <2>1. CASE goto_poweroff
    BY <1>13, <2>1 DEF PowerOffTone, ToneDone, Kernel!PowerCut, Kernel!Next
  <2>2. CASE ~goto_poweroff
    BY <1>13, <2>2 DEF PowerOffTone, ToneDone, switchVars
  <2> QED
    BY <2>1, <2>2
<1>14. CASE BtExitTick \/ EscoTimerFires \/ ToneEnds \/ CallChanges \/ TimePasses
  BY <1>14 DEF BtExitTick, EscoTimerFires, ToneEnds, CallChanges, TimePasses
<1>15. CASE PowerOnTone \/ BtTone \/ FmTone
  BY <1>15 DEF PowerOnTone, BtTone, FmTone, ToneDone, switchVars
<1>16. CASE UNCHANGED vars
  BY <1>16 DEF vars
<1> QED
  BY <1>2, <1>3, <1>4, <1>5, <1>6, <1>7, <1>8, <1>9, <1>10, <1>11, <1>12, <1>13,
     <1>14, <1>15, <1>16 DEF Next, Body, Timers, ToneCallback

-----------------------------------------------------------------------------
(* Types                                                                   *)

LifeTyped ==
  /\ exit_flag \in BOOLEAN /\ exiting \in BOOLEAN /\ wait_exit \in BOOLEAN
  /\ init_ok \in BOOLEAN /\ timer \in BOOLEAN
  /\ stack \in {"off", "starting", "on"}

(* The type invariant by groups of variables that change together.         *)
LEMMA TypeParts == TypeOK <=> Kernel!TypeOK /\ LifeTyped /\ PowerTyped /\ RestTyped
BY DEF TypeOK, Tones!TypeOK, BtTypeOK, LifeTyped, PowerTyped, RestTyped

(* The types of the kernel's variables, under the product's constants.     *)
LEMMA KernelTypePreserved ==
  ASSUME Kernel!TypeOK, [Kernel!Next]_switchVars
  PROVE  Kernel!TypeOK'
<1> USE ModesAssumption DEF Kernel!TypeOK, Kernel!PC
<1>1. CASE Kernel!Enter
  BY <1>1 DEF Kernel!Enter
<1>2. CASE Kernel!Handle
  BY <1>2 DEF Kernel!Handle, Kernel!SwitchTo, Kernel!NoSwitch
<1>3. CASE Kernel!PollNone
  BY <1>3 DEF Kernel!PollNone
<1>4. CASE Kernel!PollCommit
  BY <1>4 DEF Kernel!PollCommit
<1>5. CASE Kernel!PollClear
  BY <1>5 DEF Kernel!PollClear
<1>6. CASE Kernel!Close
  BY <1>6 DEF Kernel!Close
<1>7. CASE Kernel!Callback
  BY <1>7 DEF Kernel!Callback, Kernel!SwitchTo, Kernel!NoSwitch
<1>8. CASE Kernel!PowerCut
  BY <1>8 DEF Kernel!PowerCut
<1>9. CASE Kernel!Reset
  BY <1>9 DEF Kernel!Reset, BootTask, Task
<1>10. CASE Kernel!HiTimerFires
  BY <1>10 DEF Kernel!HiTimerFires, Kernel!SwitchTo
<1>11. CASE UNCHANGED switchVars
  BY <1>11 DEF switchVars
<1> QED
  BY <1>1, <1>2, <1>3, <1>4, <1>5, <1>6, <1>7, <1>8, <1>9, <1>10, <1>11
     DEF Kernel!Next, Kernel!Core

(* The types of the other variables, action by action.                     *)
LEMMA StepTyped ==
  ASSUME TypeOK, [Next]_vars
  PROVE  LifeTyped' /\ PowerTyped' /\ RestTyped'
<1> USE ModesAssumption
<1>1. LifeTyped /\ PowerTyped /\ RestTyped
  BY TypeParts
<1>2. ASSUME UNCHANGED lifeVars PROVE LifeTyped'
  BY <1>1, <1>2 DEF LifeTyped, lifeVars
<1>3. ASSUME UNCHANGED powerVars PROVE PowerTyped'
  BY <1>1, <1>3 DEF PowerTyped, powerVars
<1>4. ASSUME UNCHANGED <<rest, btwork>> PROVE RestTyped'
  BY <1>1, <1>4 DEF RestTyped, rest, toneVars, timerVars, miscVars, envVars
<1>5. ASSUME BtTaskStart PROVE LifeTyped' /\ PowerTyped'
  BY <1>1, <1>5 DEF BtTaskStart, LifeTyped, PowerTyped, lifeVars, powerVars
<1>6. CASE Enter
  <2> USE <1>1 DEF RestTyped, ToneTask, PlayTone, Tones!Play, Tones!Break, miscVars,
                   timerVars, envVars, toneVars
  <2>1. CASE EnterPowerOn
    <3>1. RestTyped'
      BY <1>6, <2>1 DEF Enter, EnterPowerOn
    <3> QED
      BY <1>2, <1>3, <2>1, <3>1 DEF EnterPowerOn
  <2>2. CASE EnterBt
    <3>1. RestTyped'
      BY <1>6, <2>2 DEF Enter, EnterBt
    <3>2. LifeTyped' /\ PowerTyped'
      BY <1>3, <1>5, <2>2 DEF EnterBt, LifeTyped
    <3> QED
      BY <3>1, <3>2
  <2>3. CASE EnterPlain
    <3>1. RestTyped'
      BY <1>6, <2>3 DEF Enter, EnterPlain
    <3> QED
      BY <1>2, <1>3, <2>3, <3>1 DEF EnterPlain
  <2>4. CASE EnterFm
    <3>1. RestTyped'
      BY <1>6, <2>4 DEF Enter, EnterFm
    <3> QED
      BY <1>2, <1>3, <2>4, <3>1 DEF EnterFm
  <2>5. CASE EnterIdle
    <3>1. RestTyped'
      BY <1>6, <2>5 DEF Enter, EnterIdle
    <3> QED
      BY <1>2, <1>3, <2>5, <3>1 DEF EnterIdle
  <2>6. CASE EnterPowerOff
    <3>1. RestTyped'
      BY <1>6, <2>6 DEF Enter, EnterPowerOff
    <3> QED
      BY <1>2, <1>3, <2>6, <3>1 DEF EnterPowerOff
  <2> QED
    BY <1>6, <2>1, <2>2, <2>3, <2>4, <2>5, <2>6 DEF Enter
<1>7. CASE PollNone \/ PollCommit
  BY <1>2, <1>3, <1>4, <1>7 DEF PollNone, PollCommit, btVars
<1>8. CASE PollClear
  <2>1. RestTyped'
    BY <1>1, <1>8 DEF PollClear, RestTyped, toneVars, timerVars, miscVars, envVars, btVars
  <2> QED
    BY <1>2, <1>3, <1>8, <2>1 DEF PollClear, btVars
<1>9. CASE Close
  <2>1. LifeTyped'
    BY <1>1, <1>2, <1>9 DEF Close, CloseOthers, CloseBt, BtTaskClose, LifeTyped
  <2>2. RestTyped'
    BY <1>1, <1>9 DEF Close, CloseOthers, CloseBt, StopTone, Tones!Stop, PlayTone,
                      Tones!Play, Tones!Break, RestTyped, ToneTask,
                      toneVars, timerVars, miscVars, envVars
  <2> QED
    BY <1>3, <1>9, <2>1, <2>2 DEF Close
<1>10. CASE Message /\ ~IdleIrKey
  BY <1>2, <1>10, MessagesAreQuiet DEF Quiet
<1>11. CASE IdleIrKey
  <2>1. LifeTyped' /\ PowerTyped'
    BY <1>11 DEF IdleIrKey, LifeTyped, PowerTyped
  <2>2. keys' \in BOOLEAN
    BY <1>11 DEF IdleIrKey
  <2>3. devs' = devs /\ lineIn' = lineIn
    BY <1>11 DEF IdleIrKey
  <2>4. /\ tone' = NoTask /\ toneCb' = {} /\ btwork' = {}
        /\ powerOnTimer' = FALSE /\ irTimers' = 0
        /\ powerClass' = 0 /\ fmInit' = FALSE /\ phase' = 0
    BY <1>11 DEF IdleIrKey
  <2>5. /\ irTimers' \in 0..MaxIr /\ powerClass' \in 0..2
        /\ devs' \in 0..MaxDev /\ phase' \in 0..2
    BY <1>1, <2>3, <2>4 DEF RestTyped
  <2>6. powerOnTimer' \in BOOLEAN /\ fmInit' \in BOOLEAN /\ lineIn' \in BOOLEAN
    BY <1>1, <2>3, <2>4 DEF RestTyped
  <2>7. /\ tone' \in ToneTask \cup {NoTask} /\ toneCb' \subseteq ToneTask
        /\ btwork' \subseteq {"call", "sco"}
    BY <2>4
  <2>8. RestTyped'
    BY <2>2, <2>5, <2>6, <2>7 DEF RestTyped
  <2> QED
    BY <2>1, <2>8
<1>12. CASE InitOk
  <2>1. LifeTyped'
    BY <1>1, <1>12 DEF InitOk, BtInitOk, LifeTyped
  <2> QED
    BY <1>3, <1>4, <1>12, <2>1 DEF InitOk, BtInitOk
<1>13. CASE BtExitTick
  <2>1. LifeTyped'
    BY <1>1, <1>13 DEF BtExitTick, BtExitCheck, LifeTyped
  <2>2. RestTyped'
    BY <1>1, <1>13 DEF BtExitTick, BtExitCheck, RestTyped, rest, toneVars, timerVars,
                       miscVars, envVars
  <2> QED
    BY <1>3, <1>13, <2>1, <2>2 DEF BtExitTick, BtExitCheck
<1>14. CASE ExitTimerFires
  <2>1. PowerTyped'
    BY <1>1, <1>14 DEF ExitTimerFires, PowerTyped
  <2> QED
    BY <1>2, <1>4, <1>14, <2>1 DEF ExitTimerFires
<1>15. CASE EscoTimerFires
  <2>1. PowerTyped'
    BY <1>1, <1>15 DEF EscoTimerFires, PowerTyped
  <2> QED
    BY <1>2, <1>4, <1>15, <2>1 DEF EscoTimerFires
<1>16. CASE PowerOnTimerFires
  <2>1. PowerTyped'
    BY <1>1, <1>16, RequestSwitches DEF PowerOnTimerFires, Request, Task
  <2>2. RestTyped'
    BY <1>1, <1>16 DEF PowerOnTimerFires, RestTyped, toneVars, miscVars, envVars
  <2> QED
    BY <1>2, <1>16, <2>1, <2>2 DEF PowerOnTimerFires
<1>17. CASE IrTimerFires
  <2>1. PowerTyped'
    BY <1>1, <1>17, RequestSwitches DEF IrTimerFires, Request, Task
  <2>2. RestTyped'
    BY <1>1, <1>17 DEF IrTimerFires, RestTyped, toneVars, miscVars, envVars
  <2> QED
    BY <1>2, <1>17, <2>1, <2>2 DEF IrTimerFires
<1>18. CASE ToneEnds
  <2>1. RestTyped'
    BY <1>1, <1>18 DEF ToneEnds, Tones!Ends, Tones!Break, RestTyped, timerVars,
                       miscVars, envVars, btVars
  <2> QED
    BY <1>2, <1>3, <1>18, <2>1 DEF ToneEnds, btVars
<1>19. ASSUME NEW t, ToneDone(t), powerOnTimer' \in BOOLEAN, fmInit' \in BOOLEAN,
             keys' \in BOOLEAN
      PROVE  RestTyped'
  BY <1>1, <1>19 DEF ToneDone, Tones!Done, RestTyped, envVars
<1>20. CASE PowerOnTone
  <2>1. RestTyped'
    BY <1>1, <1>19, <1>20 DEF PowerOnTone, RestTyped
  <2> QED
    BY <1>2, <1>3, <1>20, <2>1 DEF PowerOnTone
<1>21. CASE BtTone
  <2>1. RestTyped'
    BY <1>1, <1>19, <1>21 DEF BtTone, RestTyped, LifeTyped
  <2> QED
    BY <1>2, <1>3, <1>5, <1>21, <2>1 DEF BtTone
<1>22. CASE FmTone
  <2>1. RestTyped'
    BY <1>1, <1>19, <1>22 DEF FmTone, RestTyped
  <2> QED
    BY <1>2, <1>3, <1>22, <2>1 DEF FmTone
<1>23. CASE PowerOffTone
  <2>1. RestTyped'
    BY <1>1, <1>19, <1>23 DEF PowerOffTone, RestTyped
  <2> QED
    BY <1>2, <1>3, <1>23, <2>1 DEF PowerOffTone
<1>24. CASE CallChanges
  <2>1. RestTyped'
    BY <1>1, <1>24 DEF CallChanges, BtWorkChanges, RestTyped, rest, toneVars, timerVars,
                       miscVars, envVars
  <2> QED
    BY <1>2, <1>3, <1>24, <2>1 DEF CallChanges, BtWorkChanges
<1>25. CASE TimePasses
  <2>1. RestTyped'
    BY <1>1, <1>25 DEF TimePasses, RestTyped, toneVars, timerVars, miscVars, btVars
  <2> QED
    BY <1>2, <1>3, <1>25, <2>1 DEF TimePasses, btVars
<1>26. CASE UNCHANGED vars
  <2>1. UNCHANGED <<lifeVars, powerVars, rest, btwork>>
    BY <1>26 DEF vars, btVars, rest
  <2> QED
    BY <1>2, <1>3, <1>4, <2>1
<1> QED
  BY <1>6, <1>7, <1>8, <1>9, <1>10, <1>11, <1>12, <1>13, <1>14, <1>15, <1>16, <1>17,
     <1>18, <1>20, <1>21, <1>22, <1>23, <1>24, <1>25, <1>26
     DEF Next, Body, Timers, ToneCallback

(* The modes keep the types of their variables, whatever the numbers of    *)
(* devices and countdowns and whatever the environment does.               *)
THEOREM ModesTypeCorrect == Spec => []TypeOK
<1>1. Init => TypeOK
  <2> SUFFICES ASSUME Init PROVE TypeOK
    OBVIOUS
  <2>1. Kernel!TypeOK
    BY DEF Init, Kernel!Init, Kernel!TypeOK, Kernel!PC, BootTask, Task
  <2>2. BtTypeOK
    BY DEF Init, BtInit, BtTypeOK
  <2>3. keys \in BOOLEAN
    BY ModesAssumption DEF Init
  <2>4. irTimers \in 0..MaxIr /\ powerClass \in 0..2 /\ devs \in 0..MaxDev /\ phase \in 0..2
    BY ModesAssumption DEF Init
  <2>5. powerOnTimer \in BOOLEAN /\ fmInit \in BOOLEAN /\ lineIn \in BOOLEAN
    BY DEF Init, Tones!Init
  <2>6. tone \in ToneTask \cup {NoTask} /\ toneCb \subseteq ToneTask
    BY DEF Init, Tones!Init
  <2> QED
    BY <2>1, <2>2, <2>3, <2>4, <2>5, <2>6 DEF TypeOK, Tones!TypeOK
<1>2. TypeOK /\ [Next]_vars => TypeOK'
  <2> SUFFICES ASSUME TypeOK, [Next]_vars PROVE TypeOK'
    OBVIOUS
  <2>1. Kernel!TypeOK'
    BY StepImplementsKernel, KernelTypePreserved, TypeParts
  <2>2. LifeTyped' /\ PowerTyped' /\ RestTyped'
    BY StepTyped
  <2> QED
    BY <2>1, <2>2 DEF TypeOK, Tones!TypeOK, BtTypeOK, LifeTyped, PowerTyped,
                      RestTyped
<1> QED
  BY <1>1, <1>2, PTL DEF Spec

(* Every behaviour of the product's modes is a behaviour of the kernel.    *)
THEOREM ModesImplementSwitch == Spec => ImplementsSwitch
<1>1. Init => Kernel!Init
  BY DEF Init
<1>2. TypeOK /\ [Next]_vars => [Kernel!Next]_(Kernel!switchVars)
  BY StepImplementsKernel DEF switchVars, Kernel!switchVars
<1> QED
  BY <1>1, <1>2, ModesTypeCorrect, PTL DEF Spec, ImplementsSwitch, Kernel!Spec

-----------------------------------------------------------------------------
(* The stack stays inside the BT mode                                      *)

(* A BT body that only waits to return has nothing left of its teardown.   *)
TeardownDone == body = "BT" /\ wait_exit /\ ~exiting => stack = "off" /\ ~timer

(* The callback that cuts the power belongs to the power-off body, which   *)
(* is never left.                                                          *)
PowerOffStays ==
  /\ tone = "POWEROFF" \/ "POWEROFF" \in toneCb => body = "POWEROFF"
  /\ body = "POWEROFF" => pc \in {"get", "off"}

(* Together with the confinement itself: exit_flag tells the truth (a      *)
(* start relies on it), and the body that runs is the current mode's.      *)
StackInv ==
  /\ ExitFlagMatchesStack /\ NoStackOutsideBt
  /\ TeardownDone /\ PowerOffStays /\ Kernel!BodyIsCurrent

(* The invariant is inductive, given the types.                            *)
LEMMA StackInvPreserved ==
  ASSUME TypeOK, StackInv, [Next]_vars
  PROVE  StackInv'
<1> USE DEF StackInv, ExitFlagMatchesStack, NoStackOutsideBt, TeardownDone, PowerOffStays,
            Kernel!BodyIsCurrent
<1> USE ModesAssumption DEF lifeVars, toneVars, LingerTask
<1>1. CASE Enter
  <2>1. /\ stack = "off" /\ exit_flag /\ ~exiting /\ ~timer
        /\ tone # "POWEROFF" /\ "POWEROFF" \notin toneCb
        /\ body' = curr /\ curr' = curr
    BY <1>1 DEF Enter
  <2>2. CASE EnterBt
    BY <1>1, <2>1, <2>2 DEF Enter, EnterBt, BtTaskStart, PlayTone, Tones!Play, Tones!Break
  <2>3. CASE EnterPowerOn
    BY <1>1, <2>1, <2>3 DEF Enter, EnterPowerOn, PlayTone, Tones!Play, Tones!Break
  <2>4. CASE EnterPlain
    BY <1>1, <2>1, <2>4 DEF Enter, EnterPlain
  <2>5. CASE EnterFm
    BY <1>1, <2>1, <2>5 DEF Enter, EnterFm, PlayTone, Tones!Play, Tones!Break
  <2>6. CASE EnterIdle
    BY <1>1, <2>1, <2>6 DEF Enter, EnterIdle
  <2>7. CASE EnterPowerOff
    BY <1>1, <2>1, <2>7 DEF Enter, EnterPowerOff
  <2> QED
    BY <1>1, <2>2, <2>3, <2>4, <2>5, <2>6, <2>7 DEF Enter
<1>2. CASE PollNone
  BY <1>2 DEF PollNone, rest, btVars
<1>3. CASE PollCommit
  BY <1>3 DEF PollCommit, Kernel!PollCommit, rest, btVars
<1>4. CASE PollClear
  BY <1>4 DEF PollClear, Kernel!PollClear, btVars
<1>5. CASE Close
  <2>1. CASE CloseOthers
    BY <1>5, <2>1 DEF Close, CloseOthers, StopTone, Tones!Stop, PlayTone, Tones!Play, Tones!Break
  <2>2. CASE CloseBt
    BY <1>5, <2>2 DEF Close, CloseBt, BtTaskClose, StopTone, Tones!Stop
  <2> QED
    BY <1>5, <2>1, <2>2 DEF Close
<1>6. CASE Message /\ ~IdleIrKey
  <2>1. Quiet
    BY <1>6, MessagesAreQuiet
  <2> QED
    BY <2>1 DEF Quiet, PlayTone, Tones!Play, Tones!Break
<1>7. CASE IdleIrKey
  BY <1>7 DEF IdleIrKey, Kernel!Reset, BootTask
<1>8. CASE InitOk
  BY <1>8 DEF InitOk, Event, BtInitOk, rest
<1>9. CASE BtExitTick
  BY <1>9 DEF BtExitTick, BtExitCheck, rest, switchVars
<1>10. CASE ExitTimerFires \/ EscoTimerFires \/ PowerOnTimerFires \/ IrTimerFires
  <2>1. UNCHANGED <<curr, body, pc, lifeVars, toneVars>>
    BY <1>10 DEF ExitTimerFires, EscoTimerFires, PowerOnTimerFires, IrTimerFires, rest, switchVars
  <2> QED
    BY <2>1
<1>11. CASE ToneEnds
  BY <1>11 DEF ToneEnds, Tones!Ends, Tones!Break, switchVars, btVars
<1>12. CASE PowerOnTone
  BY <1>12 DEF PowerOnTone, ToneDone, Tones!Done
<1>13. CASE BtTone
  BY <1>13 DEF BtTone, ToneDone, Tones!Done, BtTaskStart
<1>14. CASE FmTone
  BY <1>14 DEF FmTone, ToneDone, Tones!Done
<1>15. CASE PowerOffTone
  BY <1>15 DEF PowerOffTone, ToneDone, Tones!Done
<1>16. CASE CallChanges \/ TimePasses \/ UNCHANGED vars
  <2>1. UNCHANGED <<curr, body, pc, lifeVars, toneVars>>
    BY <1>16 DEF CallChanges, BtWorkChanges, TimePasses, rest, switchVars, vars, btVars
  <2> QED
    BY <2>1
<1> QED
  BY <1>1, <1>2, <1>3, <1>4, <1>5, <1>6, <1>7, <1>8, <1>9, <1>10, <1>11, <1>12, <1>13,
     <1>14, <1>15, <1>16 DEF Next, Body, Timers, ToneCallback

(* The inductive invariant holds in every reachable state.                 *)
THEOREM StackInvHolds == Spec => []StackInv
<1>1. Init => StackInv
  <2> SUFFICES ASSUME Init PROVE StackInv
    OBVIOUS
  <2>1. /\ exit_flag = TRUE /\ exiting = FALSE /\ wait_exit = FALSE
        /\ timer = FALSE /\ stack = "off"
    BY DEF Init, BtInit
  <2>2. body = curr /\ pc = "loop" /\ body = "POWERON"
    BY DEF Init, Kernel!Init, BootTask
  <2>3. tone # "POWEROFF" /\ toneCb = {}
    BY ModesAssumption DEF Init, Tones!Init
  <2> QED
    BY <2>1, <2>2, <2>3
       DEF StackInv, ExitFlagMatchesStack, NoStackOutsideBt, TeardownDone, PowerOffStays,
           Kernel!BodyIsCurrent
<1>2. TypeOK /\ StackInv /\ [Next]_vars => StackInv'
  BY StackInvPreserved
<1> QED
  BY <1>1, <1>2, ModesTypeCorrect, PTL DEF Spec

(* When another mode's body runs, when the BT body has returned and when   *)
(* the power is cut, the stack is down and its teardown is over.           *)
THEOREM StackConfined == Spec => []NoStackOutsideBt
<1>1. StackInv => NoStackOutsideBt
  BY DEF StackInv
<1> QED
  BY <1>1, StackInvHolds, PTL

(* exit_flag, which decides whether bt_task_start starts the stack, never  *)
(* disagrees with the stack.                                               *)
THEOREM ExitFlagTruthful == Spec => []ExitFlagMatchesStack
<1>1. StackInv => ExitFlagMatchesStack
  BY DEF StackInv
<1> QED
  BY <1>1, StackInvHolds, PTL

-----------------------------------------------------------------------------
(* No start under an armed exit timer                                      *)

(* Requests come from the mode key, the player and user_power_on_init: no  *)
(* remote or low-battery power-off, no device after the start-up.          *)
OrdinaryUse == {"modekey", "boot", "call", "noplay"}

Played == {"BT", "MUSIC", "FM", "LINEIN"}

(* Nothing of a power-off is under way, and no countdown runs. *)
Calm ==
  /\ irTimers = 0 /\ ~exitTimer /\ ~escoTimer /\ ~goto_poweroff /\ ~force_poweroff

(* Only the played modes are ever asked for; start-up is never returned to. *)
AtWork ==
  /\ next \in Played \cup {NoTask} /\ (next = curr => pc = "commit")
  /\ curr \in Played \/ (curr = "POWERON" /\ body = "POWERON")
  /\ body \in Played \cup {"POWERON"}

(* The keys are off from a commit to the entry of the next mode, and in BT *)
(* before its stack is started and once its teardown has begun.            *)
KeysHeld ==
  /\ body = "BT" /\ (exit_flag \/ wait_exit) => ~keys
  /\ pc \in {"close", "loop"} => ~keys \/ curr = "POWERON"

(* A request made while one mode hands over to the next can only have been *)
(* that of user_power_on_init, which is made once.                         *)
TimerSpent == pc \in {"close", "loop"} /\ next # NoTask => ~powerOnTimer

Waiting == tone = "BT" \/ "BT" \in toneCb

(* While the callback that will start the stack is still to come, BT has   *)
(* either not been left (no exit timer), or it is left for good: whoever   *)
(* could have asked for BT again has asked already.                        *)
WaitingForTone ==
  Waiting =>
    /\ body = "BT" /\ pc # "loop" /\ exit_flag /\ (wait_exit => exiting)
    /\ (curr # "BT" \/ next # NoTask => ~powerOnTimer)
    /\ (curr # "BT" => next = NoTask \/ pc = "commit")
    /\ (curr = "BT" => ~timer /\ pc \in {"get", "poll", "off"})
    /\ (tone = "BT" => "BT" \notin toneCb)

StartInv ==
  /\ Calm /\ AtWork /\ KeysHeld /\ TimerSpent /\ WaitingForTone
  /\ (exit_flag => ~init_ok) /\ (timer => wait_exit)

(* A request as ordinary use makes it: nothing of the power-off moves, and *)
(* the request pending is the old one or one for another played mode.      *)
Asks ==
  /\ ~exitTimer' /\ ~escoTimer' /\ ~goto_poweroff' /\ ~force_poweroff'
  /\ next' = next \/ next' \in Played \ {curr}

(* app_task_switch_next only finds modes of the list. *)
LEMMA NextInListPlayed ==
  ASSUME NEW t, NEW A, Kernel!NextInList(t, A) # NoTask, \A m \in A : m # curr
  PROVE  Kernel!NextInList(t, A) \in Played \ {curr}
<1>1. TaskList = <<"BT", "MUSIC", "FM", "LINEIN">> /\ Len(TaskList) = 4
  BY DEF TaskList
<1>2. Kernel!ListIndex(t) \in 1..5
  BY <1>1 DEF Kernel!ListIndex
<1>3. \A k \in 1..Kernel!Tries(t) : Kernel!TryIndex(t, k) \in 1..4
  BY <1>1, <1>2 DEF Kernel!TryIndex, Kernel!Tries
<1>4. \A k \in 1..Kernel!Tries(t) : Kernel!NextTry(t, k) \in Played
  BY <1>1, <1>3 DEF Kernel!NextTry, Played
<1> QED
  BY <1>4, NextInListAdmitted

(* A handler that requests nothing, in ordinary use. *)
LEMMA NoRequestAsks ==
  ASSUME Calm, NoRequest
  PROVE  Asks /\ next' = next
BY DEF Calm, NoRequest, Asks, powerVars, Kernel!NoSwitch

(* app_task_switch_to for a played mode. *)
LEMMA RequestAsks ==
  ASSUME Calm, NEW t \in Played, NEW d, NEW l, RequestWith(t, d, l)
  PROVE  Asks
<1>1. CASE (t = curr \/ ~CanEnter(t, d, l)) /\ Kernel!NoSwitch /\ UNCHANGED powerVars
  BY <1>1 DEF Calm, Asks, powerVars, Kernel!NoSwitch
<1>2. CASE ExitRefused /\ Kernel!NoSwitch /\ BtRefuseExit
  BY <1>2 DEF Calm, Asks, BtRefuseExit, Kernel!NoSwitch
<1>3. CASE /\ Kernel!SwitchTo(t)
           /\ IF curr = "BT" THEN BtAllowExit ELSE UNCHANGED powerVars
  BY <1>3 DEF Calm, Asks, BtAllowExit, powerVars, Kernel!SwitchTo
<1> QED
  BY <1>1, <1>2, <1>3 DEF RequestWith

(* app_task_switch_next. *)
LEMMA RequestNextAsks ==
  ASSUME Calm, NEW l, RequestNext(l)
  PROVE  Asks
<1> DEFINE A == {m \in Task : m # curr /\ CanEnter(m, devs, l)}
           t == Kernel!NextInList(curr, A)
<1>1. CASE t = NoTask
  BY <1>1, NoRequestAsks DEF RequestNext
<1>2. CASE t # NoTask
  <2>1. t \in Played
    BY <1>2, NextInListPlayed
  <2>2. RequestWith(t, devs, l)
    BY <1>2 DEF RequestNext
  <2> QED
    BY <2>1, <2>2, RequestAsks
<1> QED
  BY <1>1, <1>2

(* A message in ordinary use.  In the body of BT only the mode key asks    *)
(* for another mode.                                                       *)
LEMMA MessagesAsk ==
  ASSUME Stimuli \subseteq OrdinaryUse, StartInv, Message
  PROVE  /\ pc = "get" /\ pc' = "poll"
         /\ UNCHANGED <<curr, body, keys, powerOnTimer, irTimers, lifeVars, toneVars>>
         /\ Asks
         /\ body = "BT" /\ ~keys => next' = next
<1> USE DEF StartInv, OrdinaryUse
<1> USE DEF Event, rest, timerVars, envVars, miscVars
<1>1. CASE OtherMessage
  BY <1>1, NoRequestAsks DEF OtherMessage
<1>2. CASE ModeKey
  BY <1>2, NoRequestAsks, RequestNextAsks DEF ModeKey
<1>3. ASSUME phase < 2, NEW t, NEW d, NEW l, DeviceRequest(t, d, l)
      PROVE  NoRequest
  BY <1>3 DEF DeviceRequest
<1>4. CASE StorageIn
  BY <1>3, <1>4, NoRequestAsks DEF StorageIn, Plugging
<1>5. CASE MusicQuits
  BY <1>5, RequestNextAsks, RequestAsks DEF MusicQuits, Request, Played
<1>6. CASE LineIn
  <2>1. phase < 2
    BY <1>6 DEF LineIn, Plugging
  <2>2. CASE body = "LINEIN" /\ lineIn
    BY <1>6, <2>2, RequestNextAsks DEF LineIn
  <2>3. CASE body # "LINEIN" /\ ~lineIn
    <3>1. NoRequest
      BY <1>3, <1>6, <2>1, <2>3 DEF LineIn
    <3> QED
      BY <1>6, <3>1, NoRequestAsks DEF LineIn
  <2>4. CASE ~(body = "LINEIN" /\ lineIn) /\ ~(body # "LINEIN" /\ ~lineIn)
    <3>1. NoRequest
      BY <1>6, <2>4 DEF LineIn
    <3> QED
      BY <1>6, <3>1, NoRequestAsks DEF LineIn
  <2> QED
    BY <2>2, <2>3, <2>4
<1>7. ~(StorageOut \/ LowPower \/ PowerWarning \/ PowerKey \/ IrKey \/ IdlePowerOnKey \/ IdleIrKey)
  BY DEF StorageOut, LowPower, PowerWarning, PowerKey, IrKey, IdlePowerOnKey, IdleIrKey
<1> QED
  BY <1>1, <1>2, <1>4, <1>5, <1>6, <1>7 DEF Message

(* The invariant is inductive, given the types and StackInv. *)
LEMMA StartInvPreserved ==
  ASSUME Stimuli \subseteq OrdinaryUse, TypeOK, StackInv, StartInv, [Next]_vars
  PROVE  StartInv'
<1> USE DEF StartInv, Calm, AtWork, KeysHeld, TimerSpent, Waiting, WaitingForTone
<1> USE ModesAssumption DEF lifeVars, powerVars, toneVars, timerVars
<1>0. /\ NoTask \notin Played \cup {"POWERON"}
      /\ pc \in {"loop", "off"} => stack = "off" /\ exit_flag /\ ~exiting /\ ~timer
      /\ exit_flag <=> stack = "off"
      /\ powerOnTimer \in BOOLEAN /\ keys \in BOOLEAN
  BY DEF Played, StackInv, NoStackOutsideBt, ExitFlagMatchesStack, TypeOK
<1>1. CASE Enter
  <2>1. /\ pc = "loop" /\ ~Waiting /\ exit_flag /\ ~exiting /\ ~timer /\ ~init_ok
        /\ body' = curr /\ UNCHANGED <<curr, next>>
    BY <1>0, <1>1 DEF Enter
  <2>2. CASE EnterBt
    BY <1>0, <1>1, <2>1, <2>2
       DEF EnterBt, BtTaskStart, PlayTone, Tones!Play, Tones!Break, Played
  <2>3. CASE EnterPowerOn
    BY <1>0, <1>1, <2>1, <2>3 DEF EnterPowerOn, PlayTone, Tones!Play, Tones!Break, Played
  <2>4. CASE EnterPlain
    BY <1>0, <1>1, <2>1, <2>4 DEF EnterPlain, Played
  <2>5. CASE EnterFm
    BY <1>0, <1>1, <2>1, <2>5 DEF EnterFm, PlayTone, Tones!Play, Tones!Break, Played
  <2>6. ~EnterIdle /\ ~EnterPowerOff
    BY DEF EnterIdle, EnterPowerOff, Played
  <2> QED
    BY <1>1, <2>2, <2>3, <2>4, <2>5, <2>6 DEF Enter
<1>2. CASE PollNone
  BY <1>0, <1>2 DEF PollNone, rest, btVars, StackInv, TeardownDone
<1>3. CASE PollCommit
  BY <1>0, <1>3 DEF PollCommit, Kernel!PollCommit, rest, btVars
<1>4. CASE PollClear
  BY <1>0, <1>4 DEF PollClear, Kernel!PollClear, btVars
<1>5. CASE Close
  <2>1. CASE CloseOthers
    BY <1>0, <1>5, <2>1
       DEF Close, CloseOthers, StopTone, Tones!Stop, PlayTone, Tones!Play, Tones!Break
  <2>2. CASE CloseBt
    BY <1>0, <1>5, <2>2 DEF Close, CloseBt, BtTaskClose, StopTone, Tones!Stop
  <2> QED
    BY <1>5, <2>1, <2>2 DEF Close
<1>6. CASE Message
  BY <1>0, <1>6, MessagesAsk DEF Asks
<1>8. CASE InitOk
  BY <1>0, <1>8 DEF InitOk, Event, BtInitOk, rest, Kernel!NoSwitch
<1>9. CASE BtExitTick
  BY <1>0, <1>9 DEF BtExitTick, BtExitCheck, rest, switchVars
<1>10. CASE ExitTimerFires \/ EscoTimerFires \/ IrTimerFires
  BY <1>10 DEF ExitTimerFires, EscoTimerFires, IrTimerFires
<1>11. CASE PowerOnTimerFires
  <2>1. Asks
    BY <1>11, RequestAsks DEF PowerOnTimerFires, Request, Played
  <2> QED
    BY <1>0, <1>11, <2>1 DEF PowerOnTimerFires, Asks
<1>12. CASE ToneEnds
  BY <1>0, <1>12 DEF ToneEnds, Tones!Ends, Tones!Break, switchVars, btVars
<1>13. CASE PowerOnTone
  <2>1. /\ pc = "get"
        /\ UNCHANGED <<pc, curr, next, body, irTimers, tone, lifeVars, powerVars, keys>>
        /\ toneCb' \subseteq toneCb
        /\ powerOnTimer' = (powerOnTimer \/ curr = "POWERON")
    BY <1>13 DEF PowerOnTone, ToneDone, Tones!Done
  <2>2. CASE curr = "POWERON"
    BY <1>0, <2>1, <2>2 DEF Played
  <2>3. CASE curr # "POWERON"
    BY <1>0, <2>1, <2>3
  <2> QED
    BY <2>2, <2>3
<1>14. CASE BtTone
  <2>1. /\ pc = "get" /\ Waiting /\ exit_flag
        /\ UNCHANGED <<pc, curr, next, body, irTimers, powerOnTimer>>
    BY <1>14 DEF BtTone, ToneDone, Tones!Done
  <2>2. CASE curr = "BT"
    BY <1>0, <1>14, <2>1, <2>2 DEF BtTone, ToneDone, Tones!Done, BtTaskStart
  <2>3. CASE curr # "BT"
    BY <1>0, <1>14, <2>1, <2>3 DEF BtTone, ToneDone, Tones!Done
  <2> QED
    BY <2>2, <2>3
<1>15. CASE FmTone
  BY <1>0, <1>15 DEF FmTone, ToneDone, Tones!Done
<1>16. CASE PowerOffTone
  BY <1>0, <1>16 DEF PowerOffTone, ToneDone, Tones!Done
<1>17. CASE CallChanges \/ TimePasses \/ UNCHANGED vars
  BY <1>17 DEF CallChanges, BtWorkChanges, TimePasses, rest, switchVars, vars, btVars
<1> QED
  BY <1>1, <1>2, <1>3, <1>4, <1>5, <1>6, <1>8, <1>9, <1>10, <1>11, <1>12, <1>13,
     <1>14, <1>15, <1>16, <1>17 DEF Next, Body, Timers, ToneCallback

(* Under it, a step that starts the stack finds no timer armed: EnterBt    *)
(* comes after the teardown, the callback of the tone before the exit.     *)
LEMMA StartFindsNoTimer ==
  ASSUME Stimuli \subseteq OrdinaryUse, TypeOK, StackInv, StartInv, [Next]_vars,
         stack = "off", stack' # "off"
  PROVE  ~timer'
<1> USE DEF lifeVars, btVars
<1>1. CASE Enter
  <2>1. ~timer
    BY <1>1 DEF Enter, StackInv, NoStackOutsideBt
  <2> QED
    BY <1>1, <2>1 DEF Enter, EnterPowerOn, EnterBt, EnterPlain, EnterFm, EnterIdle,
                      EnterPowerOff, BtTaskStart
<1>2. CASE BtTone
  BY <1>2 DEF BtTone, ToneDone, Tones!Done, BtTaskStart, StartInv, WaitingForTone, Waiting
<1>3. CASE PollNone \/ PollCommit \/ PollClear \/ Close
  BY <1>3 DEF PollNone, PollCommit, PollClear, Close, CloseOthers, CloseBt, BtTaskClose
<1>4. CASE Message
  BY <1>4, MessagesAsk
<1>5. CASE InitOk
  BY <1>5 DEF InitOk, BtInitOk
<1>6. CASE Timers
  BY <1>6 DEF Timers, BtExitTick, BtExitCheck, ExitTimerFires, EscoTimerFires,
              PowerOnTimerFires, IrTimerFires
<1>7. CASE ToneEnds \/ PowerOnTone \/ FmTone \/ PowerOffTone
  BY <1>7 DEF ToneEnds, PowerOnTone, FmTone, PowerOffTone
<1>8. CASE CallChanges \/ TimePasses \/ UNCHANGED vars
  BY <1>8 DEF CallChanges, BtWorkChanges, TimePasses, vars
<1> QED
  BY <1>1, <1>2, <1>3, <1>4, <1>5, <1>6, <1>7, <1>8 DEF Next, Body, ToneCallback

(* In ordinary use, whatever the keys were set to at boot and however many *)
(* devices there are, bt_task_start never starts a stack that an exit      *)
(* timer, left armed by bt_task_close, would tear down once it is up.      *)
THEOREM StartsUndisturbed ==
  ASSUME Stimuli \subseteq OrdinaryUse
  PROVE  Spec => StartUndisturbed
<1>1. Init => StartInv
  BY ModesAssumption
     DEF Init, BtInit, Kernel!Init, Tones!Init, BootTask, StartInv, Calm, AtWork, KeysHeld,
         TimerSpent, Waiting, WaitingForTone, Played
<1>2. TypeOK /\ StackInv /\ StartInv /\ [Next]_vars => StartInv'
  BY StartInvPreserved
<1>3. TypeOK /\ StackInv /\ StartInv /\ [Next]_vars
        => [stack = "off" /\ stack' # "off" => ~timer']_vars
  BY StartFindsNoTimer
<1> QED
  BY <1>1, <1>2, <1>3, ModesTypeCorrect, StackInvHolds, PTL DEF Spec, StartUndisturbed
=============================================================================
