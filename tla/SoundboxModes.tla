-------------------------- MODULE SoundboxModes --------------------------
(***************************************************************************)
(* The modes of the product (board ac6966b): start-up, BT, music, FM,      *)
(* line-in, idle and power-off, the events each body handles or passes on  *)
(* to app_default_event_deal, the tone callbacks that start BT and FM, the *)
(* timers and the two-phase teardown of BT.  It implements AppTaskSwitch.  *)
(***************************************************************************)
EXTENDS Integers, Sequences, BtMode

CONSTANTS
  NoTask,
  MaxDev,    \* storage devices that can be online at once
  MaxIr,     \* remote power-off countdowns running at once
  BootKeys,  \* what sys_key_event may be set to at boot, before any body
  Stimuli    \* the kinds of event the environment produces

ASSUME ModesAssumption ==
  /\ NoTask \notin {"POWERON", "POWEROFF", "BT", "MUSIC", "FM", "LINEIN", "IDLE"}
  /\ MaxDev \in Nat \ {0} /\ MaxIr \in Nat /\ BootKeys \subseteq BOOLEAN
  /\ Stimuli \subseteq {"modekey", "powerkey", "irkey", "lowpower", "device",
                        "linein", "boot", "call", "noplay"}

VARIABLES
  prev, curr, next, body, pc, asked,  \* as in AppTaskSwitch
  keys,      \* sys_key_event_enable / _disable
  tone,      \* the mode whose tone plays, with a callback
  toneCb,    \* tone callbacks in the queue of app_core
  powerOnTimer,  \* user_power_on_init is armed on the hardware timer
  irTimers,  \* remote power-off countdowns (user_ir_power_off, user_to_idle_stask)
  powerClass,    \* user_power_off_class: 1 low battery, 2 remote control
  fmInit,    \* user_fm_task_init_flag
  devs,      \* dev_manager_get_total(1)
  lineIn,    \* linein_is_online
  phase      \* uptime: 0 up to 1300 ms, 1 up to 4000 ms, 2 beyond

switchVars == <<prev, curr, next, body, pc, asked>>
toneVars == <<tone, toneCb>>
timerVars == <<powerOnTimer, irTimers>>
envVars == <<devs, lineIn, phase>>
miscVars == <<powerClass, fmInit>>
vars == <<switchVars, keys, toneVars, timerVars, miscVars, envVars, btVars>>

(* What no event handler but its own touches. *)
rest == <<toneVars, timerVars, miscVars, envVars, keys>>

Task == {"POWERON", "POWEROFF", "BT", "MUSIC", "FM", "LINEIN", "IDLE"}
TaskList == <<"BT", "MUSIC", "FM", "LINEIN">>
BootTask == {"POWERON"}
FinalTask == {"POWEROFF"}
LingerTask == {"BT"}
CommitWindow == TRUE
ToneTask == {"POWERON", "BT", "FM", "POWEROFF"}

Kernel == INSTANCE AppTaskSwitch

(* The tone player, as far as the modes see it (TonePlayer implements it). *)
Tones == INSTANCE ToneInterface WITH Tone <- ToneTask, NoTone <- NoTask

TypeOK ==
  /\ Kernel!TypeOK
  /\ BtTypeOK
  /\ keys \in BOOLEAN
  /\ Tones!TypeOK
  /\ powerOnTimer \in BOOLEAN /\ irTimers \in 0..MaxIr
  /\ powerClass \in 0..2 /\ fmInit \in BOOLEAN
  /\ devs \in 0..MaxDev /\ lineIn \in BOOLEAN /\ phase \in 0..2

Init ==
  /\ Kernel!Init /\ BtInit
  /\ keys \in BootKeys
  /\ Tones!Init
  /\ powerOnTimer = FALSE /\ irTimers = 0
  /\ powerClass = 0 /\ fmInit = FALSE
  /\ devs = 0 /\ lineIn = FALSE /\ phase = 0

-----------------------------------------------------------------------------
(* app_task_switch.c                                                       *)

(* app_task_switch_check; d and l are the devices the handler leaves.      *)
CanEnter(t, d, l) == (t = "MUSIC" => d > 0) /\ (t = "LINEIN" => l)

ExitRefused == curr = "BT" /\ BtExitRefused

(* app_task_switch_to, all outcomes; the checks run in this order. *)
RequestWith(t, d, l) ==
  \/ /\ t = curr \/ ~CanEnter(t, d, l)
     /\ Kernel!NoSwitch /\ UNCHANGED powerVars
  \/ /\ t # curr /\ CanEnter(t, d, l) /\ ExitRefused
     /\ Kernel!NoSwitch /\ BtRefuseExit
  \/ /\ t # curr /\ CanEnter(t, d, l) /\ ~ExitRefused
     /\ Kernel!SwitchTo(t)
     /\ IF curr = "BT" THEN BtAllowExit ELSE UNCHANGED powerVars

Request(t) == RequestWith(t, devs, lineIn)

NoRequest == Kernel!NoSwitch /\ UNCHANGED powerVars

(* app_task_switch_next; l is the line-in state the handler leaves. *)
RequestNext(l) ==
  LET t == Kernel!NextInList(curr, {m \in Task : m # curr /\ CanEnter(m, devs, l)})
  IN  IF t = NoTask THEN NoRequest ELSE RequestWith(t, devs, l)

-----------------------------------------------------------------------------
(* Tones                                                                   *)

(* tone_play_with_callback_by_name: it breaks the tone that plays, whose   *)
(* callback is posted all the same.  Started == FALSE is the error return. *)
PlayTone(t, Started) == Tones!Play(t, Started)

(* tone_play_stop posts no callback (USER_TONE_PLAY_ERROR_NO_RETURN). *)
StopTone == Tones!Stop

(* The decoder reaches the end of a tone and posts its callback. *)
ToneEnds ==
  /\ pc # "off" /\ Tones!Ends
  /\ UNCHANGED <<switchVars, keys, timerVars, miscVars, envVars, btVars>>

(* The callback of a tone, run by app_core while it waits for a message.   *)
ToneDone(t) ==
  /\ pc = "get" /\ Tones!Done(t)
  /\ UNCHANGED <<prev, curr, next, body, asked, irTimers, powerClass, envVars, btwork>>

(* Mutant: power_on_init does not arm user_power_on_init. *)
PowerOnToneNoTimer ==
  ToneDone("POWERON") /\ UNCHANGED <<pc, powerOnTimer, fmInit, keys, lifeVars, powerVars>>

PowerOnTone ==
  /\ ToneDone("POWERON")
  /\ powerOnTimer' = (powerOnTimer \/ curr = "POWERON")
  /\ UNCHANGED <<pc, fmInit, keys, lifeVars, powerVars>>

BtTone ==
  /\ ToneDone("BT")
  /\ IF curr = "BT"
     THEN BtTaskStart /\ keys' = (keys \/ exit_flag)
     ELSE UNCHANGED <<lifeVars, powerVars, keys>>
  /\ UNCHANGED <<pc, powerOnTimer, fmInit>>

FmTone ==
  /\ ToneDone("FM")
  /\ fmInit' = (fmInit \/ curr = "FM")
  /\ UNCHANGED <<pc, powerOnTimer, keys, lifeVars, powerVars>>

PowerOffTone ==
  /\ ToneDone("POWEROFF")
  /\ pc' = IF goto_poweroff THEN "off" ELSE "get"
  /\ UNCHANGED <<powerOnTimer, fmInit, keys, lifeVars, powerVars>>

ToneCallback == PowerOnTone \/ BtTone \/ FmTone \/ PowerOffTone

-----------------------------------------------------------------------------
(* app_core: entering a body                                               *)

EnterPowerOn ==
  /\ curr = "POWERON"
  /\ \E ok \in BOOLEAN : PlayTone("POWERON", ok) /\ powerOnTimer' = (powerOnTimer \/ ~ok)
  /\ pc' = "get"
  /\ UNCHANGED <<keys, irTimers, miscVars, lifeVars, powerVars>>

EnterBt ==
  /\ curr = "BT"
  /\ \E ok \in BOOLEAN :
       /\ PlayTone("BT", ok)
       /\ IF exit_flag /\ ~ok
          THEN BtTaskStart /\ keys' = TRUE
          ELSE /\ wait_exit' = FALSE
               /\ UNCHANGED <<exit_flag, exiting, init_ok, timer, stack, powerVars, keys>>
  /\ pc' = "get"
  /\ UNCHANGED <<timerVars, miscVars>>

EnterPlain ==
  /\ curr \in {"MUSIC", "LINEIN"}
  /\ keys' = TRUE
  /\ pc' = "get"
  /\ UNCHANGED <<toneVars, timerVars, miscVars, lifeVars, powerVars>>

(* Mutant: fm_app_init leaves the keys as they are. *)
EnterFmNoKeys ==
  /\ curr = "FM"
  /\ \E ok \in BOOLEAN : PlayTone("FM", ok) /\ fmInit' = (fmInit \/ ~ok)
  /\ pc' = "get"
  /\ UNCHANGED <<keys, timerVars, powerClass, lifeVars, powerVars>>

EnterFm ==
  /\ curr = "FM"
  /\ keys' = TRUE
  /\ \E ok \in BOOLEAN : PlayTone("FM", ok) /\ fmInit' = (fmInit \/ ~ok)
  /\ pc' = "get"
  /\ UNCHANGED <<timerVars, powerClass, lifeVars, powerVars>>

(* idle_app_start: after a low battery the power is cut for good. *)
EnterIdle ==
  /\ curr = "IDLE"
  /\ IF powerClass = 1 THEN pc' = "off" /\ UNCHANGED keys ELSE pc' = "get" /\ keys' = TRUE
  /\ UNCHANGED <<toneVars, timerVars, miscVars, lifeVars, powerVars>>

(* poweroff_app_start: without goto_poweroff_flag it does nothing at all.  *)
EnterPowerOff ==
  /\ curr = "POWEROFF"
  /\ IF goto_poweroff
     THEN \E ok \in BOOLEAN :
            /\ toneCb' = {}
            /\ tone' = IF ok THEN "POWEROFF" ELSE NoTask
            /\ pc' = IF ok THEN "get" ELSE "off"
     ELSE pc' = "get" /\ UNCHANGED toneVars
  /\ UNCHANGED <<keys, timerVars, miscVars, lifeVars, powerVars>>

Enter ==
  /\ pc = "loop"
  /\ body' = curr
  /\ \/ EnterPowerOn \/ EnterBt \/ EnterPlain \/ EnterFm \/ EnterIdle \/ EnterPowerOff
  /\ UNCHANGED <<prev, curr, next, asked, envVars, btwork>>

-----------------------------------------------------------------------------
(* app_core: polling and leaving                                           *)

(* Mutant: app_bt_task returns without waiting for exiting. *)
PollNoneNoWait ==
  /\ pc = "poll" /\ next = NoTask
  /\ pc' = IF body = "BT" /\ wait_exit THEN "loop" ELSE "get"
  /\ UNCHANGED <<prev, curr, next, body, asked, rest, btVars>>

PollNone ==
  /\ pc = "poll" /\ next = NoTask
  /\ pc' = IF body = "BT" /\ wait_exit /\ ~exiting THEN "loop" ELSE "get"
  /\ UNCHANGED <<prev, curr, next, body, asked, rest, btVars>>

PollCommit == Kernel!PollCommit /\ UNCHANGED <<rest, btVars>>

PollClear ==
  /\ Kernel!PollClear
  /\ keys' = FALSE
  /\ UNCHANGED <<toneVars, timerVars, miscVars, envVars, btVars>>

(* Mutant: a body goes on after its close. *)
CloseOthersStays ==
  /\ body # "BT"
  /\ pc' = "get"
  /\ UNCHANGED <<toneVars, lifeVars, keys>>

(* A mode closed in one go: the power-on tone is stopped silently, the FM  *)
(* tone with its callback.                                                 *)
CloseOthers ==
  /\ body # "BT"
  /\ pc' = "loop"
  /\ IF body = "POWERON" THEN StopTone
     ELSE IF body = "FM" /\ tone = "FM" THEN PlayTone(tone, FALSE)
     ELSE UNCHANGED toneVars
  /\ UNCHANGED <<lifeVars, keys>>

CloseBt ==
  /\ body = "BT"
  /\ BtTaskClose /\ StopTone
  /\ keys' = FALSE
  /\ pc' = "get"

Close ==
  /\ pc = "close"
  /\ CloseOthers \/ CloseBt
  /\ UNCHANGED <<prev, curr, next, body, asked, timerVars, miscVars, envVars,
                 btwork, powerVars>>

-----------------------------------------------------------------------------
(* app_core: messages.  Every handler is followed by the poll; the         *)
(* power-off body swallows every event and never polls.                    *)

Event ==
  /\ pc = "get" /\ body # "POWEROFF"
  /\ pc' = "poll"
  /\ UNCHANGED <<curr, body>>

(* A message that changes nothing here: APP_MSG_SWITCH_TASK, an interface  *)
(* event, a key that only acts on the volume ...                           *)
OtherMessage ==
  /\ Event /\ NoRequest
  /\ UNCHANGED <<rest, lifeVars, btwork>>

(* KEY_CHANGE_MODE.  The idle body swallows it, the music body may keep it *)
(* to change device, the rest goes to app_common_key_msg_deal.             *)
ModeKey ==
  /\ "modekey" \in Stimuli /\ keys /\ body # "IDLE"
  /\ Event
  /\ \/ body = "MUSIC" /\ devs > 1 /\ NoRequest
     \/ IF phase = 2 /\ (curr = "FM" => fmInit) THEN RequestNext(lineIn) ELSE NoRequest
  /\ UNCHANGED <<rest, lifeVars, btwork>>

(* A device that comes: at any time, or ("boot") found in the first 4 s.   *)
Plugging(what) == what \in Stimuli \/ ("boot" \in Stimuli /\ phase < 2)

(* The last part of app_common_device_event_handler, for a device that has *)
(* come online and belongs to mode app.                                    *)
DeviceRequest(app, d, l) ==
  IF phase = 2 /\ (curr = "BT" => init_ok) THEN RequestWith(app, d, l) ELSE NoRequest

StorageIn ==
  /\ Plugging("device") /\ devs < MaxDev
  /\ Event
  /\ devs' = devs + 1
  /\ DeviceRequest("MUSIC", devs + 1, lineIn)
  /\ UNCHANGED <<lineIn, phase, toneVars, timerVars, miscVars, keys, lifeVars, btwork>>

(* Mutant: the number of devices goes down with every OUT event. *)
StorageOutUnchecked ==
  /\ "device" \in Stimuli
  /\ Event
  /\ devs' = devs - 1
  /\ NoRequest
  /\ UNCHANGED <<lineIn, phase, toneVars, timerVars, miscVars, keys, lifeVars, btwork>>

StorageOut ==
  /\ "device" \in Stimuli /\ devs > 0
  /\ Event
  /\ devs' = devs - 1
  /\ NoRequest
  /\ UNCHANGED <<lineIn, phase, toneVars, timerVars, miscVars, keys, lifeVars, btwork>>

(* The player gives up (KEY_MUSIC_PLAYER_QUIT) or finds no device left     *)
(* (USER_MSG_TO_BT_MODE); the key message may be older than the devices.   *)
MusicQuits ==
  /\ "noplay" \in Stimuli /\ body = "MUSIC"
  /\ Event
  /\ RequestNext(lineIn) \/ IF curr # "BT" THEN Request("BT") ELSE RequestNext(lineIn)
  /\ UNCHANGED <<rest, lifeVars, btwork>>

(* The line-in body keeps both events of its own device. *)
LineIn ==
  /\ Plugging("linein")
  /\ Event
  /\ lineIn' = ~lineIn
  /\ CASE body = "LINEIN" /\ lineIn -> RequestNext(FALSE)
       [] body # "LINEIN" /\ ~lineIn -> DeviceRequest("LINEIN", devs, TRUE)
       [] OTHER -> NoRequest
  /\ UNCHANGED <<devs, phase, toneVars, timerVars, miscVars, keys, lifeVars, btwork>>

(* POWER_EVENT_POWER_LOW. *)
LowPower ==
  /\ "lowpower" \in Stimuli
  /\ Event
  /\ powerClass' = 1
  /\ SoftPoweroff(TRUE) /\ Kernel!NoSwitch
  /\ UNCHANGED <<fmInit, toneVars, timerVars, envVars, keys, lifeVars, btwork>>

(* KEY_POWEROFF held until power_off_deal has counted POWER_OFF_CNT.       *)
PowerKey ==
  /\ "powerkey" \in Stimuli /\ keys /\ body # "IDLE"
  /\ Event
  /\ SoftPoweroff(force_poweroff) /\ Kernel!NoSwitch
  /\ UNCHANGED <<rest, lifeVars, btwork>>

(* KEY_IR_PPOWER outside idle: the countdown to idle is started. *)
IrKey ==
  /\ "irkey" \in Stimuli /\ keys /\ body # "IDLE" /\ curr # "IDLE"
  /\ irTimers < MaxIr
  /\ Event /\ NoRequest
  /\ irTimers' = irTimers + 1
  /\ powerClass' = IF powerClass = 1 THEN 1 ELSE 2
  /\ PlayTone(NoTask, FALSE)
  /\ UNCHANGED <<powerOnTimer, fmInit, envVars, keys, lifeVars, btwork>>

(* POWER_EVENT_POWER_WARNING: its tone breaks the one of the mode. *)
PowerWarning ==
  /\ "lowpower" \in Stimuli
  /\ Event /\ NoRequest
  /\ PlayTone(NoTask, FALSE)
  /\ UNCHANGED <<timerVars, miscVars, envVars, keys, lifeVars, btwork>>

(* KEY_POWER_ON held in idle: idle_key_poweron_deal. *)
IdlePowerOnKey ==
  /\ "powerkey" \in Stimuli /\ keys /\ body = "IDLE"
  /\ Event
  /\ goto_poweroff' = FALSE
  /\ IF curr = "POWERON" THEN Kernel!NoSwitch ELSE Kernel!SwitchTo("POWERON")
  /\ UNCHANGED <<force_poweroff, exitTimer, escoTimer, rest, lifeVars, btwork>>

(* KEY_IR_PPOWER in idle: cpu_reset. *)
IdleIrKey ==
  /\ "irkey" \in Stimuli /\ keys /\ body = "IDLE" /\ pc = "get"
  /\ Kernel!Reset
  /\ exit_flag' = TRUE /\ exiting' = FALSE /\ wait_exit' = FALSE
  /\ init_ok' = FALSE /\ timer' = FALSE /\ stack' = "off" /\ btwork' = {}
  /\ force_poweroff' = FALSE /\ goto_poweroff' = FALSE
  /\ exitTimer' = FALSE /\ escoTimer' = FALSE
  /\ keys' \in BootKeys /\ tone' = NoTask /\ toneCb' = {}
  /\ powerOnTimer' = FALSE /\ irTimers' = 0
  /\ powerClass' = 0 /\ fmInit' = FALSE /\ phase' = 0
  /\ UNCHANGED <<devs, lineIn>>

(* BT_STATUS_INIT_OK of the stack. *)
InitOk ==
  /\ Event
  /\ BtInitOk(body = "BT") /\ Kernel!NoSwitch
  /\ UNCHANGED rest

-----------------------------------------------------------------------------
(* Timers of the system timer thread: their callbacks run in app_core,     *)
(* inside app_task_get_msg.                                                *)

BtExitTick ==
  /\ pc = "get"
  /\ BtExitCheck
  /\ UNCHANGED <<switchVars, rest>>

(* wait_exit_btstack_flag. *)
ExitTimerFires ==
  /\ pc = "get" /\ exitTimer
  /\ exitTimer' = FALSE
  /\ \/ /\ curr = "POWEROFF"
        /\ Kernel!NoSwitch /\ UNCHANGED <<force_poweroff, goto_poweroff, escoTimer>>
     \/ /\ curr # "POWEROFF" /\ ExitRefused
        /\ Kernel!NoSwitch
        /\ goto_poweroff' = FALSE /\ escoTimer' = (escoTimer \/ force_poweroff)
        /\ UNCHANGED force_poweroff
     \/ /\ curr # "POWEROFF" /\ ~ExitRefused
        /\ Kernel!SwitchTo("POWEROFF")
        /\ force_poweroff' = (force_poweroff /\ (curr = "BT" => exit_flag))
        /\ UNCHANGED <<goto_poweroff, escoTimer>>
  /\ UNCHANGED <<curr, body, pc, rest, lifeVars, btwork>>

(* esco_check_state, once the call audio has stopped. *)
EscoTimerFires ==
  /\ pc = "get" /\ escoTimer /\ "sco" \notin btwork
  /\ escoTimer' = FALSE
  /\ goto_poweroff' = TRUE
  /\ exitTimer' = (exitTimer \/ ~goto_poweroff)
  /\ UNCHANGED <<force_poweroff, switchVars, rest, lifeVars, btwork>>

-----------------------------------------------------------------------------
(* Callbacks of the hardware timer: they run between any two steps.        *)

(* user_power_on_init, the runs that do not arm it again. *)
PowerOnTimerFires ==
  /\ pc # "off" /\ powerOnTimer
  /\ \/ devs > 0 /\ Request("MUSIC")
     \/ devs = 0 /\ phase > 0 /\ Request("BT")
  /\ powerOnTimer' = FALSE
  /\ UNCHANGED <<curr, body, pc, irTimers, keys, toneVars, miscVars, envVars,
                 lifeVars, btwork>>

(* user_to_idle_stask at the end of a countdown. *)
IrTimerFires ==
  /\ pc # "off" /\ irTimers > 0
  /\ Request("IDLE")
  /\ irTimers' = irTimers - 1
  /\ UNCHANGED <<curr, body, pc, powerOnTimer, keys, toneVars, miscVars, envVars,
                 lifeVars, btwork>>

-----------------------------------------------------------------------------
(* The environment                                                         *)

CallChanges ==
  /\ "call" \in Stimuli /\ pc # "off"
  /\ BtWorkChanges
  /\ UNCHANGED <<switchVars, rest>>

(* Seconds pass while app_core waits.  The 100 ms hardware timer of        *)
(* user_power_on_init fires before the 2.7 s between the last two phases   *)
(* are over.                                                               *)
TimePasses ==
  /\ phase < 2 /\ pc = "get"
  /\ powerOnTimer => phase = 0
  /\ phase' = phase + 1
  /\ UNCHANGED <<switchVars, keys, toneVars, timerVars, miscVars, devs, lineIn, btVars>>

Body == Enter \/ PollNone \/ PollCommit \/ PollClear \/ Close

Message ==
  \/ OtherMessage \/ ModeKey \/ StorageIn \/ StorageOut \/ MusicQuits \/ LineIn
  \/ LowPower \/ PowerWarning \/ PowerKey \/ IrKey \/ IdlePowerOnKey \/ IdleIrKey

Timers == BtExitTick \/ ExitTimerFires \/ EscoTimerFires \/ PowerOnTimerFires \/ IrTimerFires

Next ==
  \/ Body \/ Message \/ InitOk \/ Timers \/ ToneEnds \/ ToneCallback
  \/ CallChanges \/ TimePasses

Spec == Init /\ [][Next]_vars

(* app_core is not starved and its queue is a FIFO: a callback or a stack  *)
(* event that has been posted is reached, however many messages precede    *)
(* it.  Hardware timers and decoders go on by themselves.                  *)
FairSpec ==
  /\ Spec
  /\ WF_vars(Body \/ OtherMessage)
  /\ SF_vars(BtExitTick) /\ SF_vars(InitOk)
  /\ SF_vars(PowerOnTone) /\ SF_vars(BtTone) /\ SF_vars(FmTone)
  /\ SF_vars(ExitTimerFires)
  /\ WF_vars(ToneEnds) /\ WF_vars(PowerOnTimerFires) /\ SF_vars(TimePasses)
-----------------------------------------------------------------------------
(* Properties                                                              *)

(* The point of the non-background build: when another mode's body runs,   *)
(* when the power is cut, and already when the BT body has returned, the   *)
(* stack is gone and nothing of its teardown is left (bt.c, wait_exit and  *)
(* exiting of app_bt_task).                                                *)
NoStackOutsideBt ==
  body # "BT" \/ pc \in {"loop", "off"} => stack = "off" /\ exit_flag /\ ~exiting /\ ~timer

(* exit_flag is what bt_task_start and the exit check believe about the    *)
(* stack: it never disagrees with it.                                      *)
ExitFlagMatchesStack == exit_flag <=> stack = "off"

(* A stack is never started under an armed exit timer, which would tear    *)
(* the new stack down as soon as it is up (bt_switch_fun.c:798).           *)
StartUndisturbed == [][stack = "off" /\ stack' # "off" => ~timer']_vars

(* The keys that app_task_exitting disables come back: every mode that is  *)
(* entered enables them, BT once its tone is over.                         *)
KeysReturn == ~keys ~> (keys \/ body = "POWEROFF" \/ pc = "off")

(* Every step of the product's modes is a step of the mode-switch kernel   *)
(* or leaves its variables alone.                                          *)
ImplementsSwitch == Kernel!Spec

(* A BT body that has begun to leave gets to the end of its teardown: the  *)
(* loop of app_bt_task waits for exiting to clear.                         *)
BtLeaves == (body = "BT" /\ curr # "BT" /\ pc = "get") ~> (body # "BT" \/ pc = "off")

(* Start-up ends: with a device online in music, otherwise in BT, unless   *)
(* the user goes elsewhere first.                                          *)
StartUpEnds == curr = "POWERON" ~> (curr # "POWERON" \/ pc = "off")

(* A power-off under way is not forgotten: while goto_poweroff_flag blocks *)
(* every other attempt, the switch to the power-off mode is to come.       *)
PoweroffKept ==
  goto_poweroff => exitTimer \/ next = "POWEROFF" \/ curr = "POWEROFF"

(* The power-off mode cuts the power: it never starts without the flag     *)
(* that poweroff_app_start asks for.                                       *)
PoweroffIsArmed == pc = "get" /\ body = "POWEROFF" => goto_poweroff

=============================================================================
