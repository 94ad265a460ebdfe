------------------------------ MODULE BtMode ------------------------------
(***************************************************************************)
(* The lifecycle of the Bluetooth mode in the non-background build         *)
(* (TCFG_BLUETOOTH_BACK_MODE 0): the flags of app_bt_hdl that bt.c,        *)
(* bt_switch_fun.c and bt_event_fun.c start and stop the stack with, and   *)
(* the power-off flags of app_var they share with every other mode.        *)
(* The module has operators only; SoundboxModes says when each one runs.   *)
(***************************************************************************)
EXTENDS FiniteSets

VARIABLES
  exit_flag,       \* no stack: set by the exit check, cleared by bt_task_start
  exiting,         \* a teardown has been asked for and is not over
  wait_exit,       \* app_bt_task is to return once exiting is clear
  init_ok,         \* BT_STATUS_INIT_OK has been handled
  timer,           \* the 10 ms timer of bt_no_background_exit_check is armed
  stack,           \* the stack library: "off", "starting", "on"
  btwork,          \* what bt_must_work ("call") and bt_phone_dec_is_running ("sco") see
  force_poweroff,  \* soft_poweroff_mode(1): a call does not stop a power-off
  goto_poweroff,   \* app_var.goto_poweroff_flag
  exitTimer,       \* app_var.wait_exit_timer: wait_exit_btstack_flag is armed
  escoTimer        \* esco_check_state is armed

lifeVars == <<exit_flag, exiting, wait_exit, init_ok, timer, stack>>
powerVars == <<force_poweroff, goto_poweroff, exitTimer, escoTimer>>
btVars == <<lifeVars, btwork, powerVars>>

BtTypeOK ==
  /\ exit_flag \in BOOLEAN /\ exiting \in BOOLEAN /\ wait_exit \in BOOLEAN
  /\ init_ok \in BOOLEAN /\ timer \in BOOLEAN
  /\ stack \in {"off", "starting", "on"}
  /\ btwork \subseteq {"call", "sco"}
  /\ force_poweroff \in BOOLEAN /\ goto_poweroff \in BOOLEAN
  /\ exitTimer \in BOOLEAN /\ escoTimer \in BOOLEAN

BtInit ==
  /\ exit_flag = TRUE /\ exiting = FALSE /\ wait_exit = FALSE
  /\ init_ok = FALSE /\ timer = FALSE /\ stack = "off" /\ btwork = {}
  /\ force_poweroff = FALSE /\ goto_poweroff = FALSE
  /\ exitTimer = FALSE /\ escoTimer = FALSE

-----------------------------------------------------------------------------
(* bt_task_start up to btstack_init; nothing when the stack already runs.  *)
BtTaskStart ==
  IF ~exit_flag
  THEN UNCHANGED <<lifeVars, powerVars>>
  ELSE /\ exiting' = FALSE /\ exit_flag' = FALSE /\ wait_exit' = FALSE
       /\ force_poweroff' = FALSE
       /\ goto_poweroff' = FALSE
       /\ stack' = "starting"
       /\ UNCHANGED <<init_ok, timer, exitTimer, escoTimer>>

(* Mutant: the identifier of the deleted timer is kept, so that it is not  *)
(* armed again.                                                            *)
BtTaskCloseNoTimer ==
  /\ exiting' = TRUE
  /\ wait_exit' = TRUE
  /\ UNCHANGED <<exit_flag, init_ok, stack, timer>>

(* bt_task_close and bt_nobackground_exit, and wait_exit of app_bt_task:   *)
(* the exit timer is deleted and armed again.                              *)
BtTaskClose ==
  /\ exiting' = TRUE
  /\ timer' = TRUE
  /\ wait_exit' = TRUE
  /\ UNCHANGED <<exit_flag, init_ok, stack>>

(* Mutant: the teardown forgets exit_flag. *)
BtExitCheckNoFlag ==
  /\ timer /\ init_ok
  /\ stack' = "off" /\ btwork' = {}
  /\ timer' = FALSE /\ init_ok' = FALSE /\ exiting' = FALSE
  /\ UNCHANGED <<exit_flag, wait_exit, powerVars>>

(* Mutant: the teardown does not delete its timer. *)
BtExitCheckKeepsTimer ==
  /\ timer /\ init_ok
  /\ stack' = "off" /\ btwork' = {} /\ exit_flag' = TRUE
  /\ init_ok' = FALSE /\ exiting' = FALSE
  /\ UNCHANGED <<timer, wait_exit, powerVars>>

(* The tick of bt_no_background_exit_check that tears the stack down: it   *)
(* waits for BT_STATUS_INIT_OK and for the audio to stop.                  *)
BtExitCheck ==
  /\ timer /\ init_ok
  /\ stack' = "off" /\ btwork' = {}
  /\ exit_flag' = TRUE
  /\ timer' = FALSE
  /\ init_ok' = FALSE
  /\ exiting' = FALSE
  /\ UNCHANGED <<wait_exit, powerVars>>

(* BT_STATUS_INIT_OK: bt_status_event_filter drops every stack status      *)
(* while a power-off is under way.                                         *)
BtInitOk(inBtBody) ==
  /\ stack = "starting"
  /\ stack' = "on"
  /\ init_ok' = (init_ok \/ (inBtBody /\ ~goto_poweroff))
  /\ UNCHANGED <<exit_flag, exiting, wait_exit, timer, btwork, powerVars>>

(* A call or its audio starts or ends. *)
BtWorkChanges ==
  /\ stack = "on"
  /\ \E w \in SUBSET {"call", "sco"} : w # btwork /\ btwork' = w
  /\ UNCHANGED <<lifeVars, powerVars>>

-----------------------------------------------------------------------------
(* bt_app_switch_exit_check refuses while a call is up, drops the power-off *)
(* under way, and when that is a forced one hangs up and looks again later. *)
BtExitRefused == ~exit_flag /\ btwork # {}

BtRefuseExit ==
  /\ goto_poweroff' = FALSE
  /\ escoTimer' = (escoTimer \/ force_poweroff)
  /\ UNCHANGED <<force_poweroff, exitTimer>>

(* The same check when nothing is in the way. *)
BtAllowExit ==
  /\ force_poweroff' = (force_poweroff /\ exit_flag)
  /\ UNCHANGED <<goto_poweroff, exitTimer, escoTimer>>

(* sys_enter_soft_poweroff(NULL), with force what soft_poweroff_mode left. *)
SoftPoweroff(force) ==
  /\ force_poweroff' = force
  /\ goto_poweroff' = TRUE
  /\ exitTimer' = (exitTimer \/ ~goto_poweroff)
  /\ UNCHANGED escoTimer
=============================================================================
