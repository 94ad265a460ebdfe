--------------------------- MODULE AppTaskSwitch ---------------------------
(***************************************************************************)
(* The mode-switch kernel: app_task_switch.c and the loop of app_main.c.   *)
(*                                                                         *)
(* app_core runs one mode body at a time.  A body takes a message, handles *)
(* it (the handler may call app_task_switch_to) and polls                  *)
(* app_task_exitting(), which turns the requested mode into the current    *)
(* one.  A second actor, the hardware timer behind sys_hi_timeout_add,     *)
(* calls app_task_switch_to between any two steps of app_core.  Whether a  *)
(* request passes the entry and exit checks is left open here: the module  *)
(* SoundboxModes decides it and implements this one.                       *)
(***************************************************************************)
EXTENDS Integers, Sequences, FiniteSets

CONSTANTS
  Task,        \* the modes of app_task.h
  NoTask,      \* the value 0 of app_next_task and app_prev_task
  TaskList,    \* app_task_list: the modes a mode key goes through
  BootTask,    \* the modes app_main may start with
  FinalTask,   \* modes whose body never polls app_task_exitting (power-off)
  LingerTask,  \* modes whose body goes on after its own commit (BT)
  CommitWindow \* whether a hardware timer may fire between the two
               \* assignments of app_task_exitting, as nothing in it prevents

ASSUME TaskAssumption ==
  /\ NoTask \notin Task
  /\ BootTask \subseteq Task /\ FinalTask \subseteq Task /\ LingerTask \subseteq Task
  /\ CommitWindow \in BOOLEAN

ASSUME TaskListAssumption ==
  /\ TaskList \in Seq(Task) /\ Len(TaskList) > 0
  /\ \A i, j \in 1..Len(TaskList) : TaskList[i] = TaskList[j] => i = j

VARIABLES
  prev, curr, next,  \* app_prev_task, app_curr_task, app_next_task
  body,              \* the mode whose body app_core is inside
  pc,                \* where app_core is
  asked              \* history: the last request app_task_switch_to accepted

switchVars == <<prev, curr, next, body, pc, asked>>

(* "loop": app_task_loop is about to read app_curr_task                    *)
(* "get": the body is in app_task_get_msg                                  *)
(* "poll": a message has been handled, app_task_exitting is about to run   *)
(* "commit": app_curr_task is assigned, app_next_task is not yet cleared   *)
(* "close": app_task_exitting has returned 1                               *)
(* "off": the power has been cut                                           *)
PC == {"loop", "get", "poll", "commit", "close", "off"}

TypeOK ==
  /\ prev \in Task \cup {NoTask} /\ next \in Task \cup {NoTask}
  /\ curr \in Task /\ body \in Task /\ asked \in Task
  /\ pc \in PC

Init ==
  /\ curr \in BootTask
  /\ prev = NoTask /\ next = NoTask
  /\ body = curr /\ pc = "loop" /\ asked = curr

-----------------------------------------------------------------------------
(* Requests                                                                *)

(* Mutant: a request for the current mode is taken too. *)
SwitchToAny(t) == prev' = curr /\ next' = t /\ asked' = t

(* Mutant: a pending request is not replaced by a later one. *)
SwitchToFirst(t) ==
  /\ t # curr
  /\ prev' = curr
  /\ next' = IF next = NoTask THEN t ELSE next
  /\ asked' = t

(* app_task_switch_to once both checks have passed. *)
SwitchTo(t) ==
  /\ t # curr
  /\ prev' = curr
  /\ next' = t
  /\ asked' = t

NoSwitch == UNCHANGED <<prev, next, asked>>

(* The index of mode t in the list; one past its end when it is not there. *)
ListIndex(t) ==
  IF \E i \in 1..Len(TaskList) : TaskList[i] = t
  THEN CHOOSE i \in 1..Len(TaskList) : TaskList[i] = t
  ELSE Len(TaskList) + 1

(* How many modes app_task_switch_next tries before it gives up.            *)
Tries(t) == IF ListIndex(t) > Len(TaskList) THEN Len(TaskList) ELSE Len(TaskList) - 1

(* The index of the k-th mode it tries: the list is gone through as a      *)
(* ring, starting behind t, or at its head when t is not listed.           *)
TryIndex(t, k) ==
  LET i == IF ListIndex(t) > Len(TaskList) THEN k ELSE ListIndex(t) + k
  IN  IF i > Len(TaskList) THEN i - Len(TaskList) ELSE i

NextTry(t, k) == TaskList[TryIndex(t, k)]

(* app_task_switch_next: the first mode after t, round the list, that the  *)
(* checks admit; NoTask when a whole round finds none.  (From a mode that  *)
(* is not listed the code has no such end and goes round for ever; BT is   *)
(* always admitted there.)                                                 *)
NextInList(t, Admitted) ==
  LET ok == {k \in 1..Tries(t) : NextTry(t, k) \in Admitted}
  IN  IF ok = {} THEN NoTask
      ELSE NextTry(t, CHOOSE k \in ok : \A j \in ok : k <= j)

-----------------------------------------------------------------------------
(* app_core                                                                *)

(* app_task_loop calls the body of the current mode. *)
Enter ==
  /\ pc = "loop"
  /\ body' = curr
  /\ pc' = "get"
  /\ UNCHANGED <<prev, curr, next, asked>>

(* Mutant: a lingering body takes messages without polling. *)
HandleNoPoll ==
  /\ pc = "get"
  /\ NoSwitch \/ \E t \in Task : SwitchTo(t)
  /\ pc' = IF body \in FinalTask \cup LingerTask THEN "get" ELSE "poll"
  /\ UNCHANGED <<curr, body>>

(* A message taken by app_task_get_msg and handled by the body. *)
Handle ==
  /\ pc = "get"
  /\ NoSwitch \/ \E t \in Task : SwitchTo(t)
  /\ pc' = IF body \in FinalTask THEN "get" ELSE "poll"
  /\ UNCHANGED <<curr, body>>

(* A Q_CALLBACK message: app_task_get_msg runs it and goes on waiting. *)
Callback ==
  /\ pc = "get"
  /\ NoSwitch \/ \E t \in Task : SwitchTo(t)
  /\ UNCHANGED <<curr, body, pc>>

(* app_task_exitting finds no request: the body goes on, or returns when   *)
(* it had only been waiting for its own teardown.                          *)
PollNone ==
  /\ pc = "poll" /\ next = NoTask
  /\ \/ pc' = "get"
     \/ body \in LingerTask /\ pc' = "loop"
  /\ UNCHANGED <<prev, curr, next, body, asked>>

(* Mutant: the commit does not test for a request. *)
PollCommitAlways ==
  /\ pc = "poll"
  /\ curr' = next
  /\ pc' = "commit"
  /\ UNCHANGED <<prev, next, body, asked>>

(* app_task_exitting: app_curr_task = app_next_task ... *)
PollCommit ==
  /\ pc = "poll" /\ next # NoTask
  /\ curr' = next
  /\ pc' = "commit"
  /\ UNCHANGED <<prev, next, body, asked>>

(* ... and app_next_task = 0. *)
PollClear ==
  /\ pc = "commit"
  /\ next' = NoTask
  /\ pc' = "close"
  /\ UNCHANGED <<prev, curr, body, asked>>

(* Mutant: no body returns after its commit. *)
CloseStays ==
  /\ pc = "close"
  /\ pc' \in {"loop", "get"}
  /\ UNCHANGED <<prev, curr, next, body, asked>>

(* The body closes its mode and returns; a lingering one may wait instead. *)
Close ==
  /\ pc = "close"
  /\ \/ pc' = "loop"
     \/ body \in LingerTask /\ pc' = "get"
  /\ UNCHANGED <<prev, curr, next, body, asked>>

(* The power is cut, from inside a body or from its entry. *)
PowerCut ==
  /\ pc \in {"loop", "get"}
  /\ pc' = "off"
  /\ body' = IF pc = "loop" THEN curr ELSE body
  /\ UNCHANGED <<prev, curr, next, asked>>

(* A reset of the processor: everything is as after boot. *)
Reset ==
  /\ pc = "get"
  /\ prev' = NoTask /\ next' = NoTask
  /\ curr' \in BootTask /\ body' = curr' /\ asked' = curr'
  /\ pc' = "loop"

(* A callback of the hardware timer requests a mode, whatever app_core is  *)
(* doing: the interrupt runs between two of its steps.                     *)
HiTimerFires ==
  /\ pc # "off" /\ (pc = "commit" => CommitWindow)
  /\ \E t \in Task : SwitchTo(t)
  /\ UNCHANGED <<curr, body, pc>>

Core == Enter \/ Handle \/ PollNone \/ PollCommit \/ PollClear \/ Close

Next == Core \/ Callback \/ PowerCut \/ Reset \/ HiTimerFires

Spec == Init /\ [][Next]_switchVars

(* app_core is never starved, and the queue of a body that waits is never  *)
(* empty for ever: app_task_switch_to itself posts APP_MSG_SWITCH_TASK.    *)
FairSpec == Spec /\ WF_switchVars(Core)

-----------------------------------------------------------------------------
(* Properties                                                              *)

(* A committed switch always changes the mode: app_task_exitting never     *)
(* closes a mode only to start the same one again (the guard of            *)
(* app_task_switch_to against the current mode is enough, although the     *)
(* commit happens later, after other requests have replaced this one).     *)
CommitChangesMode == pc # "commit" => next # curr

(* The last request app_task_switch_to accepted is never lost: until it is *)
(* replaced it is pending or it is the current mode.  It takes a commit    *)
(* that no hardware timer interrupts (app_task_exitting).                  *)
RequestKept == asked = IF next = NoTask THEN curr ELSE next

(* app_get_curr_task tells the truth: while a body runs it is the body of  *)
(* the current mode, but for a mode that is still tearing itself down.     *)
(* Every tone callback relies on it.                                       *)
BodyIsCurrent == pc \in {"get", "poll"} /\ body \notin LingerTask => body = curr

(* A request that was accepted is acted on: no body goes on for ever with  *)
(* a pending request, the final mode excepted.                             *)
RequestActedOn == next # NoTask ~> (next = NoTask \/ body \in FinalTask \/ pc = "off")
=============================================================================
