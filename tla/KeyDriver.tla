----------------------------- MODULE KeyDriver -----------------------------
(***************************************************************************)
(* key_driver_scan for one key pad: every scan_time (10 ms) the timer      *)
(* reads the pad, takes a level only when it has been read often enough in *)
(* a row, and turns presses and releases into events.  The other pads have *)
(* parameters of their own; what they share is is_key_active, the counter  *)
(* that keeps the chip out of its low-power mode.                          *)
(***************************************************************************)
EXTENDS Integers

CONSTANTS
  Key, NoKey,
  FirstKey,        \* the key whose value is 0, as in a field that is not initialised
  ClickOnly,       \* the keys whose value has BIT(7)
  FilterTime, LongTime, HoldTime, ClickDelayTime,
  Active,          \* what is_key_active is set to (35)
  Others,          \* how many other pads are scanned
  MaxClicks        \* bound: the presses of one gesture (click_cnt is a u8)

ASSUME KeyAssumption ==
  NoKey \notin Key /\ FirstKey \in Key /\ ClickOnly \subseteq Key

ASSUME TimeAssumption ==
  /\ FilterTime \in Nat /\ ClickDelayTime \in Nat
  /\ Active \in Nat /\ Others \in Nat
  /\ LongTime \in Nat /\ HoldTime \in Nat /\ MaxClicks \in Nat
  /\ 1 < LongTime /\ LongTime < HoldTime /\ HoldTime < 256
  /\ 0 < MaxClicks /\ MaxClicks < 256

VARIABLES
  last_key, filter_value, filter_cnt, press_cnt, click_cnt,
  click_delay_cnt, notify_value,   \* struct key_driver_para
  is_key_active,
  out,     \* the event this scan notified, or None
  turn,    \* the pad that is scanned next: 0 is this one
  level,   \* history: the level read last
  run,     \* history: its reads in a row (up to FilterTime + 2)
  quiet    \* history: the periods since any pad read a key (up to Active)

filter == <<filter_value, filter_cnt>>
clicks == <<click_cnt, notify_value>>
para == <<last_key, filter, press_cnt, clicks, click_delay_cnt>>
keyVars == <<para, is_key_active, out, turn, level, run, quiet>>

Level == Key \cup {NoKey}
Gesture == INSTANCE KeyGestures WITH
  down <- last_key,
  held <- last_key # NoKey /\ press_cnt >= LongTime,
  tapped <- IF click_cnt > 0 THEN notify_value ELSE NoKey,
  taps <- click_cnt,
  out <- out

KeyInit ==
  /\ last_key = NoKey /\ filter_value = FirstKey /\ filter_cnt = 0
  /\ press_cnt = 0 /\ click_cnt = 0 /\ click_delay_cnt = 0 /\ notify_value = FirstKey
  /\ is_key_active = 0 /\ out = Gesture!None /\ turn = 0
  /\ level = NoKey /\ run = 0 /\ quiet = Active

-----------------------------------------------------------------------------
(* What a scan does to the state the pads share, and to the history.       *)

(* Mutant: a pad that reads nothing takes two off. *)
ActivityTwice(v, period) ==
  /\ is_key_active' = IF v # NoKey THEN Active
                      ELSE IF is_key_active > 1 THEN is_key_active - 2 ELSE 0
  /\ quiet' = IF v # NoKey THEN 0
              ELSE IF quiet < Active THEN quiet + period ELSE quiet
  /\ turn' = IF turn < Others THEN turn + 1 ELSE 0

Activity(v, period) ==
  /\ is_key_active' = IF v # NoKey THEN Active
                      ELSE IF is_key_active > 0 THEN is_key_active - 1 ELSE 0
  /\ quiet' = IF v # NoKey THEN 0
              ELSE IF quiet < Active THEN quiet + period ELSE quiet
  /\ turn' = IF turn < Others THEN turn + 1 ELSE 0

Reading(v) ==
  /\ level' = v
  /\ run' = IF v # level THEN 1
            ELSE IF run < FilterTime + 2 THEN run + 1 ELSE run

(* The next press would be one more than the bound on a gesture.           *)
Bounded(v) == v # NoKey /\ v = notify_value => click_cnt < MaxClicks

Silent == out' = Gesture!None
(* Mutant: the count of clicks is kept when an event goes out. *)
NotifyKeepsClicks(e, k, n) ==
  out' = Gesture!Event(e, k, n) /\ notify_value' = NoKey /\ UNCHANGED click_cnt

Notify(e, k, n) ==
  /\ out' = Gesture!Event(e, k, n)
  /\ click_cnt' = 0 /\ notify_value' = NoKey

-----------------------------------------------------------------------------
(* The scan, one action per way through key_driver_scan.                   *)

(* Mutant: a bounce is not recorded as the value to filter. *)
BounceForgets(v) ==
  /\ v # filter_value /\ FilterTime # 0
  /\ filter_cnt' = 0
  /\ Silent /\ UNCHANGED <<last_key, filter_value, press_cnt, clicks, click_delay_cnt>>

(* Mutant: a bounce does not start the filter again. *)
BounceGoesOn(v) ==
  /\ v # filter_value /\ FilterTime # 0
  /\ filter_value' = v
  /\ Silent /\ UNCHANGED <<last_key, filter_cnt, press_cnt, clicks, click_delay_cnt>>

Bounce(v) ==
  /\ v # filter_value /\ FilterTime # 0
  /\ filter_cnt' = 0 /\ filter_value' = v
  /\ Silent /\ UNCHANGED <<last_key, press_cnt, clicks, click_delay_cnt>>

Filter(v) ==
  /\ v = filter_value \/ FilterTime = 0
  /\ filter_cnt < FilterTime
  /\ filter_cnt' = filter_cnt + 1
  /\ Silent /\ UNCHANGED <<last_key, filter_value, press_cnt, clicks, click_delay_cnt>>

Taken(v) ==
  /\ v = filter_value \/ FilterTime = 0
  /\ filter_cnt >= FilterTime
  /\ UNCHANGED filter

(* Mutant: the taps of another key are not forgotten. *)
PressCountsOn(v) ==
  /\ Taken(v) /\ v # last_key /\ v # NoKey
  /\ press_cnt' = 1 /\ last_key' = v /\ notify_value' = v
  /\ click_cnt' = IF click_cnt < MaxClicks THEN click_cnt + 1 ELSE click_cnt
  /\ Silent /\ UNCHANGED click_delay_cnt

Press(v) ==
  /\ Taken(v) /\ v # last_key /\ v # NoKey
  /\ press_cnt' = 1 /\ last_key' = v /\ notify_value' = v
  /\ click_cnt' = IF v # notify_value THEN 1 ELSE click_cnt + 1
  /\ Silent /\ UNCHANGED click_delay_cnt

Release(v) ==
  /\ Taken(v) /\ v # last_key /\ v = NoKey
  /\ last_key' = v /\ UNCHANGED press_cnt
  /\ IF press_cnt >= LongTime
     THEN Notify("UP", last_key, 0) /\ UNCHANGED click_delay_cnt
     ELSE click_delay_cnt' = 1 /\ Silent /\ UNCHANGED clicks

(* Mutant: a HOLD does not start the count of the next one. *)
DownNoReset(v) ==
  /\ Taken(v) /\ v = last_key /\ v # NoKey
  /\ press_cnt' = press_cnt + 1
  /\ IF press_cnt + 1 = LongTime THEN Notify("LONG", v, 0)
     ELSE IF press_cnt + 1 = HoldTime THEN Notify("HOLD", v, 0)
     ELSE Silent /\ UNCHANGED clicks
  /\ UNCHANGED <<last_key, click_delay_cnt>>

Down(v) ==
  /\ Taken(v) /\ v = last_key /\ v # NoKey
  /\ press_cnt' = IF press_cnt + 1 = HoldTime THEN LongTime ELSE press_cnt + 1
  /\ IF press_cnt + 1 = LongTime THEN Notify("LONG", v, 0)
     ELSE IF press_cnt + 1 = HoldTime THEN Notify("HOLD", v, 0)
     ELSE Silent /\ UNCHANGED clicks
  /\ UNCHANGED <<last_key, click_delay_cnt>>

(* Mutant: the wait for another tap is not counted. *)
ClickNoCount(v) ==
  /\ Taken(v) /\ v = last_key /\ v = NoKey /\ click_cnt > 0
  /\ IF notify_value \in ClickOnly \/ click_delay_cnt > ClickDelayTime
     THEN /\ Notify("CLICK", notify_value, Gesture!Named(notify_value, click_cnt))
          /\ UNCHANGED click_delay_cnt
     ELSE Silent /\ UNCHANGED <<clicks, click_delay_cnt>>
  /\ UNCHANGED <<last_key, press_cnt>>

Click(v) ==
  /\ Taken(v) /\ v = last_key /\ v = NoKey /\ click_cnt > 0
  /\ IF notify_value \in ClickOnly \/ click_delay_cnt > ClickDelayTime
     THEN /\ Notify("CLICK", notify_value, Gesture!Named(notify_value, click_cnt))
          /\ UNCHANGED click_delay_cnt
     ELSE click_delay_cnt' = click_delay_cnt + 1 /\ Silent /\ UNCHANGED clicks
  /\ UNCHANGED <<last_key, press_cnt>>

Idle(v) ==
  /\ Taken(v) /\ v = last_key /\ v = NoKey /\ click_cnt = 0
  /\ Silent /\ UNCHANGED <<last_key, press_cnt, clicks, click_delay_cnt>>

Scan ==
  /\ turn = 0
  /\ \E v \in Level :
       /\ Bounded(v) /\ Activity(v, 1) /\ Reading(v)
       /\ \/ Bounce(v) \/ Filter(v) \/ Press(v) \/ Release(v)
          \/ Down(v) \/ Click(v) \/ Idle(v)

(* Another pad is scanned: its own parameters change, and is_key_active.   *)
OtherScan ==
  /\ turn # 0
  /\ \E v \in Level : Activity(v, 0)
  /\ UNCHANGED <<para, out, level, run>>

KeyNext == Scan \/ OtherScan

KeySpec == KeyInit /\ [][KeyNext]_keyVars /\ WF_keyVars(KeyNext)

-----------------------------------------------------------------------------
KeyTypeOK ==
  /\ last_key \in Level /\ filter_value \in Level /\ notify_value \in Level
  /\ filter_cnt \in 0..FilterTime /\ press_cnt \in 0..(HoldTime - 1)
  /\ click_cnt \in 0..MaxClicks /\ click_delay_cnt \in 0..(ClickDelayTime + 1)
  /\ is_key_active \in 0..Active /\ turn \in 0..Others
  /\ level \in Level /\ run \in 0..(FilterTime + 2) /\ quiet \in 0..Active

(* A count of taps belongs to a key, a key that is down has been counted   *)
(* for press_cnt scans, and a key whose LONG went out has no taps left: a  *)
(* LONG and a CLICK are never reported for the same press.                 *)
CountsBelong ==
  /\ click_cnt > 0 => notify_value \in Key
  /\ last_key # NoKey => press_cnt > 0
  /\ last_key # NoKey /\ press_cnt >= LongTime => click_cnt = 0

(* A level that has been read FilterTime + 2 times in a row has been taken:*)
(* neither the counter that starts again at every bounce, nor the return   *)
(* before the comparison with last_key, loses a press or a release.        *)
FollowsLevel == run >= FilterTime + 2 => last_key = level

(* Nothing shorter than the debounce time is ever taken: last_key changes  *)
(* only to a level that has been read in more than FilterTime scans.       *)
Debounced == [][last_key' # last_key => run' > FilterTime /\ last_key' = level']_keyVars

(* The scans report gestures: the driver implements KeyGestures.           *)
ImplementsGestures == Gesture!Spec

(* Once nobody touches the pad any more, every tap has been reported and   *)
(* every key is up: a gesture cannot stay pending in the counters.         *)
Settles ==
  <>[](level = NoKey) => <>[](last_key = NoKey /\ click_cnt = 0)

(* The chip is kept awake for a while after a key was last read: as every  *)
(* pad that reads nothing takes one off the shared counter, its time is    *)
(* divided by their number and no shorter than that (key_driver.c:78).     *)
AwakeForItsShare == is_key_active = 0 => (Others + 1) * quiet + Others >= Active
=============================================================================
