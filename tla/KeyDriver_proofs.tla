-------------------------- MODULE KeyDriver_proofs --------------------------
(***************************************************************************)
(* What holds of a key pad for every set of keys and all times: the type   *)
(* invariant, the debouncing, and that the scans implement KeyGestures.    *)
(***************************************************************************)
EXTENDS KeyDriver, TLAPS

(* The filter has counted the level read last, once per read.              *)
FilterCounts ==
  /\ run > 0 /\ FilterTime # 0 => filter_value = level
  /\ filter_cnt <= run
  /\ run > 0 => filter_cnt >= run - 1 \/ filter_cnt = FilterTime

KeyInv == KeyTypeOK /\ CountsBelong /\ FilterCounts /\ FollowsLevel

(* The ways through a scan of this pad that reads v.                       *)
Way(v) == Bounce(v) \/ Filter(v) \/ Press(v) \/ Release(v)
          \/ Down(v) \/ Click(v) \/ Idle(v)

LEMMA KeyInvInitially == KeyInit => KeyInv
  BY KeyAssumption, TimeAssumption
     DEF KeyInit, KeyInv, KeyTypeOK, CountsBelong, FilterCounts, FollowsLevel, Level

(* What the shared counter, the turn and the history become is in range.   *)
LEMMA SharedType ==
  ASSUME KeyInv, NEW v \in Level, NEW p \in {0, 1}, Activity(v, p)
  PROVE  /\ is_key_active' \in 0..Active /\ turn' \in 0..Others
         /\ quiet' \in 0..Active
  BY KeyAssumption, TimeAssumption DEF KeyInv, KeyTypeOK, Activity

(* The scan that reports the taps or waits on leaves the keys alone.       *)
LEMMA ClickSteps ==
  ASSUME NEW v \in Level, Click(v)
  PROVE  /\ UNCHANGED <<last_key, press_cnt, filter_value, filter_cnt>>
         /\ v = NoKey /\ last_key = NoKey
         /\ \/ click_cnt' = 0 /\ notify_value' = NoKey /\ UNCHANGED click_delay_cnt
            \/ /\ ~(click_delay_cnt > ClickDelayTime)
               /\ click_delay_cnt' = click_delay_cnt + 1
               /\ UNCHANGED <<click_cnt, notify_value>>
<1>1. CASE notify_value \in ClickOnly \/ click_delay_cnt > ClickDelayTime
  BY <1>1, Zenon DEF Click, Taken, Notify, filter, clicks
<1>2. CASE ~(notify_value \in ClickOnly \/ click_delay_cnt > ClickDelayTime)
  BY <1>2, Zenon DEF Click, Taken, filter, clicks
<1> QED BY <1>1, <1>2

(* Every way through the scan keeps the parameters in range.               *)
LEMMA ParaType ==
  ASSUME KeyInv, NEW v \in Level, Bounded(v), Reading(v), Way(v)
  PROVE  /\ last_key' \in Level /\ filter_value' \in Level /\ notify_value' \in Level
         /\ filter_cnt' \in 0..FilterTime /\ press_cnt' \in 0..(HoldTime - 1)
         /\ click_cnt' \in 0..MaxClicks
         /\ click_delay_cnt' \in 0..(ClickDelayTime + 1)
         /\ level' \in Level /\ run' \in 0..(FilterTime + 2)
<1> USE KeyAssumption, TimeAssumption DEF KeyInv, KeyTypeOK, Level, filter, clicks,
        Taken, Silent, Notify
<1>1. level' \in Level /\ run' \in 0..(FilterTime + 2)
  BY DEF Reading
<1>2. CASE Bounce(v)
  BY <1>1, <1>2 DEF Bounce
<1>3. CASE Filter(v)
  BY <1>1, <1>3 DEF Filter
<1>4. CASE Press(v)
  BY <1>1, <1>4 DEF Press, Bounded
<1>5. CASE Release(v)
  BY <1>1, <1>5 DEF Release
<1>6. CASE Down(v)
  BY <1>1, <1>6 DEF Down
<1>7. CASE Click(v)
  BY <1>1, <1>7, ClickSteps
<1>8. CASE Idle(v)
  BY <1>1, <1>8 DEF Idle
<1> QED BY <1>2, <1>3, <1>4, <1>5, <1>6, <1>7, <1>8 DEF Way

LEMMA CountsStep ==
  ASSUME KeyInv, NEW v \in Level, Bounded(v), Way(v)
  PROVE  CountsBelong'
<1> USE KeyAssumption, TimeAssumption DEF KeyInv, KeyTypeOK, CountsBelong, Level,
        filter, clicks, Taken, Silent, Notify
<1>1. CASE Bounce(v)
  BY <1>1 DEF Bounce
<1>2. CASE Filter(v)
  BY <1>2 DEF Filter
<1>3. CASE Press(v)
  BY <1>3 DEF Press, Bounded
<1>4. CASE Release(v)
  BY <1>4 DEF Release
<1>5. CASE Down(v)
  BY <1>5 DEF Down
<1>6. CASE Click(v)
  BY <1>6, ClickSteps
<1>7. CASE Idle(v)
  BY <1>7 DEF Idle
<1> QED BY <1>1, <1>2, <1>3, <1>4, <1>5, <1>6, <1>7 DEF Way

(* A level is taken when it was read often enough, and last_key is then    *)
(* that level; a level that is not taken leaves last_key alone.            *)
LEMMA TakenFollows ==
  ASSUME KeyInv, NEW v \in Level, Way(v)
  PROVE  \/ Bounce(v) /\ UNCHANGED last_key
         \/ Filter(v) /\ UNCHANGED last_key
         \/ Taken(v) /\ last_key' = v
  BY DEF Way, Bounce, Filter, Press, Release, Down, Click, Idle

LEMMA FilterStep ==
  ASSUME KeyInv, NEW v \in Level, Reading(v), Way(v)
  PROVE  /\ FilterCounts' /\ FollowsLevel'
         /\ last_key' # last_key => run' > FilterTime /\ last_key' = level'
<1> USE KeyAssumption, TimeAssumption
    DEF KeyInv, KeyTypeOK, FilterCounts, FollowsLevel, Reading, filter
<1>1. CASE Bounce(v) /\ UNCHANGED last_key
  BY <1>1 DEF Bounce
<1>2. CASE Filter(v) /\ UNCHANGED last_key
  BY <1>2 DEF Filter
<1>3. CASE Taken(v) /\ last_key' = v
  BY <1>3 DEF Taken
<1> QED BY <1>1, <1>2, <1>3, TakenFollows

(* The scan of another pad changes none of this.                           *)
LEMMA KeyStep == KeyInv /\ [KeyNext]_keyVars => KeyInv'
<1> SUFFICES ASSUME KeyInv, [KeyNext]_keyVars PROVE KeyInv'
  OBVIOUS
<1>1. CASE Scan
  <2>1. PICK v \in Level : Bounded(v) /\ Activity(v, 1) /\ Reading(v) /\ Way(v)
    BY <1>1 DEF Scan, Way
  <2>2. KeyTypeOK'
    BY <2>1, SharedType, ParaType DEF KeyTypeOK
  <2> QED BY <2>1, <2>2, CountsStep, FilterStep DEF KeyInv
<1>2. CASE OtherScan
  <2>1. PICK v \in Level : Activity(v, 0)
    BY <1>2 DEF OtherScan
  <2>2. UNCHANGED <<last_key, filter_value, filter_cnt, press_cnt, click_cnt,
                    notify_value, click_delay_cnt, level, run>>
    BY <1>2 DEF OtherScan, para, filter, clicks
  <2>3. KeyTypeOK'
    BY <2>1, <2>2, SharedType DEF KeyTypeOK, KeyInv
  <2> QED BY <2>2, <2>3 DEF KeyInv, CountsBelong, FilterCounts, FollowsLevel
<1>3. CASE UNCHANGED keyVars
  BY <1>3 DEF keyVars, para, filter, clicks, KeyInv, KeyTypeOK, CountsBelong,
              FilterCounts, FollowsLevel
<1> QED BY <1>1, <1>2, <1>3 DEF KeyNext

(* KeyInv holds in every reachable state.                                  *)
THEOREM KeyInvHolds == KeySpec => []KeyInv
  BY KeyInvInitially, KeyStep, PTL DEF KeySpec

(* The fields keep to their ranges: no u8 of the parameters wraps, as long *)
(* as a gesture stays below 256 presses.                                   *)
THEOREM KeyTypeCorrect == KeySpec => []KeyTypeOK
<1>1. KeyInv => KeyTypeOK
  BY DEF KeyInv
<1> QED BY <1>1, KeyInvHolds, PTL

(* A level that is held long enough is taken, whatever bounced before it.  *)
THEOREM LevelFollowed == KeySpec => []FollowsLevel
<1>1. KeyInv => FollowsLevel
  BY DEF KeyInv
<1> QED BY <1>1, KeyInvHolds, PTL

(* last_key changes only to a level that was read in more than FilterTime  *)
(* scans in a row.                                                         *)
THEOREM OnlyDebounced == KeySpec => Debounced
<1>1. ASSUME KeyInv, KeyNext
      PROVE  last_key' # last_key => run' > FilterTime /\ last_key' = level'
  <2>1. CASE Scan
    <3>1. PICK v \in Level : Bounded(v) /\ Activity(v, 1) /\ Reading(v) /\ Way(v)
      BY <2>1 DEF Scan, Way
    <3> QED BY <1>1, <3>1, FilterStep
  <2>2. CASE OtherScan
    BY <2>2 DEF OtherScan, para
  <2> QED BY <1>1, <2>1, <2>2 DEF KeyNext
<1>2. KeyInv /\ [KeyNext]_keyVars
      => [last_key' # last_key => run' > FilterTime /\ last_key' = level']_keyVars
  BY <1>1
<1> QED BY <1>2, KeyInvHolds, PTL DEF KeySpec, Debounced

(* Counts belong to keys: a LONG and a CLICK are never reported for the    *)
(* same press.                                                             *)
THEOREM CountsCorrect == KeySpec => []CountsBelong
<1>1. KeyInv => CountsBelong
  BY DEF KeyInv
<1> QED BY <1>1, KeyInvHolds, PTL

-----------------------------------------------------------------------------
(* The shared counter.  A round of the pads takes Others + 1 off it, one   *)
(* at a time, and counts as one quiet period at its first step.            *)

(* What the pads may still take off in this round.                         *)
Owed == IF turn = 0 THEN Others ELSE turn - 1

(* What has been taken off since a key was read is accounted for by the    *)
(* quiet periods, of which the present one is paid in advance.             *)
ShareLeft ==
  quiet < Active => is_key_active + (Others + 1) * quiet + Owed >= Active

(* A round more.                                                           *)
LEMMA OneRoundMore ==
  ASSUME NEW n \in Nat, NEW q \in Nat
  PROVE  /\ n * q \in Nat /\ n * (q + 1) \in Nat
         /\ n * (q + 1) = n * q + n
  OBVIOUS

(* More pads take a period no less.                                        *)
LEMMA AtLeastOnce ==
  ASSUME NEW n \in Nat, NEW q \in Nat
  PROVE  (n + 1) * q >= q
<1>1. n * q \in Nat /\ (n + 1) * q = n * q + q
  OBVIOUS
<1> QED BY <1>1

(* A scan of any pad: the counter loses at most one, and a pad that reads  *)
(* a key fills it.                                                         *)
LEMMA ShareStep ==
  ASSUME KeyTypeOK, ShareLeft, NEW v \in Level,
         NEW p \in {0, 1}, p = 1 <=> turn = 0, Activity(v, p)
  PROVE  ShareLeft'
<1> DEFINE total(q) == (Others + 1) * q
<1>1. /\ Active \in Nat /\ Others \in Nat /\ is_key_active \in Nat
      /\ turn \in 0..Others /\ quiet \in Nat
  BY TimeAssumption DEF KeyTypeOK
<1>2. /\ total(quiet) \in Nat /\ total(0) = 0
      /\ total(quiet + 1) = total(quiet) + Others + 1
  BY <1>1, OneRoundMore
<1>3. CASE v # NoKey
  BY <1>1, <1>2, <1>3 DEF Activity, ShareLeft, Owed
<1>4. CASE v = NoKey
  <2>1. /\ is_key_active' \in Nat /\ is_key_active' >= is_key_active - 1
        /\ turn' = IF turn < Others THEN turn + 1 ELSE 0
        /\ quiet' = IF quiet < Active THEN quiet + p ELSE quiet
    BY <1>1, <1>4 DEF Activity
  <2>2. quiet < Active => is_key_active + total(quiet) + Owed >= Active
    BY DEF ShareLeft
  <2>3. Owed \in Nat /\ Owed' \in Nat
    BY <1>1, <2>1 DEF Owed
  <2> HIDE DEF total
  <2>4. CASE turn = 0
    <3>1. quiet' = IF quiet < Active THEN quiet + 1 ELSE quiet
      BY <2>1, <2>4
    <3>2. Owed = Others /\ Owed' = 0
      BY <1>1, <2>1, <2>4 DEF Owed
    <3>3. quiet' < Active => is_key_active' + total(quiet') + Owed' >= Active
      BY <1>1, <1>2, <2>1, <2>2, <3>1, <3>2
    <3> QED BY <3>3 DEF ShareLeft, total
  <2>5. CASE turn # 0
    <3>1. quiet' = quiet
      BY <1>1, <2>1, <2>5
    <3>2. Owed' = Owed + 1
      BY <1>1, <2>1, <2>5 DEF Owed
    <3>3. quiet' < Active => is_key_active' + total(quiet') + Owed' >= Active
      BY <1>1, <1>2, <2>1, <2>2, <2>3, <3>1, <3>2
    <3> QED BY <3>3 DEF ShareLeft, total
  <2> QED BY <2>4, <2>5
<1> QED BY <1>3, <1>4

(* The chip is kept awake for its share of the time after a key was last   *)
(* read by any pad, for every number of pads and every length of the time. *)
THEOREM AwakeLongEnough == KeySpec => []AwakeForItsShare
<1>1. KeyInit => ShareLeft
  BY TimeAssumption DEF KeyInit, ShareLeft
<1>2. KeyTypeOK /\ ShareLeft /\ [KeyNext]_keyVars => ShareLeft'
  <2> SUFFICES ASSUME KeyTypeOK, ShareLeft, [KeyNext]_keyVars PROVE ShareLeft'
    OBVIOUS
  <2>1. CASE Scan
    BY <2>1, ShareStep DEF Scan
  <2>2. CASE OtherScan
    BY <2>2, ShareStep DEF OtherScan
  <2>3. CASE UNCHANGED keyVars
    BY <2>3 DEF keyVars, ShareLeft, Owed
  <2> QED BY <2>1, <2>2, <2>3 DEF KeyNext
<1>3. KeyTypeOK /\ ShareLeft => AwakeForItsShare
  <2> SUFFICES ASSUME KeyTypeOK, ShareLeft, is_key_active = 0
               PROVE  (Others + 1) * quiet + Others >= Active
    BY DEF AwakeForItsShare
  <2>1. /\ Active \in Nat /\ Others \in Nat /\ turn \in 0..Others
        /\ quiet \in 0..Active
    BY TimeAssumption DEF KeyTypeOK
  <2>2. (Others + 1) * quiet \in Nat /\ (Others + 1) * quiet >= quiet
    BY <2>1, OneRoundMore, AtLeastOnce
  <2>3. Owed <= Others /\ Owed \in Nat
    BY <2>1 DEF Owed
  <2>4. CASE quiet = Active
    BY <2>1, <2>2, <2>4
  <2>5. CASE quiet < Active
    BY <2>1, <2>2, <2>3, <2>5 DEF ShareLeft
  <2> QED BY <2>1, <2>4, <2>5
<1> QED BY <1>1, <1>2, <1>3, KeyTypeCorrect, PTL DEF KeySpec

-----------------------------------------------------------------------------
(* The refinement: every way through the scan is a step of KeyGestures.    *)

LEMMA GestureInit == KeyInit => Gesture!Init
  BY TimeAssumption DEF KeyInit, Gesture!Init

LEMMA GestureStep ==
  ASSUME KeyInv, NEW v \in Level, Bounded(v), Way(v)
  PROVE  Gesture!Next
<1> USE KeyAssumption, TimeAssumption DEF KeyInv, KeyTypeOK, CountsBelong, Level,
        filter, clicks, Taken, Silent, Notify
<1>1. CASE Bounce(v)
  BY <1>1 DEF Bounce, Gesture!Next, Gesture!Quiet
<1>2. CASE Filter(v)
  BY <1>2 DEF Filter, Gesture!Next, Gesture!Quiet
<1>3. CASE Press(v)
  <2>1. v \in Key
    BY <1>3 DEF Press
  <2>2. Gesture!Press(v)
    BY <1>3, <2>1 DEF Press, Gesture!Press
  <2> QED BY <2>1, <2>2 DEF Gesture!Next
<1>4. CASE Release(v)
  <2>1. Gesture!LetGo
    BY <1>4 DEF Release, Gesture!LetGo
  <2> QED BY <2>1 DEF Gesture!Next
<1>5. CASE Down(v)
  <2>1. CASE press_cnt + 1 = LongTime
    BY <1>5, <2>1 DEF Down, Gesture!Next, Gesture!Long
  <2>2. CASE press_cnt + 1 = HoldTime
    BY <1>5, <2>2 DEF Down, Gesture!Next, Gesture!Hold
  <2>3. CASE press_cnt + 1 # LongTime /\ press_cnt + 1 # HoldTime
    BY <1>5, <2>3 DEF Down, Gesture!Next, Gesture!Quiet
  <2> QED BY <2>1, <2>2, <2>3
<1>6. CASE Click(v)
  <2>1. CASE notify_value \in ClickOnly \/ click_delay_cnt > ClickDelayTime
    BY <1>6, <2>1 DEF Click, Gesture!Next, Gesture!Click
  <2>2. CASE ~(notify_value \in ClickOnly \/ click_delay_cnt > ClickDelayTime)
    BY <1>6, <2>2 DEF Click, Gesture!Next, Gesture!Quiet
  <2> QED BY <2>1, <2>2
<1>7. CASE Idle(v)
  BY <1>7 DEF Idle, Gesture!Next, Gesture!Quiet
<1> QED BY <1>1, <1>2, <1>3, <1>4, <1>5, <1>6, <1>7 DEF Way

(* The driver implements the gestures: what is notified for a key pad is   *)
(* what KeyGestures allows, for all keys and times.                        *)
THEOREM DriverImplementsGestures == KeySpec => ImplementsGestures
<1>1. ASSUME KeyInv, KeyNext PROVE Gesture!Next \/ UNCHANGED Gesture!gestures
  <2>1. CASE Scan
    <3>1. PICK v \in Level : Bounded(v) /\ Activity(v, 1) /\ Reading(v) /\ Way(v)
      BY <2>1 DEF Scan, Way
    <3> QED BY <1>1, <3>1, GestureStep
  <2>2. CASE OtherScan
    BY <2>2 DEF OtherScan, para, clicks, Gesture!gestures
  <2> QED BY <1>1, <2>1, <2>2 DEF KeyNext
<1>2. UNCHANGED keyVars => UNCHANGED Gesture!gestures
  BY DEF keyVars, para, clicks, Gesture!gestures
<1>3. KeyInv /\ [KeyNext]_keyVars => [Gesture!Next]_(Gesture!gestures)
  BY <1>1, <1>2
<1> QED BY <1>3, GestureInit, KeyInvHolds, PTL DEF KeySpec, ImplementsGestures, Gesture!Spec
=============================================================================
