---------------------------- MODULE KeyGestures ----------------------------
(***************************************************************************)
(* What a key driver promises to the application: the events of one key    *)
(* pad as gestures.  A key that is held reports LONG once, then HOLDs, and *)
(* UP when it is let go; a key tapped n times reports those n taps in one  *)
(* CLICK after the last of them, unless another key is pressed first, or   *)
(* the last press becomes a hold.  Debouncing and times are left out.      *)
(***************************************************************************)
EXTENDS Naturals

CONSTANTS
  Key,        \* the keys of the pad
  ClickOnly,  \* those that only know single clicks
  NoKey       \* NO_KEY: nothing is pressed

None == [event |-> "NONE", key |-> NoKey, n |-> 0]
Event(e, k, n) == [event |-> e, key |-> k, n |-> n]

(* The clicks named by the event for n taps of k: there is none beyond five. *)
Named(k, n) == IF k \in ClickOnly THEN 1 ELSE IF n > 5 THEN 5 ELSE n

VARIABLES
  down,    \* the key that is down, or NoKey
  held,    \* its LONG has been reported
  tapped,  \* the key whose taps are counted, or NoKey
  taps,    \* how often it has been pressed
  out      \* the event reported by the last step, or None

gestures == <<down, held, tapped, taps, out>>

Init == down = NoKey /\ ~held /\ tapped = NoKey /\ taps = 0 /\ out = None

(* A key goes down, perhaps straight after another one.                    *)
Press(k) ==
  /\ down # k
  /\ down' = k /\ held' = FALSE /\ tapped' = k
  /\ taps' = IF tapped = k THEN taps + 1 ELSE 1
  /\ out' = None

Long ==
  /\ down # NoKey /\ ~held
  /\ held' = TRUE /\ out' = Event("LONG", down, 0)
  /\ tapped' = NoKey /\ taps' = 0
  /\ UNCHANGED down

Hold ==
  /\ down # NoKey /\ held
  /\ out' = Event("HOLD", down, 0)
  /\ UNCHANGED <<down, held, tapped, taps>>

LetGo ==
  /\ down # NoKey
  /\ down' = NoKey /\ held' = FALSE
  /\ out' = IF held THEN Event("UP", down, 0) ELSE None
  /\ UNCHANGED <<tapped, taps>>

Click ==
  /\ down = NoKey /\ taps > 0
  /\ out' = Event("CLICK", tapped, Named(tapped, taps))
  /\ tapped' = NoKey /\ taps' = 0
  /\ UNCHANGED <<down, held>>

Quiet == out' = None /\ UNCHANGED <<down, held, tapped, taps>>

Next == (\E k \in Key : Press(k)) \/ Long \/ Hold \/ LetGo \/ Click \/ Quiet

Spec == Init /\ [][Next]_gestures
=============================================================================
