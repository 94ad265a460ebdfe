--------------------------- MODULE ToneInterface ---------------------------
(***************************************************************************)
(* What the tone player promises the modes that play tones with a          *)
(* callback: one tone at a time, and for each one its callback in the      *)
(* queue of app_core once it is over, unless it is stopped silently.       *)
(* Tones without a callback do not show here.                              *)
(***************************************************************************)
CONSTANTS
  Tone,   \* the tones played with a callback
  NoTone

VARIABLES
  tone,   \* the tone that plays
  toneCb  \* the tones whose callback waits in the queue

toneVars == <<tone, toneCb>>

TypeOK == tone \in Tone \cup {NoTone} /\ toneCb \subseteq Tone

Init == tone = NoTone /\ toneCb = {}

(* The callback of the tone that plays is posted, by whatever ends it. *)
Break == toneCb' = toneCb \cup ({tone} \ {NoTone})

(* Another tone (NoTone: one without a callback) breaks the one that       *)
(* plays.  Started == FALSE is the error return.                           *)
Play(t, Started) ==
  /\ Break
  /\ tone' = IF Started THEN t ELSE NoTone

Stop == tone' = NoTone /\ UNCHANGED toneCb

Ends ==
  /\ tone # NoTone
  /\ Break
  /\ tone' = NoTone

Done(t) ==
  /\ t \in toneCb
  /\ toneCb' = toneCb \ {t}
  /\ UNCHANGED tone

Next ==
  \/ \E t \in Tone \cup {NoTone}, Started \in BOOLEAN : Play(t, Started)
  \/ Stop
  \/ Ends
  \/ \E t \in Tone : Done(t)

(* A tone that is left alone ends. *)
Spec == Init /\ [][Next]_toneVars /\ WF_toneVars(Ends)
=============================================================================
