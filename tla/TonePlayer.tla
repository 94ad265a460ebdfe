---------------------------- MODULE TonePlayer ----------------------------
(***************************************************************************)
(* tone_player.c and audio_dec_tone.c: a tone is a list of files, part of  *)
(* which may be repeated (an incoming call: its number, then the ring).    *)
(* No caller sets follow, so dec->head holds cur_list or nothing, and each *)
(* function below, called from app_core or holding dec->mutex, is a step.  *)
(***************************************************************************)
EXTENDS Naturals, Sequences

CONSTANTS
  Tones,      \* the lists of files that are played
  NoTone,
  ToneFiles,  \* their entries: files and marks, as handed over by the caller
  WithCb,     \* the lists played with a callback
  CbMax       \* bound: callbacks that wait before a tone is played or stopped

File == [kind |-> "file", count |-> 0]
RepeatBegin(n) == [kind |-> "begin", count |-> n]
RepeatEnd == [kind |-> "end", count |-> 0]
Null == [kind |-> "null", count |-> 0]

(* Files F[i+1] .. F[j-1] stand between the marks F[i] and F[j]. *)
Marked(F, i, j) ==
  /\ i + 1 < j
  /\ F[i].kind = "begin" /\ F[j].kind = "end"
  /\ \A k \in i+1 .. j-1 : F[k].kind = "file"

(* The lists of the callers: marks come in pairs, with files between them. *)
Paired(F) ==
  /\ \A i \in DOMAIN F : F[i].kind = "begin" => \E j \in DOMAIN F : Marked(F, i, j)
  /\ \A j \in DOMAIN F : F[j].kind = "end" => \E i \in DOMAIN F : Marked(F, i, j)

ASSUME ToneAssumption ==
  /\ NoTone \notin Tones /\ WithCb \subseteq Tones /\ CbMax \in Nat \ {0}
  /\ ToneFiles \in [Tones -> Seq([kind : {"file", "begin", "end"}, count : Nat])]
  /\ \A t \in Tones : Paired(ToneFiles[t])

VARIABLES
  cur_list,  \* dec->cur_list: the list that plays and where it has got to
  decoding,  \* dec->dec_file or dec->dec_sin is open
  posted     \* the callbacks in the queue of app_core

playerVars == <<cur_list, decoding, posted>>

(* tone_dec_list_create *)
Fresh(t) == [tone |-> t, idx |-> 1, repeat_begin |-> 0, loop |-> 0]
NoList == Fresh(NoTone)

ToneInit == cur_list = NoList /\ decoding = FALSE /\ posted = <<>>

-----------------------------------------------------------------------------
(* Where tone_dec_list_play goes in a list.                                *)

Entry(l) ==
  IF l.idx \in DOMAIN ToneFiles[l.tone] THEN ToneFiles[l.tone][l.idx] ELSE Null

AtEnd(l) ==
  CASE Entry(l).kind # "end" -> l
    [] Entry(l).kind = "end" /\ l.loop > 0 ->
         [l EXCEPT !.loop = l.loop - 1, !.idx = l.repeat_begin]
    [] OTHER -> [l EXCEPT !.idx = l.idx + 1]

AtBegin(l) ==
  IF Entry(l).kind # "begin" THEN l
  ELSE [l EXCEPT !.loop = IF l.loop = 0 THEN Entry(l).count ELSE l.loop,
                 !.repeat_begin = l.idx + 1, !.idx = l.idx + 1]

Walk(l) == AtBegin(AtEnd(l))

(* tone_dec_list_play when it returns true; the file may as well not open. *)
ListPlay(l) ==
  /\ Entry(Walk(l)).kind # "null"
  /\ cur_list' = Walk(l) /\ decoding' = TRUE

-----------------------------------------------------------------------------
(* Mutant: the callback of a list is not posted. *)
PostedNever(l) == posted

(* tone_dec_list_release with push_event: the callback, if there is one. *)
Posted(l) == IF l.tone \in WithCb THEN Append(posted, l.tone) ELSE posted

(* Mutant: cur_list is left behind. *)
ClosedKeepsList == cur_list' = cur_list /\ decoding' = FALSE

Closed == cur_list' = NoList /\ decoding' = FALSE

(* tone_play_open_with_callback: the tone that plays is stopped with its   *)
(* callback.  A tone that cannot start is stopped without one.             *)
Play(t) ==
  /\ Len(posted) < CbMax
  /\ posted' = Posted(cur_list)
  /\ ListPlay(Fresh(t)) \/ Closed

(* tone_play_stop: USER_TONE_PLAY_ERROR_NO_RETURN, so no callback. *)
Stop == Closed /\ UNCHANGED posted

(* tone_play_stop_by_path *)
StopByPath(t) ==
  /\ cur_list.tone = t
  /\ Len(posted) < CbMax
  /\ posted' = Posted(cur_list)
  /\ Closed

(* A file is over (AUDIO_DEC_APP_EVENT_PLAY_END): tone_dec_end_ctrl goes   *)
(* on to the next one, or ends the list when there is none or it fails.    *)
FileEnds ==
  /\ decoding
  /\ \/ ListPlay([cur_list EXCEPT !.idx = cur_list.idx + 1]) /\ UNCHANGED posted
     \/ Closed /\ posted' = Posted(cur_list)

(* app_core takes a callback out of its queue. *)
ToneCallback ==
  /\ posted # <<>>
  /\ posted' = Tail(posted)
  /\ UNCHANGED <<cur_list, decoding>>

ToneNext ==
  \/ \E t \in Tones : Play(t) \/ StopByPath(t)
  \/ Stop \/ FileEnds \/ ToneCallback

(* A decoder comes to the end of its file. *)
ToneSpec == ToneInit /\ [][ToneNext]_playerVars /\ WF_playerVars(FileEnds)

-----------------------------------------------------------------------------
(* The states of the player are well typed. *)
ToneTypeOK ==
  /\ cur_list \in [tone : Tones \cup {NoTone}, idx : Nat, repeat_begin : Nat, loop : Nat]
  /\ decoding \in BOOLEAN
  /\ posted \in Seq(WithCb)

(* Within a repeat: its mark lies behind, no end mark has been passed, and *)
(* no more rounds are left than the mark asked for.                        *)
InRepeat(F, l) ==
  /\ l.repeat_begin - 1 \in DOMAIN F /\ l.repeat_begin <= l.idx
  /\ F[l.repeat_begin - 1].kind = "begin" /\ l.loop <= F[l.repeat_begin - 1].count
  /\ \A k \in l.repeat_begin .. l.idx : F[k].kind = "file"

(* tone_get_status says "playing" exactly while a decoder is open, and     *)
(* what is open is a file of the list, never a mark or what lies behind    *)
(* its end; while rounds are left it is a file of the repeat.              *)
PlaysAFile ==
  /\ decoding <=> cur_list.tone # NoTone
  /\ decoding => /\ Entry(cur_list).kind = "file"
                 /\ cur_list.loop > 0 => InRepeat(ToneFiles[cur_list.tone], cur_list)

(* The interface the modes rely on, seen through the callbacks. *)
Interface ==
  INSTANCE ToneInterface WITH
    Tone <- WithCb,
    tone <- IF cur_list.tone \in WithCb THEN cur_list.tone ELSE NoTone,
    toneCb <- {posted[i] : i \in DOMAIN posted}

(* Playing, stopping and ending lists of files implements the interface:   *)
(* each tone with a callback posts it once it is over or broken by another *)
(* one, and a tone that is left alone ends.                                *)
ImplementsTones == Interface!Spec
=============================================================================
