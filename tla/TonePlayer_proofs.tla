------------------------- MODULE TonePlayer_proofs -------------------------
(***************************************************************************)
(* The tone player opens files only, tells the truth about playing, and    *)
(* implements the interface the modes rely on, for all lists of files.     *)
(***************************************************************************)
EXTENDS TonePlayer, TLAPS

ListType == [tone : Tones \cup {NoTone}, idx : Nat, repeat_begin : Nat, loop : Nat]

(* What PlaysAFile says of a list that plays. *)
OnFile(l) ==
  /\ Entry(l).kind = "file"
  /\ l.loop > 0 => InRepeat(ToneFiles[l.tone], l)

(* What is in a sequence. *)
LEMMA SeqTyped ==
  ASSUME NEW S, NEW F \in Seq(S)
  PROVE  Len(F) \in Nat /\ DOMAIN F = 1 .. Len(F) /\ \A i \in DOMAIN F : F[i] \in S
OBVIOUS

(* The entries of a list are numbered from 1. *)
LEMMA FilesTyped ==
  ASSUME NEW t \in Tones
  PROVE  /\ Len(ToneFiles[t]) \in Nat /\ DOMAIN ToneFiles[t] = 1 .. Len(ToneFiles[t])
         /\ \A i \in DOMAIN ToneFiles[t] :
              ToneFiles[t][i].kind \in {"file", "begin", "end"} /\ ToneFiles[t][i].count \in Nat
<1>1. ToneFiles[t] \in Seq([kind : {"file", "begin", "end"}, count : Nat])
  BY ToneAssumption
<1>2. /\ Len(ToneFiles[t]) \in Nat /\ DOMAIN ToneFiles[t] = 1 .. Len(ToneFiles[t])
      /\ \A i \in DOMAIN ToneFiles[t] :
           ToneFiles[t][i] \in [kind : {"file", "begin", "end"}, count : Nat]
  BY <1>1, SeqTyped
<1> QED
  BY <1>2

(* An entry has a kind and a count; past the end it is null. *)
LEMMA EntryTyped ==
  ASSUME NEW l \in ListType, l.tone \in Tones
  PROVE  /\ Entry(l).kind \in {"file", "begin", "end", "null"} /\ Entry(l).count \in Nat
         /\ Entry(l).kind # "null" =>
              /\ l.idx \in DOMAIN ToneFiles[l.tone]
              /\ Entry(l) = ToneFiles[l.tone][l.idx]
<1>1. CASE l.idx \in DOMAIN ToneFiles[l.tone]
  <2>1. Entry(l) = ToneFiles[l.tone][l.idx]
    BY <1>1 DEF Entry
  <2> QED
    BY <1>1, <2>1, FilesTyped
<1>2. CASE l.idx \notin DOMAIN ToneFiles[l.tone]
  BY <1>2 DEF Entry, Null
<1> QED
  BY <1>1, <1>2

(* The two steps of a walk keep the type of a list and its tone. *)
LEMMA EndTyped ==
  ASSUME NEW l \in ListType
  PROVE  AtEnd(l) \in ListType /\ AtEnd(l).tone = l.tone
<1>1. /\ l.idx + 1 \in Nat /\ l.repeat_begin \in Nat /\ l.loop \in Nat
      /\ l.loop > 0 => l.loop - 1 \in Nat
  BY DEF ListType
<1>2. CASE Entry(l).kind # "end"
  BY <1>2 DEF AtEnd
<1>3. CASE Entry(l).kind = "end" /\ l.loop > 0
  <2>1. AtEnd(l) = [l EXCEPT !.loop = l.loop - 1, !.idx = l.repeat_begin]
    BY <1>3 DEF AtEnd
  <2> QED
    BY <1>1, <1>3, <2>1 DEF ListType
<1>4. CASE Entry(l).kind = "end" /\ ~(l.loop > 0)
  <2>1. AtEnd(l) = [l EXCEPT !.idx = l.idx + 1]
    BY <1>4 DEF AtEnd
  <2> QED
    BY <1>1, <2>1 DEF ListType
<1> QED
  BY <1>2, <1>3, <1>4

LEMMA BeginTyped ==
  ASSUME NEW m \in ListType, m.tone \in Tones
  PROVE  AtBegin(m) \in ListType /\ AtBegin(m).tone = m.tone
<1>1. CASE Entry(m).kind # "begin"
  BY <1>1 DEF AtBegin
<1>2. CASE Entry(m).kind = "begin"
  <2> DEFINE n == IF m.loop = 0 THEN Entry(m).count ELSE m.loop
  <2>1. n \in Nat /\ m.idx + 1 \in Nat
    BY EntryTyped DEF ListType
  <2>2. AtBegin(m) = [m EXCEPT !.loop = n, !.repeat_begin = m.idx + 1, !.idx = m.idx + 1]
    BY <1>2 DEF AtBegin
  <2> HIDE DEF n
  <2> QED
    BY <2>1, <2>2 DEF ListType
<1> QED
  BY <1>1, <1>2

LEMMA WalkTyped ==
  ASSUME NEW l \in ListType, l.tone \in Tones
  PROVE  Walk(l) \in ListType /\ Walk(l).tone = l.tone
BY EndTyped, BeginTyped DEF Walk

(* Outside a repeat, what follows is a file or the mark of a new repeat,   *)
(* behind which a file stands.                                             *)
LEMMA BeginSound ==
  ASSUME NEW m \in ListType, m.tone \in Tones, m.loop = 0,
         Entry(m).kind # "end", Entry(AtBegin(m)).kind # "null"
  PROVE  OnFile(AtBegin(m))
<1> DEFINE F == ToneFiles[m.tone]
           w == AtBegin(m)
<1>1. CASE Entry(m).kind = "begin"
  <2>1. /\ w.tone = m.tone /\ w.loop = Entry(m).count
        /\ w.repeat_begin = m.idx + 1 /\ w.idx = m.idx + 1
    BY <1>1 DEF AtBegin, ListType
  <2>2. m.idx \in DOMAIN F /\ F[m.idx].kind = "begin" /\ F[m.idx].count = Entry(m).count
    BY <1>1, EntryTyped
  <2>3. PICK j \in DOMAIN F : Marked(F, m.idx, j)
    BY <2>2, ToneAssumption DEF Paired
  <2>4. /\ Len(F) \in Nat /\ DOMAIN F = 1 .. Len(F) /\ m.idx \in Nat
        /\ Entry(m).count \in Nat
    BY FilesTyped, EntryTyped DEF ListType
  <2>5. m.idx + 1 \in DOMAIN F /\ F[m.idx + 1].kind = "file"
    BY <2>2, <2>3, <2>4 DEF Marked
  <2>6. Entry(w).kind = "file"
    BY <2>1, <2>5 DEF Entry
  <2>7. InRepeat(F, w)
    <3>1. w.repeat_begin - 1 = m.idx /\ w.repeat_begin .. w.idx = {m.idx + 1}
      BY <2>1, <2>4
    <3> QED
      BY <2>1, <2>2, <2>4, <2>5, <3>1 DEF InRepeat
  <2> QED
    BY <2>1, <2>6, <2>7 DEF OnFile
<1>2. CASE Entry(m).kind = "file"
  BY <1>2 DEF AtBegin, OnFile, ListType
<1>3. Entry(m).kind # "null"
  BY DEF AtBegin
<1> QED
  BY <1>1, <1>2, <1>3, EntryTyped

(* A list starts on a file, whatever it starts with. *)
LEMMA FreshSound ==
  ASSUME NEW t \in Tones, Entry(Walk(Fresh(t))).kind # "null"
  PROVE  OnFile(Walk(Fresh(t)))
<1> DEFINE F == ToneFiles[t]
           l == Fresh(t)
<1>1. l \in ListType /\ l.tone = t /\ l.loop = 0 /\ l.idx = 1
  BY DEF Fresh, ListType
<1>2. Entry(l).kind # "end"
  <2>1. SUFFICES ASSUME Entry(l).kind = "end" PROVE FALSE
    OBVIOUS
  <2>2. 1 \in DOMAIN F /\ F[1].kind = "end"
    BY <1>1, <2>1, EntryTyped
  <2>3. PICK i \in DOMAIN F : Marked(F, i, 1)
    BY <2>2, ToneAssumption DEF Paired
  <2>4. i \in Nat /\ i >= 1
    BY FilesTyped
  <2> QED
    BY <2>3, <2>4 DEF Marked
<1>3. Walk(l) = AtBegin(l)
  BY <1>2 DEF Walk, AtEnd
<1> QED
  BY <1>1, <1>2, <1>3, BeginSound

(* From a file the walk comes to a file again, or to the end of the list;  *)
(* at the mark that ends a repeat, back to its first file while rounds are *)
(* left.                                                                   *)
LEMMA NextSound ==
  ASSUME NEW c \in ListType, c.tone \in Tones, OnFile(c),
         NEW l, l = [c EXCEPT !.idx = c.idx + 1], Entry(Walk(l)).kind # "null"
  PROVE  OnFile(Walk(l))
<1> DEFINE F == ToneFiles[c.tone]
<1>1. /\ l \in ListType /\ l.tone = c.tone /\ l.idx = c.idx + 1
      /\ l.loop = c.loop /\ l.repeat_begin = c.repeat_begin
  BY DEF ListType
<1>2. /\ Len(F) \in Nat /\ DOMAIN F = 1 .. Len(F)
      /\ \A i \in DOMAIN F : F[i].kind \in {"file", "begin", "end"} /\ F[i].count \in Nat
  BY FilesTyped
<1>3. c.idx \in DOMAIN F /\ F[c.idx].kind = "file"
  BY EntryTyped DEF OnFile
<1>4. CASE c.loop = 0 /\ Entry(l).kind # "end"
  BY <1>1, <1>4, BeginSound DEF Walk, AtEnd
<1>5. CASE c.loop = 0 /\ Entry(l).kind = "end"
  <2> DEFINE m == [l EXCEPT !.idx = l.idx + 1]
  <2>1. AtEnd(l) = m /\ m \in ListType /\ m.tone = c.tone /\ m.loop = 0 /\ m.idx = l.idx + 1
    <3>1. AtEnd(l) = m
      BY <1>1, <1>5 DEF AtEnd
    <3>2. l.idx + 1 \in Nat
      BY <1>1 DEF ListType
    <3> QED
      BY <1>1, <1>5, <3>1, <3>2 DEF ListType
  <2>2. Entry(m).kind # "end"
    <3>1. SUFFICES ASSUME Entry(m).kind = "end" PROVE FALSE
      OBVIOUS
    <3>2. m.idx \in DOMAIN F /\ F[m.idx].kind = "end"
      BY <2>1, <3>1, EntryTyped
    <3>3. PICK i \in DOMAIN F : Marked(F, i, m.idx)
      BY <3>2, ToneAssumption DEF Paired
    <3>4. l.idx \in DOMAIN F /\ F[l.idx].kind = "end"
      BY <1>1, <1>5, EntryTyped
    <3>5. i \in Nat /\ l.idx \in Nat /\ l.idx \in i+1 .. m.idx-1
      BY <1>1, <1>2, <2>1, <3>3 DEF Marked, ListType
    <3> QED
      BY <3>3, <3>4, <3>5 DEF Marked
  <2> QED
    BY <2>1, <2>2, BeginSound DEF Walk
<1>6. CASE c.loop > 0
  <2> DEFINE b == c.repeat_begin
  <2>1. /\ b - 1 \in DOMAIN F /\ b <= c.idx /\ F[b - 1].kind = "begin"
        /\ c.loop <= F[b - 1].count /\ \A k \in b .. c.idx : F[k].kind = "file"
    BY <1>6 DEF OnFile, InRepeat
  <2>2. PICK j \in DOMAIN F : Marked(F, b - 1, j)
    BY <2>1, ToneAssumption DEF Paired
  <2>3. b \in Nat /\ b >= 1 /\ j \in Nat /\ c.idx \in Nat /\ c.loop \in Nat
    BY <1>2, <2>1 DEF ListType
  <2>4. c.idx < j
    BY <2>1, <2>2, <2>3 DEF Marked
  <2>5. l.idx \in DOMAIN F /\ F[l.idx].kind \in {"file", "end"}
    <3>1. l.idx \in DOMAIN F /\ l.idx <= j /\ F[j].kind = "end"
      BY <1>1, <1>2, <1>3, <2>2, <2>3, <2>4 DEF Marked
    <3>2. ASSUME l.idx < j PROVE l.idx \in (b - 1) + 1 .. j - 1
      BY <1>1, <2>1, <2>3, <3>2
    <3>3. l.idx \in Nat
      BY <1>1, <2>3
    <3> QED
      BY <2>2, <2>3, <3>1, <3>2, <3>3 DEF Marked
  <2>6. Entry(l) = F[l.idx]
    BY <1>1, <2>5 DEF Entry
  <2>7. CASE F[l.idx].kind = "file"
    <3>1. Walk(l) = l
      BY <2>6, <2>7 DEF Walk, AtEnd, AtBegin
    <3>2. InRepeat(F, l)
      BY <1>1, <2>1, <2>3, <2>7 DEF InRepeat
    <3> QED
      BY <1>1, <2>6, <2>7, <3>1, <3>2 DEF OnFile
  <2>8. CASE F[l.idx].kind = "end"
    <3> DEFINE m == [l EXCEPT !.loop = l.loop - 1, !.idx = l.repeat_begin]
    <3>1. AtEnd(l) = m
      BY <1>1, <1>6, <2>6, <2>8 DEF AtEnd
    <3>2. /\ m.tone = c.tone /\ m.idx = b /\ m.repeat_begin = b /\ m.loop = c.loop - 1
      BY <1>1 DEF ListType
    <3>3. b \in DOMAIN F /\ F[b].kind = "file"
      BY <1>2, <1>3, <2>1, <2>3
    <3>4. Entry(m).kind = "file"
      BY <3>2, <3>3 DEF Entry
    <3>5. Walk(l) = m
      BY <3>1, <3>4 DEF Walk, AtBegin
    <3>6. F[b - 1].count \in Nat
      BY <1>2, <2>1
    <3>7. InRepeat(F, m)
      BY <2>1, <2>3, <3>2, <3>3, <3>6 DEF InRepeat
    <3> QED
      BY <3>2, <3>4, <3>5, <3>7 DEF OnFile
  <2> QED
    BY <2>5, <2>7, <2>8
<1> QED
  BY <1>1, <1>4, <1>5, <1>6 DEF ListType

-----------------------------------------------------------------------------
ToneInv == ToneTypeOK /\ PlaysAFile

(* A callback that is posted is one of the lists that have one. *)
LEMMA PostedTyped ==
  ASSUME ToneTypeOK
  PROVE  Posted(cur_list) \in Seq(WithCb)
BY DEF Posted, ToneTypeOK

(* Whatever stops playing leaves no list behind. *)
LEMMA ClosedSound ==
  ASSUME Closed, posted' \in Seq(WithCb)
  PROVE  ToneInv'
BY ToneAssumption DEF Closed, NoList, Fresh, ToneInv, ToneTypeOK, PlaysAFile

(* Playing a list, from its start or from the file it has come to. *)
LEMMA ListPlaySound ==
  ASSUME NEW l \in ListType, l.tone \in Tones, ListPlay(l), OnFile(Walk(l)),
         posted' \in Seq(WithCb)
  PROVE  ToneInv'
BY WalkTyped, ToneAssumption
DEF ListPlay, OnFile, ToneInv, ToneTypeOK, PlaysAFile, Entry, ListType

LEMMA ToneInvInitial == ToneInit => ToneInv
<1>1. SUFFICES ASSUME ToneInit PROVE ToneInv
  OBVIOUS
<1>2. ToneTypeOK
  <2>1. <<>> \in Seq(WithCb)
    OBVIOUS
  <2>2. NoList \in [tone : Tones \cup {NoTone}, idx : Nat, repeat_begin : Nat, loop : Nat]
    BY DEF NoList, Fresh
  <2> QED
    BY <1>1, <2>1, <2>2 DEF ToneInit, ToneTypeOK
<1>3. PlaysAFile
  BY <1>1, ToneAssumption DEF ToneInit, NoList, Fresh, PlaysAFile
<1> QED
  BY <1>2, <1>3 DEF ToneInv

LEMMA ToneInvKept == ToneInv /\ [ToneNext]_playerVars => ToneInv'
<1>1. SUFFICES ASSUME ToneInv, [ToneNext]_playerVars PROVE ToneInv'
  OBVIOUS
<1>2. ToneTypeOK /\ PlaysAFile /\ cur_list \in ListType
  BY <1>1 DEF ToneInv, ToneTypeOK, ListType
<1>3. Posted(cur_list) \in Seq(WithCb) /\ posted \in Seq(WithCb)
  BY <1>2, PostedTyped DEF ToneTypeOK
<1>4. ASSUME NEW t \in Tones, Play(t) PROVE ToneInv'
  <2>1. CASE ListPlay(Fresh(t))
    <3>1. Fresh(t) \in ListType /\ Fresh(t).tone = t
      BY DEF Fresh, ListType
    <3>2. OnFile(Walk(Fresh(t)))
      BY <2>1, FreshSound DEF ListPlay
    <3> QED
      BY <1>3, <1>4, <2>1, <3>1, <3>2, ListPlaySound DEF Play
  <2> QED
    BY <1>3, <1>4, <2>1, ClosedSound DEF Play
<1>5. ASSUME NEW t \in Tones, StopByPath(t) PROVE ToneInv'
  BY <1>3, <1>5, ClosedSound DEF StopByPath
<1>6. CASE Stop
  BY <1>3, <1>6, ClosedSound DEF Stop
<1>7. CASE FileEnds
  <2> DEFINE l == [cur_list EXCEPT !.idx = cur_list.idx + 1]
  <2>1. CASE ListPlay(l) /\ UNCHANGED posted
    <3>1. cur_list.tone \in Tones /\ OnFile(cur_list)
      BY <1>2, <1>7 DEF FileEnds, PlaysAFile, OnFile, ListType
    <3>2. l \in ListType /\ l.tone = cur_list.tone
      BY <1>2 DEF ListType
    <3>3. OnFile(Walk(l))
      BY <1>2, <2>1, <3>1, NextSound DEF ListPlay
    <3> QED
      BY <1>3, <2>1, <3>1, <3>2, <3>3, ListPlaySound
  <2> QED
    BY <1>3, <1>7, <2>1, ClosedSound DEF FileEnds
<1>8. CASE ToneCallback
  <2>1. Tail(posted) \in Seq(WithCb)
    BY <1>3, <1>8 DEF ToneCallback
  <2> QED
    BY <1>1, <1>8, <2>1 DEF ToneCallback, ToneInv, ToneTypeOK, PlaysAFile, Entry
<1>9. CASE UNCHANGED playerVars
  BY <1>1, <1>9 DEF playerVars, ToneInv, ToneTypeOK, PlaysAFile, Entry
<1> QED
  BY <1>1, <1>4, <1>5, <1>6, <1>7, <1>8, <1>9 DEF ToneNext

(* The invariant holds, for all values of the constants. *)
THEOREM ToneInvHolds == ToneSpec => []ToneInv
<1> QED
  BY ToneInvInitial, ToneInvKept, PTL DEF ToneSpec

(* The types of the tone player. *)
THEOREM ToneTypeCorrect == ToneSpec => []ToneTypeOK
<1>1. ToneInv => ToneTypeOK
  BY DEF ToneInv
<1> QED
  BY <1>1, ToneInvHolds, PTL

(* tone_get_status agrees with the decoder, and what is open is a file of  *)
(* the list that plays, for all lists whose marks come in pairs.           *)
THEOREM FilesPlayed == ToneSpec => []PlaysAFile
<1>1. ToneInv => PlaysAFile
  BY DEF ToneInv
<1> QED
  BY <1>1, ToneInvHolds, PTL

-----------------------------------------------------------------------------
(* The tone and the callbacks the modes see. *)
Seen == IF cur_list.tone \in WithCb THEN cur_list.tone ELSE NoTone
Waiting == {posted[i] : i \in DOMAIN posted}

(* A list that ends or is broken shows in the interface as a broken tone. *)
LEMMA BreakSeen ==
  ASSUME ToneTypeOK, posted' = Posted(cur_list)
  PROVE  Waiting' = Waiting \cup ({Seen} \ {NoTone})
<1>1. CASE cur_list.tone \in WithCb
  <2>1. posted' = Append(posted, cur_list.tone) /\ Seen = cur_list.tone /\ Seen # NoTone
    BY <1>1, ToneAssumption DEF Posted, Seen
  <2>2. posted \in Seq(WithCb)
    BY DEF ToneTypeOK
  <2>3. /\ Len(posted) \in Nat /\ DOMAIN posted = 1 .. Len(posted)
        /\ DOMAIN posted' = 1 .. Len(posted) + 1
        /\ \A i \in 1 .. Len(posted) : posted'[i] = posted[i]
        /\ posted'[Len(posted) + 1] = Seen
    BY <1>1, <2>1, <2>2
  <2>4. \A x : x \in Waiting' <=> x \in Waiting \/ x = Seen
    BY <2>3 DEF Waiting
  <2> QED
    BY <2>1, <2>4
<1>2. CASE cur_list.tone \notin WithCb
  BY <1>2 DEF Posted, Seen, Waiting
<1> QED
  BY <1>1, <1>2

(* The refinement: the steps of the player are steps of the interface.     *)
(* Only its fairness is left to the run of ImplementsTones.                *)
THEOREM PlayerKeepsInterface ==
  ToneSpec => Interface!Init /\ [][Interface!Next]_(Interface!toneVars)
<1>1. ToneInit => Interface!Init
  BY ToneAssumption DEF ToneInit, NoList, Fresh, Interface!Init
<1>2. ToneInv /\ [ToneNext]_playerVars => [Interface!Next]_(Interface!toneVars)
  <2>1. SUFFICES ASSUME ToneInv, [ToneNext]_playerVars
                 PROVE  Interface!Next \/ (Seen' = Seen /\ Waiting' = Waiting)
    BY DEF Interface!toneVars, Seen, Waiting
  <2>2. ToneTypeOK
    BY <2>1 DEF ToneInv
  <2>3. Closed => Seen' = NoTone
    BY ToneAssumption DEF Closed, NoList, Fresh, Seen
  <2>4. ASSUME Closed, posted' = Posted(cur_list) PROVE Interface!Next
    <3>1. Interface!Play(NoTone, FALSE)
      BY <2>2, <2>3, <2>4, BreakSeen DEF Interface!Play, Interface!Break, Seen, Waiting
    <3> QED
      BY <3>1 DEF Interface!Next
  <2>5. ASSUME NEW t \in Tones, Play(t) PROVE Interface!Next
    <3>1. CASE ListPlay(Fresh(t))
      <4>1. cur_list'.tone = t
        BY <3>1, WalkTyped DEF ListPlay, Fresh, ListType
      <4> DEFINE s == IF t \in WithCb THEN t ELSE NoTone
      <4>2. Interface!Play(s, TRUE) /\ s \in WithCb \cup {NoTone}
        BY <2>2, <2>5, <4>1, BreakSeen
        DEF Play, Interface!Play, Interface!Break, Seen, Waiting
      <4> QED
        BY <4>2 DEF Interface!Next
    <3> QED
      BY <2>4, <2>5, <3>1 DEF Play
  <2>6. ASSUME NEW t \in Tones, StopByPath(t) PROVE Interface!Next
    BY <2>4, <2>6 DEF StopByPath
  <2>7. CASE Stop
    BY <2>3, <2>7 DEF Stop, Interface!Next, Interface!Stop, Seen, Waiting
  <2>8. CASE FileEnds
    <3> DEFINE l == [cur_list EXCEPT !.idx = cur_list.idx + 1]
    <3>1. CASE ListPlay(l) /\ UNCHANGED posted
      <4>1. l \in ListType /\ l.tone = cur_list.tone /\ cur_list.tone \in Tones
        BY <2>1, <2>8 DEF FileEnds, ToneInv, ToneTypeOK, PlaysAFile, ListType
      <4>2. cur_list'.tone = cur_list.tone
        BY <3>1, <4>1, WalkTyped DEF ListPlay
      <4> QED
        BY <3>1, <4>2 DEF Seen, Waiting
    <3> QED
      BY <2>4, <2>8, <3>1 DEF FileEnds
  <2>9. CASE ToneCallback
    <3> DEFINE t == posted[1]
    <3>1. posted \in Seq(WithCb) /\ posted # <<>> /\ posted' = Tail(posted) /\ Seen' = Seen
      BY <2>2, <2>9 DEF ToneCallback, ToneTypeOK, Seen
    <3>2. /\ t \in WithCb /\ t \in Waiting
          /\ \A x : x \in Waiting <=> x \in Waiting' \/ x = t
      <4>1. /\ Len(posted) \in Nat \ {0} /\ DOMAIN posted = 1 .. Len(posted)
            /\ DOMAIN posted' = 1 .. Len(posted) - 1
            /\ \A i \in 1 .. Len(posted) - 1 : posted'[i] = posted[i + 1]
        BY <3>1
      <4>2. \A x : x \in Waiting => x \in Waiting' \/ x = t
        <5>1. SUFFICES ASSUME NEW i \in 1 .. Len(posted), i # 1
                       PROVE  posted[i] \in Waiting'
          BY <4>1 DEF Waiting
        <5>2. i - 1 \in 1 .. Len(posted) - 1 /\ posted'[i - 1] = posted[i]
          BY <4>1, <5>1
        <5> QED
          BY <4>1, <5>2 DEF Waiting
      <4>3. \A x : x \in Waiting' => x \in Waiting
        BY <4>1 DEF Waiting
      <4>4. t \in WithCb /\ t \in Waiting
        BY <3>1, <4>1 DEF Waiting
      <4> QED
        BY <4>2, <4>3, <4>4
    <3>3. CASE t \in Waiting'
      BY <3>1, <3>2, <3>3
    <3>4. CASE t \notin Waiting'
      <4>1. Waiting' = Waiting \ {t}
        BY <3>2, <3>4
      <4> QED
        BY <3>1, <3>2, <4>1 DEF Interface!Next, Interface!Done, Seen, Waiting
    <3> QED
      BY <3>3, <3>4
  <2>10. CASE UNCHANGED playerVars
    BY <2>10 DEF playerVars, Seen, Waiting
  <2> QED
    BY <2>1, <2>5, <2>6, <2>7, <2>8, <2>9, <2>10 DEF ToneNext
<1> QED
  BY <1>1, <1>2, ToneInvHolds, PTL DEF ToneSpec
=============================================================================
