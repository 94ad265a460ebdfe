-------------------------- MODULE MusicPlayer_proofs --------------------------
(***************************************************************************)
(* Theorems about the music mode, for any cards, addresses, keys, number   *)
(* of files and length of the queue: what is decoded comes from a mounted  *)
(* and valid device, under the scan handle of that device, and that device *)
(* is the one dev_manager_find_active returns; a card whose events are     *)
(* handled is in the list exactly when it is plugged in, unless a scan has *)
(* put an event of it behind a later one; and the mode is never silent,    *)
(* with no message left, while there is a device to play.                  *)
(*                                                                         *)
(* The handlers are sequences of operators on a state s = [dm, pl, q].     *)
(* Sane says what each of them keeps; the lemmas go through them in the    *)
(* order of the module.                                                    *)
(***************************************************************************)
EXTENDS MusicPlayer, DevList_proofs

HandlerState ==
  [dm : [list : Seq(Dev), counter : Nat], pl : Player, q : Seq(Message)]

(* The node at place i is usable, and the last used of those that are. *)
Best(s, i) ==
  i \in Usable(s, TRUE) /\ \A j \in Usable(s, TRUE) : s[j].stamp <= s[i].stamp

(* No end message in m is of the current start. *)
Late(m) == \A i \in DOMAIN m : m[i][1] = "end" => m[i][3] = FALSE

(* Whatever node is at the remembered address, the handle is of its card. *)
Handle(s) ==
  s.pl.fsn # NoCard =>
    \A i \in DOMAIN s.dm.list :
      s.dm.list[i].node = s.pl.dev => s.dm.list[i].logo = CardLogo(s.pl.fsn)

Playing(s) ==
  s.pl.dec \in {"wait", "play"} =>
    /\ s.pl.fsn # NoCard /\ Late(s.q)
    /\ \E i \in DOMAIN s.dm.list : s.dm.list[i].node = s.pl.dev /\ Best(s.dm.list, i)

(* Here no card brings a second node for its record folder. *)
OnlyCards(L) == \A i \in DOMAIN L : \E c \in Card : L[i].logo = CardLogo(c)

Sane(s) ==
  s \in HandlerState /\ WellFormed(s.dm) /\ OnlyCards(s.dm.list) /\ Handle(s) /\ Playing(s)

(* While a scan or a lookup runs nothing is decoded, and the remembered    *)
(* node is the usable one that it was started for.                         *)
Parked(s) == s.pl.dec = "none" /\ OnlineCheck(s.dm.list, s.pl.dev, TRUE)

PlayerInv ==
  /\ Sane(Scanned) /\ dm.counter = Len(dm.list)
  /\ pc \in {"get", "scan", "look", "seek"} /\ mode \in {"music", "other"} /\ tone \in BOOLEAN
  /\ socket \in [Card -> Plugged \cup Absent] /\ cut \in BOOLEAN /\ overtaken \subseteq Card
  /\ pc # "get" => Parked(Scanned)
  /\ pc \in {"look", "seek"} => pl.fsn # NoCard
  /\ mode = "other" => pl = NoPlayer /\ pc = "get"

-----------------------------------------------------------------------------
(* Ranks in the place of stamps                                            *)

(* The entries of Ranked: the same, in the same order of use. *)
LEMMA RankedEntries ==
  ASSUME NEW st, WellFormed(st)
  PROVE  LET r == Ranked(st)
         IN  /\ WellFormed(r) /\ r.counter = Len(r.list)
             /\ DOMAIN r.list = DOMAIN st.list
             /\ \A i \in DOMAIN st.list :
                  /\ r.list[i].node = st.list[i].node /\ r.list[i].logo = st.list[i].logo
                  /\ r.list[i].fmnt = st.list[i].fmnt /\ r.list[i].valid = st.list[i].valid
             /\ \A i, j \in DOMAIN st.list :
                  st.list[i].stamp <= st.list[j].stamp => r.list[i].stamp <= r.list[j].stamp
<1> DEFINE s == st.list
           D == DOMAIN s
           below(i) == {j \in D : s[j].stamp < s[i].stamp}
           rank(i) == Cardinality(below(i))
           u == [i \in D |-> [s[i] EXCEPT !.stamp = rank(i)]]
           r == [list |-> u, counter |-> Len(s)]
<1>1. Ranked(st) = r
  BY DEF Ranked
<1>2. s \in Seq(Dev) /\ Once(s) /\ Mounted(s) /\ StampsDiffer(s)
  BY DEF WellFormed
<1> HIDE DEF s
<1>3. D = 1..Len(s) /\ Len(s) \in Nat /\ \A i \in D : s[i] \in Dev /\ s[i].stamp \in Nat
  BY <1>2, EntryTypes
<1>4. IsFiniteSet(D) /\ Cardinality(D) = Len(s)
  <2>1. IsFiniteSet(1..Len(s)) /\ Cardinality(1..Len(s)) = Len(s)
    BY <1>3, FS_Interval
  <2> QED
    BY <1>3, <2>1
<1>5. ASSUME NEW i \in D
      PROVE  /\ below(i) \subseteq D /\ i \notin below(i) /\ IsFiniteSet(below(i))
             /\ rank(i) \in Nat /\ rank(i) < Len(s)
  <2>1. below(i) \subseteq D /\ i \notin below(i)
    BY <1>3
  <2>2. IsFiniteSet(below(i)) /\ rank(i) <= Len(s) /\ (rank(i) = Len(s) => below(i) = D)
    <3> HIDE DEF D, below
    <3> QED
      BY <1>4, <2>1, FS_Subset
  <2>3. rank(i) \in Nat
    BY <2>2, FS_CardinalityType
  <2>4. rank(i) # Len(s)
    BY <2>1, <2>2
  <2> HIDE DEF rank, below, D
  <2> QED
    BY <1>3, <2>1, <2>2, <2>3, <2>4
<1>6. ASSUME NEW i \in D, NEW j \in D, s[i].stamp < s[j].stamp
      PROVE  rank(i) < rank(j)
  <2>1. below(i) \subseteq below(j) /\ i \in below(j) /\ i \notin below(i)
    BY <1>3, <1>6
  <2>2. IsFiniteSet(below(j)) /\ rank(i) \in Nat /\ rank(j) \in Nat
    BY <1>5
  <2>3. rank(i) <= rank(j) /\ (rank(i) = rank(j) => below(i) = below(j))
    <3> HIDE DEF below
    <3> QED
      BY <2>1, <2>2, FS_Subset
  <2>4. rank(i) # rank(j)
    BY <2>1, <2>3
  <2> HIDE DEF rank, below
  <2> QED
    BY <2>2, <2>3, <2>4
<1>7. \A i \in D : rank(i) \in Nat /\ rank(i) < Len(s)
  BY <1>5
<1>8. \A i, j \in D : s[i].stamp < s[j].stamp => rank(i) < rank(j)
  BY <1>6
<1> HIDE DEF rank
<1>9. ASSUME NEW i \in D
      PROVE  /\ u[i] \in Dev /\ u[i].node = s[i].node /\ u[i].logo = s[i].logo
             /\ u[i].fmnt = s[i].fmnt /\ u[i].valid = s[i].valid /\ u[i].stamp = rank(i)
  <2>1. u[i] = [s[i] EXCEPT !.stamp = rank(i)] /\ s[i] \in Dev /\ rank(i) \in Nat
    BY <1>3, <1>7
  <2> HIDE DEF u
  <2> QED
    BY <2>1 DEF Dev
<1>10. DOMAIN u = D
  OBVIOUS
<1>11. u \in Seq(Dev) /\ Len(u) = Len(s)
  <2>1. u \in [1..Len(s) -> Dev]
    BY <1>3, <1>9
  <2> HIDE DEF u
  <2> QED
    BY <1>3, <2>1
<1> HIDE DEF u
<1>12. Once(u)
  BY <1>2, <1>9, <1>10 DEF Once
<1>13. Mounted(u)
  <2>1. ASSUME NEW i \in DOMAIN u, u[i].valid PROVE u[i].fmnt
    <3>1. i \in D /\ s[i].valid /\ u[i].fmnt = s[i].fmnt
      BY <1>9, <1>10, <2>1
    <3>2. s[i].fmnt
      BY Zenon, <1>2, <3>1 DEF Mounted
    <3> QED
      BY <3>1, <3>2
  <2> QED
    BY <2>1 DEF Mounted
<1>14. StampsBelow(u, Len(s))
  BY <1>7, <1>9, <1>10 DEF StampsBelow
<1>15. StampsDiffer(u)
  <2> SUFFICES ASSUME NEW i \in D, NEW j \in D, rank(i) = rank(j) PROVE i = j
    BY <1>9, <1>10 DEF StampsDiffer
  <2>1. ~(s[i].stamp < s[j].stamp) /\ ~(s[j].stamp < s[i].stamp)
    BY <1>7, <1>8
  <2>2. s[i].stamp = s[j].stamp
    BY <1>3, <2>1
  <2> QED
    BY <1>2, <2>2 DEF StampsDiffer
<1>16. \A i, j \in D : s[i].stamp <= s[j].stamp => u[i].stamp <= u[j].stamp
  <2> SUFFICES ASSUME NEW i \in D, NEW j \in D, s[i].stamp <= s[j].stamp
               PROVE  rank(i) <= rank(j)
    BY <1>9
  <2>1. CASE s[i].stamp < s[j].stamp
    BY <1>7, <1>8, <2>1
  <2>2. CASE s[i].stamp = s[j].stamp
    <3>1. i = j
      BY <1>2, <2>2 DEF StampsDiffer
    <3> QED
      BY <1>7, <3>1
  <2> QED
    BY <1>3, <2>1, <2>2
<1>17. r.list = u /\ r.counter = Len(s)
  OBVIOUS
<1>18. WellFormed(r)
  BY <1>3, <1>11, <1>12, <1>13, <1>14, <1>15, <1>17 DEF WellFormed
<1> HIDE DEF r
<1> QED
  BY <1>1, <1>9, <1>10, <1>11, <1>16, <1>17, <1>18 DEF s

-----------------------------------------------------------------------------
(* The parts of a state, and changes of one of them                        *)

LEMMA HandlerParts ==
  ASSUME NEW s \in HandlerState
  PROVE  /\ s = [dm |-> s.dm, pl |-> s.pl, q |-> s.q]
         /\ s.dm = [list |-> s.dm.list, counter |-> s.dm.counter]
         /\ s.dm.list \in Seq(Dev) /\ s.dm.counter \in Nat
         /\ s.pl \in Player /\ s.q \in Seq(Message)
         /\ s.pl.dev \in Node \cup {NoNode} /\ s.pl.fsn \in Card \cup {NoCard}
         /\ s.pl.dec \in {"none", "wait", "play", "ended"} /\ s.pl.errs \in 0..Files
  BY DEF HandlerState, Player

(* The queue may change as long as no end message of this start comes in. *)
LEMMA QueueSane ==
  ASSUME NEW s, Sane(s), NEW m \in Seq(Message), s.pl.dec \in {"wait", "play"} /\ Late(s.q) => Late(m)
  PROVE  Sane([s EXCEPT !.q = m])
<1> DEFINE t == [s EXCEPT !.q = m]
<1>1. t \in HandlerState /\ t.dm = s.dm /\ t.pl = s.pl /\ t.q = m
  BY DEF Sane, HandlerState
<1> HIDE DEF t
<1>2. Sane(t)
  BY <1>1 DEF Sane, Handle, Playing
<1> QED
  BY <1>2 DEF t

(* The player may change as long as nothing starts and the handle is kept  *)
(* for the same node, or released.                                         *)
LEMMA PlayerSane ==
  ASSUME NEW s, Sane(s), NEW p \in Player,
         p.dec \in {"wait", "play"} => s.pl.dec \in {"wait", "play"} /\ p.fsn = s.pl.fsn,
         p.fsn # NoCard => p.fsn = s.pl.fsn /\ p.dev = s.pl.dev
  PROVE  Sane([s EXCEPT !.pl = p])
<1> DEFINE t == [s EXCEPT !.pl = p]
<1>1. t \in HandlerState /\ t.dm = s.dm /\ t.pl = p /\ t.q = s.q
  BY DEF Sane, HandlerState
<1> HIDE DEF t
<1>2. Sane(t)
  BY <1>1 DEF Sane, Handle, Playing
<1> QED
  BY <1>2 DEF t

(* What the handlers turn into is the next state of the mode. *)
LEMMA BecomeSane ==
  ASSUME NEW s, Sane(s), Become(s)
  PROVE  /\ Sane(Scanned') /\ dm'.counter = Len(dm'.list)
         /\ pl' = s.pl /\ (Parked(s) => Parked(Scanned'))
<1> DEFINE r == Ranked(s.dm)
           t == [dm |-> r, pl |-> s.pl, q |-> s.q]
<1>1. WellFormed(s.dm) /\ s \in HandlerState
  BY DEF Sane
<1>2. /\ WellFormed(r) /\ r.counter = Len(r.list) /\ DOMAIN r.list = DOMAIN s.dm.list
      /\ \A i \in DOMAIN s.dm.list :
           /\ r.list[i].node = s.dm.list[i].node /\ r.list[i].logo = s.dm.list[i].logo
           /\ r.list[i].fmnt = s.dm.list[i].fmnt /\ r.list[i].valid = s.dm.list[i].valid
      /\ \A i, j \in DOMAIN s.dm.list :
           s.dm.list[i].stamp <= s.dm.list[j].stamp => r.list[i].stamp <= r.list[j].stamp
  BY <1>1, RankedEntries
<1> HIDE DEF r
<1>3. Scanned' = t /\ dm' = r /\ pl' = s.pl
  BY DEF Become, Scanned, r
<1>4. t.dm = r /\ t.pl = s.pl /\ t.q = s.q
  OBVIOUS
<1>5. t \in HandlerState
  BY <1>1, <1>2, HandlerParts DEF HandlerState, WellFormed
<1> HIDE DEF t
<1>6. \A i \in DOMAIN r.list : i \in Usable(r.list, TRUE) <=> i \in Usable(s.dm.list, TRUE)
  BY <1>2 DEF Usable
<1>7. \A i \in DOMAIN s.dm.list : Best(s.dm.list, i) => Best(r.list, i)
  BY <1>2, <1>6 DEF Best, Usable
<1>8. Handle(t)
  BY <1>1, <1>2, <1>4 DEF Sane, Handle
<1>9. Playing(t)
  BY <1>1, <1>2, <1>4, <1>7 DEF Sane, Playing
<1>10. Parked(s) => Parked(t)
  BY <1>2, <1>4, <1>6 DEF Parked, OnlineCheck, Usable
<1>11. OnlyCards(t.dm.list)
  BY <1>2, <1>4 DEF Sane, OnlyCards
<1> QED
  BY <1>2, <1>3, <1>4, <1>5, <1>8, <1>9, <1>10, <1>11 DEF Sane

(* A message the mode posts to itself. *)
LEMMA PostSane ==
  ASSUME NEW s, Sane(s), NEW k \in Posted
  PROVE  /\ Sane(Post(s, k)) /\ Post(s, k).dm = s.dm /\ Post(s, k).pl = s.pl
<1> DEFINE m == Append(s.q, <<k>>)
<1>1. s \in HandlerState /\ s.q \in Seq(Message)
  BY HandlerParts DEF Sane
<1>2. <<k>> \in Message /\ <<k>>[1] # "end"
  BY DEF Message, Posted
<1>3. m \in Seq(Message) /\ (Late(s.q) => Late(m))
  <2>1. /\ m \in Seq(Message) /\ DOMAIN m = 1..(Len(s.q) + 1) /\ DOMAIN s.q = 1..Len(s.q)
        /\ (\A j \in 1..Len(s.q) : m[j] = s.q[j]) /\ m[Len(s.q) + 1] = <<k>>
    BY <1>1, <1>2, AppendEntries
  <2>2. Len(s.q) \in Nat
    BY <1>1
  <2> HIDE DEF m
  <2>3. \A j \in DOMAIN m : j \in DOMAIN s.q \/ j = Len(s.q) + 1
    BY <2>1, <2>2
  <2> QED
    BY <1>2, <2>1, <2>2, <2>3 DEF Late
<1>4. Post(s, k) = [s EXCEPT !.q = m]
  BY DEF Post
<1> HIDE DEF m
<1>5. Sane([s EXCEPT !.q = m])
  BY <1>3, QueueSane
<1>6. [s EXCEPT !.q = m].dm = s.dm /\ [s EXCEPT !.q = m].pl = s.pl
  BY <1>1 DEF HandlerState
<1> QED
  BY <1>4, <1>5, <1>6

(* music_player_stop *)
LEMMA StopSane ==
  ASSUME NEW s, Sane(s), NEW release \in BOOLEAN
  PROVE  LET t == Stop(s, release)
         IN  /\ Sane(t) /\ t.dm = s.dm /\ t.q = s.q /\ t.pl.dec = "none" /\ t.pl.dev = s.pl.dev
             /\ t.pl.fsn = IF release THEN NoCard ELSE s.pl.fsn
<1> DEFINE p == [s.pl EXCEPT !.dec = "none", !.file = FALSE,
                             !.fsn = IF release THEN NoCard ELSE @]
           t == [s EXCEPT !.pl = p]
<1>1. s \in HandlerState /\ s.pl \in Player
  BY HandlerParts DEF Sane
<1>2. /\ p \in Player /\ p.dec = "none" /\ p.dev = s.pl.dev
      /\ p.fsn = IF release THEN NoCard ELSE s.pl.fsn
  BY <1>1 DEF Player
<1>3. Stop(s, release) = t
  BY <1>1 DEF Stop, HandlerState, Player
<1> HIDE DEF p
<1>4. t.dm = s.dm /\ t.q = s.q /\ t.pl = p
  BY <1>1 DEF HandlerState
<1>5. Sane(t)
  BY <1>2, PlayerSane
<1> HIDE DEF t
<1> QED
  BY <1>2, <1>3, <1>4, <1>5

(* The counts, marks and mounts may change while nothing is decoded. *)
LEMMA MarkedSane ==
  ASSUME NEW s, Sane(s), s.pl.dec \notin {"wait", "play"}, NEW t, Marks(s.dm.list, t)
  PROVE  LET u == [s EXCEPT !.dm.list = t] IN Sane(u) /\ u.pl = s.pl
<1> DEFINE d == [list |-> t, counter |-> s.dm.counter]
           u == [dm |-> d, pl |-> s.pl, q |-> s.q]
<1>1. s \in HandlerState /\ WellFormed(s.dm)
  BY DEF Sane
<1>2. [s EXCEPT !.dm.list = t] = u
  BY <1>1, HandlerParts DEF HandlerState
<1>3. WellFormed(d)
  <2>1. /\ t \in Seq(Dev) /\ Len(t) = Len(s.dm.list) /\ Mounted(t)
        /\ \A i \in 1..Len(t) : /\ t[i].node = s.dm.list[i].node /\ t[i].logo = s.dm.list[i].logo
                                /\ t[i].stamp = s.dm.list[i].stamp
    BY DEF Marks
  <2>2. Follows(s.dm.list, s.dm.counter, d)
    BY <1>1, <2>1, MarkFollows
  <2> QED
    BY <2>2 DEF Follows
<1>4. /\ DOMAIN t = DOMAIN s.dm.list
      /\ \A i \in DOMAIN t : t[i].node = s.dm.list[i].node /\ t[i].logo = s.dm.list[i].logo
  <2>1. DOMAIN t = 1..Len(t) /\ DOMAIN s.dm.list = 1..Len(s.dm.list)
    BY <1>1, HandlerParts DEF Marks
  <2> QED
    BY <2>1 DEF Marks
<1>5. d.list = t /\ d \in [list : Seq(Dev), counter : Nat]
  BY <1>3 DEF WellFormed
<1> HIDE DEF d
<1>6. u.dm = d /\ u.pl = s.pl /\ u.q = s.q
  OBVIOUS
<1>7. u \in HandlerState
  BY <1>1, <1>5, HandlerParts DEF HandlerState
<1> HIDE DEF u
<1>8. Handle(u) /\ Playing(u) /\ OnlyCards(u.dm.list)
  BY <1>4, <1>5, <1>6 DEF Sane, Handle, Playing, OnlyCards
<1> QED
  BY <1>2, <1>3, <1>6, <1>7, <1>8 DEF Sane

(* The count of failed files. *)
LEMMA ErrsSane ==
  ASSUME NEW s, Sane(s), NEW k \in 0..Files
  PROVE  LET u == [s EXCEPT !.pl.errs = k]
         IN  Sane(u) /\ u.dm = s.dm /\ u.pl.dec = s.pl.dec
<1> DEFINE p == [s.pl EXCEPT !.errs = k]
           t == [s EXCEPT !.pl = p]
<1>1. s \in HandlerState /\ s.pl \in Player
  BY HandlerParts DEF Sane
<1>2. p \in Player /\ p.dec = s.pl.dec /\ p.fsn = s.pl.fsn /\ p.dev = s.pl.dev
  BY <1>1 DEF Player
<1>3. [s EXCEPT !.pl.errs = k] = t
  BY <1>1 DEF HandlerState, Player
<1> HIDE DEF p
<1>4. t.dm = s.dm /\ t.pl = p
  BY <1>1 DEF HandlerState
<1>5. Sane(t)
  BY <1>2, PlayerSane
<1> HIDE DEF t
<1> QED
  BY <1>2, <1>3, <1>4, <1>5

-----------------------------------------------------------------------------
(* music_player_err_deal                                                   *)

Errors == {"null", "succ", "broken", "no_ram", "decode_fail", "dev_nofound", "fscan",
           "dev_read", "dev_offline", "file_nofound"}

(* A result of a play function: a decoder runs only if there was no error. *)
Fine(r) ==
  /\ Sane(r[1]) /\ r[2] \in Errors
  /\ r[1].pl.dec \in {"wait", "play"} => r[2] \in {"null", "succ", "broken"}

LEMMA PostByTotalSane ==
  ASSUME NEW s, Sane(s), NEW none \in Posted, NEW some \in Posted
  PROVE  Sane(PostByTotal(s, none, some))
  BY PostSane DEF PostByTotal

LEMMA DevInvalidSane ==
  ASSUME NEW s, Sane(s), s.pl.dec \notin {"wait", "play"}
  PROVE  Sane(DevInvalid(s))
<1>1. s.dm.list \in Seq(Dev) /\ Mounted(s.dm.list)
  BY DEF Sane, WellFormed
<1>2. Marks(s.dm.list, SetValid(s.dm.list, s.pl.dev, FALSE))
  BY <1>1, SetValidMarks
<1> QED
  BY <1>2, MarkedSane DEF DevInvalid

LEMMA DevUnmountedSane ==
  ASSUME NEW s, Sane(s), s.pl.dec \notin {"wait", "play"}
  PROVE  Sane(DevUnmounted(s))
<1> DEFINE c == (CHOOSE l \in DevCur(s) : TRUE)[1]
<1>1. s.dm.list \in Seq(Dev) /\ Mounted(s.dm.list)
  BY DEF Sane, WellFormed
<1> HIDE DEF c
<1>2. Marks(s.dm.list, UnmountDevice(s.dm.list, c))
  BY <1>1, UnmountDeviceMarks
<1>3. Sane([s EXCEPT !.dm.list = UnmountDevice(s.dm.list, c)])
  BY <1>2, MarkedSane
<1> QED
  BY <1>3 DEF DevUnmounted, c

LEMMA DecodeFailedSane ==
  ASSUME NEW s, Sane(s), s.pl.dec \notin {"wait", "play"}
  PROVE  Sane(DecodeFailed(s))
<1>1. Files \in Nat /\ s.pl.errs \in 0..Files
  BY PlayerAssumption, HandlerParts DEF Sane
<1>2. CASE s.pl.errs < Files
  <2>1. s.pl.errs + 1 \in 0..Files
    BY <1>1, <1>2
  <2> DEFINE u == [s EXCEPT !.pl.errs = s.pl.errs + 1]
  <2>2. Sane(u)
    BY <2>1, ErrsSane
  <2>3. DecodeFailed(s) = Post(u, "next")
    BY <1>2 DEF DecodeFailed
  <2> HIDE DEF u
  <2> QED
    BY <2>2, <2>3, PostSane DEF Posted
<1>3. CASE ~(s.pl.errs < Files)
  <2> DEFINE u == [s EXCEPT !.pl.errs = 0]
  <2>1. Sane(u) /\ u.pl.dec \notin {"wait", "play"}
    <3>1. 0 \in 0..Files
      BY <1>1
    <3> QED
      BY <3>1, ErrsSane
  <2>2. DecodeFailed(s) = PostByTotal(DevInvalid(u), "quit", "change_dev")
    BY <1>3 DEF DecodeFailed
  <2> HIDE DEF u
  <2>3. Sane(DevInvalid(u))
    BY <2>1, DevInvalidSane
  <2> QED
    BY <2>2, <2>3, PostByTotalSane DEF Posted
<1> QED
  BY <1>2, <1>3

LEMMA DeviceLostSane ==
  ASSUME NEW s, Sane(s), s.pl.dec \notin {"wait", "play"}, NEW isScan \in BOOLEAN
  PROVE  Sane(DeviceLost(s, isScan))
<1> DEFINE t == IF ~CurOnline(s) THEN s ELSE IF isScan THEN DevInvalid(s) ELSE DevUnmounted(s)
<1>1. Sane(t)
  BY DevInvalidSane, DevUnmountedSane
<1>2. DeviceLost(s, isScan) = PostByTotal(t, "to_bt", "change_dev")
  BY DEF DeviceLost
<1> HIDE DEF t
<1> QED
  BY <1>1, <1>2, PostByTotalSane DEF Posted

LEMMA ErrDealSane ==
  ASSUME NEW s, Sane(s), NEW err \in Errors,
         s.pl.dec \in {"wait", "play"} => err \in {"null", "succ", "broken"}
  PROVE  Sane(ErrDeal(s, err))
<1> DEFINE z == [s EXCEPT !.pl.errs = 0]
<1>1. Sane(z) /\ z.pl.dec = s.pl.dec
  <2>1. 0 \in 0..Files
    BY PlayerAssumption
  <2> QED
    BY <2>1, ErrsSane
<1>2. ErrDeal(s, err) =
        CASE err = "null" -> s
          [] err \in {"succ", "broken"} -> z
          [] err = "no_ram" -> Post(z, "quit")
          [] err = "decode_fail" -> DecodeFailed(s)
          [] err = "dev_nofound" -> PostByTotal(z, "quit", "start")
          [] err \in {"fscan", "dev_read", "dev_offline"} -> DeviceLost(z, err = "fscan")
          [] err = "file_nofound" ->
               IF CurOnline(z) /\ z.pl.fsn # NoCard THEN Post(z, "first")
               ELSE PostByTotal(z, "quit", "change_dev")
  BY DEF ErrDeal
<1> HIDE DEF z
<1>3. err = "null" => ErrDeal(s, err) = s
  BY <1>2
<1>4. err \in {"succ", "broken"} => ErrDeal(s, err) = z
  BY <1>2
<1>5. err = "no_ram" => Sane(ErrDeal(s, err))
  BY <1>1, <1>2, PostSane DEF Posted
<1>6. err = "decode_fail" => Sane(ErrDeal(s, err))
  <2>1. err = "decode_fail" => ErrDeal(s, err) = DecodeFailed(s)
    BY <1>2
  <2> QED
    BY <2>1, DecodeFailedSane
<1>7. err = "dev_nofound" => Sane(ErrDeal(s, err))
  <2>1. err = "dev_nofound" => ErrDeal(s, err) = PostByTotal(z, "quit", "start")
    BY <1>2
  <2> QED
    BY <1>1, <2>1, PostByTotalSane DEF Posted
<1>8. err \in {"fscan", "dev_read", "dev_offline"} => Sane(ErrDeal(s, err))
  <2>1. err \in {"fscan", "dev_read", "dev_offline"} => ErrDeal(s, err) = DeviceLost(z, err = "fscan")
    BY <1>2
  <2>2. ErrDeal(s, err) = DeviceLost(z, err = "fscan") /\ z.pl.dec \notin {"wait", "play"}
          => Sane(ErrDeal(s, err))
    BY <1>1, DeviceLostSane
  <2> QED
    BY <1>1, <2>1, <2>2
<1>9. err = "file_nofound" => Sane(ErrDeal(s, err))
  <2>1. err = "file_nofound" =>
          ErrDeal(s, err) \in {Post(z, "first"), PostByTotal(z, "quit", "change_dev")}
    BY <1>2
  <2>2. Sane(Post(z, "first")) /\ Sane(PostByTotal(z, "quit", "change_dev"))
    BY <1>1, PostSane, PostByTotalSane DEF Posted
  <2> QED
    BY <2>1, <2>2
<1> QED
  BY <1>1, <1>3, <1>4, <1>5, <1>6, <1>7, <1>8, <1>9 DEF Errors

-----------------------------------------------------------------------------
(* The play functions                                                      *)

(* A new start makes the end messages in the queue late. *)
LEMMA AgedSane ==
  ASSUME NEW s, Sane(s)
  PROVE  Sane(Aged(s)) /\ Late(Aged(s).q) /\ Aged(s).dm = s.dm /\ Aged(s).pl = s.pl
<1> DEFINE m == [i \in DOMAIN s.q |-> IF s.q[i][1] = "end" THEN <<"end", s.q[i][2], FALSE>>
                                                          ELSE s.q[i]]
           t == [s EXCEPT !.q = m]
<1>1. s \in HandlerState /\ s.q \in Seq(Message)
  BY HandlerParts DEF Sane
<1>2. \A i \in DOMAIN s.q : m[i] \in Message /\ (m[i][1] = "end" => m[i][3] = FALSE)
  <2> TAKE i \in DOMAIN s.q
  <2>1. s.q[i] \in Message
    BY <1>1
  <2>2. CASE s.q[i][1] = "end"
    <3>1. s.q[i] \in {"end"} \X BOOLEAN \X BOOLEAN
      BY <2>1, <2>2 DEF Message, Posted
    <3>2. m[i] = <<"end", s.q[i][2], FALSE>>
      BY <2>2
    <3> QED
      BY <3>1, <3>2 DEF Message
  <2>3. CASE s.q[i][1] # "end"
    BY <2>1, <2>3
  <2> QED
    BY <2>2, <2>3
<1>3. DOMAIN m = DOMAIN s.q
  OBVIOUS
<1>4. Aged(s) = t
  BY DEF Aged
<1> HIDE DEF m
<1>5. m \in Seq(Message)
  <2>1. DOMAIN s.q = 1..Len(s.q) /\ Len(s.q) \in Nat
    BY <1>1
  <2>2. m \in [1..Len(s.q) -> Message]
    <3>1. m = [i \in DOMAIN s.q |-> m[i]]
      BY DEF m
    <3> QED
      BY <1>2, <1>3, <2>1, <3>1
  <2> QED
    BY <2>1, <2>2
<1>6. Late(m)
  BY <1>2, <1>3 DEF Late
<1>7. Sane(t) /\ t.q = m /\ t.dm = s.dm /\ t.pl = s.pl
  <2>1. Sane(t)
    BY <1>5, <1>6, QueueSane
  <2> QED
    BY <1>1, <2>1 DEF HandlerState
<1> HIDE DEF t
<1> QED
  BY <1>4, <1>6, <1>7

(* The decoder starts on a usable node, which becomes the last used one. *)
LEMMA DecodesSane ==
  ASSUME NEW s, Sane(s), s.pl.fsn # NoCard, OnlineCheck(s.dm.list, s.pl.dev, TRUE),
         NEW how \in {"wait", "play"}
  PROVE  Sane(Decodes(s, how))
<1> DEFINE a == Aged(s)
           n == s.pl.dev
           d == SetActive(s.dm, n)
           p == [s.pl EXCEPT !.dec = how]
           t == [dm |-> d, pl |-> p, q |-> a.q]
           L == s.dm.list
<1>1. Sane(a) /\ Late(a.q) /\ a.dm = s.dm /\ a.pl = s.pl /\ a \in HandlerState
  BY AgedSane DEF Sane
<1>2. WellFormed(s.dm) /\ Handle(s) /\ s.pl \in Player /\ a.q \in Seq(Message)
  BY <1>1, HandlerParts DEF Sane
<1>3. Decodes(s, how) = t
  <2>1. Decodes(s, how) = [a EXCEPT !.pl.dec = how, !.dm = SetActive(a.dm, n)]
    BY DEF Decodes
  <2>2. d \in [list : Seq(Dev), counter : Nat]
    <3>1. Check(s.dm.list, n)
      BY DEF OnlineCheck, Check, Usable
    <3>2. WellFormed(d)
      BY <1>2, <3>1, SetActiveStamps
    <3> QED
      BY <3>2 DEF WellFormed
  <2> HIDE DEF a, n
  <2>3. SetActive(a.dm, n) = d
    BY <1>1
  <2> HIDE DEF d
  <2> DEFINE b == [a.pl EXCEPT !.dec = how]
  <2>4. [a EXCEPT !.pl.dec = how, !.dm = d] = [a EXCEPT !.pl = b, !.dm = d]
    BY <1>1 DEF HandlerState, Player
  <2>5. b = p /\ b \in Player
    BY <1>1, <1>2 DEF Player
  <2> HIDE DEF b, p
  <2> DEFINE e == [a EXCEPT !.pl = b]
  <2>6. e \in HandlerState /\ e.pl = b /\ e.q = a.q
    BY <1>1, <2>5 DEF HandlerState
  <2>7. [a EXCEPT !.pl = b, !.dm = d] = [e EXCEPT !.dm = d]
    OBVIOUS
  <2> HIDE DEF e
  <2>8. [e EXCEPT !.dm = d] = [dm |-> d, pl |-> b, q |-> a.q]
    BY <2>2, <2>6 DEF HandlerState
  <2> QED
    BY Zenon, <2>1, <2>3, <2>4, <2>5, <2>7, <2>8
<1> HIDE DEF a
<1>4. Check(L, n)
  BY DEF OnlineCheck, Check, Usable
<1>5. /\ WellFormed(d) /\ d.counter = s.dm.counter + 1 /\ DOMAIN d.list = DOMAIN L
      /\ \E x \in DOMAIN L :
           /\ L[x].node = n /\ L[x].fmnt
           /\ \A i \in DOMAIN L :
                /\ d.list[i].node = L[i].node /\ d.list[i].logo = L[i].logo
                /\ d.list[i].fmnt = L[i].fmnt /\ d.list[i].valid = L[i].valid
                /\ d.list[i].stamp = IF i = x THEN s.dm.counter ELSE L[i].stamp
  BY <1>2, <1>4, SetActiveStamps
<1> HIDE DEF d, L, n
<1>6. PICK x \in DOMAIN L :
        /\ L[x].node = n /\ L[x].fmnt
        /\ \A i \in DOMAIN L :
             /\ d.list[i].node = L[i].node /\ d.list[i].logo = L[i].logo
             /\ d.list[i].fmnt = L[i].fmnt /\ d.list[i].valid = L[i].valid
             /\ d.list[i].stamp = IF i = x THEN s.dm.counter ELSE L[i].stamp
  BY <1>5
<1>7. x \in Usable(L, TRUE)
  <2>1. PICK y \in Usable(L, TRUE) : L[y].node = n
    BY DEF OnlineCheck, L, n
  <2>2. y = x
    BY <1>2, <1>6, <2>1 DEF WellFormed, Once, Usable, L
  <2> QED
    BY <2>1, <2>2
<1>8. L \in Seq(Dev) /\ s.dm.counter \in Nat /\ StampsBelow(L, s.dm.counter)
  BY <1>2 DEF WellFormed, L
<1>9. \A i \in DOMAIN L : d.list[i].stamp <= d.list[x].stamp
  <2>1. \A i \in DOMAIN L : L[i].stamp \in Nat /\ L[i].stamp < s.dm.counter
    BY <1>8, EntryTypes DEF StampsBelow
  <2> QED
    BY <1>6, <1>8, <2>1
<1>10. Best(d.list, x) /\ d.list[x].node = n /\ x \in DOMAIN d.list
  BY <1>5, <1>6, <1>7, <1>9 DEF Best, Usable
<1>11. /\ p \in Player /\ p.dec = how /\ p.dev = n /\ p.fsn = s.pl.fsn
  BY <1>2 DEF Player, n
<1> HIDE DEF p
<1>12. t.dm = d /\ t.pl = p /\ t.q = a.q
  OBVIOUS
<1>13. t \in HandlerState
  BY <1>2, <1>5, <1>11 DEF HandlerState, WellFormed
<1> HIDE DEF t
<1>14. Handle(t)
  BY <1>2, <1>5, <1>6, <1>11, <1>12 DEF Handle, L, n
<1>15. Playing(t)
  BY <1>1, <1>10, <1>11, <1>12 DEF Playing
<1>16. OnlyCards(t.dm.list)
  BY <1>5, <1>6, <1>12 DEF Sane, OnlyCards, L
<1> QED
  BY <1>3, <1>5, <1>12, <1>13, <1>14, <1>15, <1>16 DEF Sane

(* Selecting a file and starting the decoder on it. *)
LEMMA SelectAndDecodeFine ==
  ASSUME NEW s, Sane(s), s.pl.fsn # NoCard, s.pl.dec \notin {"wait", "play"},
         OnlineCheck(s.dm.list, s.pl.dev, TRUE), NEW miss \in BOOLEAN,
         NEW r \in SelectAndDecode(s, miss)
  PROVE  Fine(r)
<1> DEFINE p == [s.pl EXCEPT !.file = TRUE]
           t == [s EXCEPT !.pl = p]
           open == [s EXCEPT !.pl.file = TRUE]
<1>1. s \in HandlerState /\ s.pl \in Player
  BY HandlerParts DEF Sane
<1>2. p \in Player /\ p.dec = s.pl.dec /\ p.fsn = s.pl.fsn /\ p.dev = s.pl.dev
  BY <1>1 DEF Player
<1>3. open = t
  BY <1>1 DEF HandlerState, Player
<1>4. r \in {<<s, "file_nofound">>, <<open, "no_ram">>, <<Aged(open), "decode_fail">>,
             <<Decodes(open, "play"), "succ">>, <<Decodes(open, "wait"), "succ">>}
  BY Zenon DEF SelectAndDecode
<1> HIDE DEF p, open
<1>5. t.dm = s.dm /\ t.pl = p
  BY <1>1 DEF HandlerState
<1>6. Sane(t)
  BY <1>2, PlayerSane
<1> HIDE DEF t
<1>7. /\ Sane(open) /\ open.pl.fsn # NoCard /\ open.pl.dec \notin {"wait", "play"}
      /\ OnlineCheck(open.dm.list, open.pl.dev, TRUE)
  BY <1>2, <1>3, <1>5, <1>6
<1>8. /\ Sane(Aged(open)) /\ Aged(open).pl.dec \notin {"wait", "play"}
      /\ \A how \in {"wait", "play"} : Sane(Decodes(open, how))
  BY <1>7, AgedSane, DecodesSane
<1> DEFINE A == Aged(open)
           D == Decodes(open, "play")
           W == Decodes(open, "wait")
<1>9. r \in {<<s, "file_nofound">>, <<open, "no_ram">>, <<A, "decode_fail">>,
             <<D, "succ">>, <<W, "succ">>}
  BY <1>4
<1>10. Sane(A) /\ A.pl.dec \notin {"wait", "play"} /\ Sane(D) /\ Sane(W)
  BY <1>8
<1> HIDE DEF A, D, W
<1> QED
  BY <1>7, <1>9, <1>10 DEF Fine, Errors

(* Where a handler leaves the mode: a scan or a lookup is entered only     *)
(* with a node that is mounted and valid, a lookup with its handle.        *)
Came ==
  /\ Sane(Scanned') /\ dm'.counter = Len(dm'.list)
  /\ pc' \in {"get", "scan", "look", "seek"} /\ cut' \in BOOLEAN
  /\ pc' # "get" => Parked(Scanned')
  /\ pc' \in {"look", "seek"} => pl'.fsn # NoCard

LEMMA FinishCame ==
  ASSUME NEW results, \A r \in results : Fine(r), Finish(results)
  PROVE  Came /\ pc' = "get"
<1>1. PICK r \in results : Become(ErrDeal(r[1], r[2]))
  BY DEF Finish
<1>2. Sane(ErrDeal(r[1], r[2]))
  <2>1. Fine(r)
    BY <1>1
  <2> DEFINE s == r[1]
             err == r[2]
  <2>2. Sane(s) /\ err \in Errors /\ (s.pl.dec \in {"wait", "play"} => err \in {"null", "succ", "broken"})
    BY <2>1 DEF Fine
  <2> HIDE DEF s, err
  <2>3. Sane(ErrDeal(s, err))
    BY <2>2, ErrDealSane
  <2> QED
    BY <2>3 DEF s, err
<1>3. Sane(Scanned') /\ dm'.counter = Len(dm'.list)
  BY <1>1, <1>2, BecomeSane
<1>4. pc' = "get" /\ cut' \in BOOLEAN
  BY DEF Finish
<1> QED
  BY <1>3, <1>4 DEF Came

(* Another file of the current device: a lookup, unless it is gone. *)
LEMMA PlayHereCame ==
  ASSUME NEW s0, Sane(s0), PlayHere(s0)
  PROVE  Came
<1> DEFINE s == Stop(s0, FALSE)
<1>1. Sane(s) /\ s.pl.dec = "none"
  BY StopSane
<1>2. IF ~OnlineCheck(s.dm.list, s.pl.dev, TRUE) THEN Finish({<<s, "dev_offline">>})
      ELSE IF s.pl.fsn = NoCard THEN Finish({<<s, "fscan">>})
      ELSE Become(s) /\ pc' = "look" /\ cut' = FALSE
  BY DEF PlayHere
<1> HIDE DEF s
<1>3. CASE OnlineCheck(s.dm.list, s.pl.dev, TRUE) /\ s.pl.fsn # NoCard
  <2>1. Become(s) /\ pc' = "look" /\ cut' = FALSE
    BY <1>2, <1>3
  <2>2. /\ Sane(Scanned') /\ dm'.counter = Len(dm'.list)
        /\ pl' = s.pl /\ (Parked(s) => Parked(Scanned'))
    BY <1>1, <2>1, BecomeSane
  <2> QED
    BY <1>1, <1>3, <2>1, <2>2 DEF Came, Parked
<1>4. CASE ~(OnlineCheck(s.dm.list, s.pl.dev, TRUE) /\ s.pl.fsn # NoCard)
  <2>1. PICK err \in {"dev_offline", "fscan"} : Finish({<<s, err>>})
    BY <1>2, <1>4
  <2> DEFINE R == {<<s, err>>}
  <2>2. (\A r \in R : Fine(r)) /\ Finish(R)
    BY <1>1, <2>1 DEF Fine, Errors
  <2> HIDE DEF R
  <2> QED
    BY <2>2, FinishCame
<1> QED
  BY <1>3, <1>4

(* A device found by a search: the scan, unless there is none. *)
LEMMA PlayOnCame ==
  ASSUME NEW s0, Sane(s0), NEW n, FoundUsable(s0.dm.list, n, TRUE), PlayOn(s0, n)
  PROVE  Came
<1> DEFINE a == Stop(s0, TRUE)
           p == [a.pl EXCEPT !.dev = n]
           s == [a EXCEPT !.pl = p]
           L == s0.dm.list
<1>1. Sane(a) /\ a.dm = s0.dm /\ a.pl.dec = "none" /\ a.pl.fsn = NoCard
  BY StopSane
<1>2. a \in HandlerState /\ a.pl \in Player /\ L \in Seq(Dev) /\ Once(L)
  BY <1>1, HandlerParts DEF Sane, WellFormed
<1>3. n # NoNode => \E i \in Usable(L, TRUE) : L[i].node = n
  BY DEF FoundUsable
<1>4. n \in Node \cup {NoNode}
  <2>1. \A i \in DOMAIN L : L[i].node \in Node
    BY <1>2, EntryTypes
  <2> QED
    BY <1>3, <2>1 DEF Usable
<1>5. PlayOn(s0, n) <=>
        IF n = NoNode THEN Finish({<<s, "dev_nofound">>})
        ELSE Become(s) /\ pc' = "scan" /\ cut' = FALSE
  <2>1. [a EXCEPT !.pl.dev = n] = s
    BY <1>2 DEF HandlerState, Player
  <2> HIDE DEF a, s
  <2>2. PlayOn(s0, n) <=>
          LET t == [a EXCEPT !.pl.dev = n]
          IN  IF n = NoNode THEN Finish({<<t, "dev_nofound">>})
              ELSE Become(t) /\ pc' = "scan" /\ cut' = FALSE
    BY Zenon DEF PlayOn, a
  <2> QED
    BY Zenon, <2>1, <2>2
<1> HIDE DEF a
<1>6. p \in Player /\ p.dec = "none" /\ p.fsn = NoCard /\ p.dev = n
  BY <1>1, <1>2, <1>4 DEF Player
<1> HIDE DEF p
<1>7. Sane(s) /\ s.dm = s0.dm /\ s.pl = p
  <2>1. Sane(s)
    BY <1>1, <1>6, PlayerSane
  <2> QED
    BY <1>1, <1>2, <2>1 DEF HandlerState
<1> HIDE DEF s
<1>8. CASE n = NoNode
  <2>1. Finish({<<s, "dev_nofound">>})
    BY <1>5, <1>8
  <2>2. \A r \in {<<s, "dev_nofound">>} : Fine(r)
    BY <1>6, <1>7 DEF Fine, Errors
  <2> HIDE DEF Finish
  <2> DEFINE R == {<<s, "dev_nofound">>}
  <2>3. Finish(R) /\ \A r \in R : Fine(r)
    BY <2>1, <2>2
  <2> HIDE DEF R
  <2> QED
    BY <2>3, FinishCame
<1>9. CASE n # NoNode
  <2>1. Become(s) /\ pc' = "scan" /\ cut' = FALSE
    BY <1>5, <1>9
  <2>2. Parked(s)
    <3>1. PICK i \in Usable(L, TRUE) : L[i].node = n
      BY <1>3, <1>9
    <3> QED
      BY <1>6, <1>7, <3>1 DEF Parked, OnlineCheck
  <2> QED
    BY <1>7, <2>1, <2>2, BecomeSane DEF Came
<1> QED
  BY <1>8, <1>9

-----------------------------------------------------------------------------
(* Device events                                                           *)

(* The current device is one card. *)
LEMMA CurOne ==
  ASSUME NEW s, Sane(s), NEW i \in Usable(s.dm.list, FALSE), s.dm.list[i].node = s.pl.dev
  PROVE  /\ DevCur(s) = {s.dm.list[i].logo}
         /\ \E c \in Card : s.dm.list[i].logo = CardLogo(c) /\ DevCur(s) = {CardLogo(c)}
<1> DEFINE L == s.dm.list
           I == {j \in Usable(L, FALSE) : L[j].node = s.pl.dev}
<1>1. I = {i}
  BY DEF Sane, WellFormed, Once, Usable
<1>2. DevCur(s) = {L[j].logo : j \in I}
  BY DEF DevCur, GetLogo
<1>3. PICK c \in Card : L[i].logo = CardLogo(c)
  BY DEF Sane, OnlyCards, Usable
<1> HIDE DEF I
<1> QED
  BY <1>1, <1>2, <1>3

(* Removals; what is scanned stays when another card goes. *)
LEMMA DelDeviceSane ==
  ASSUME NEW s, Sane(s), NEW c, s.pl.dec \in {"wait", "play"} => s.pl.fsn # c
  PROVE  LET t == [s EXCEPT !.dm = DelDevice(@, c)]
         IN  /\ Sane(t) /\ t.pl = s.pl
             /\ Parked(s) /\ DevCur(s) # {CardLogo(c)} => Parked(t)
<1> DEFINE d == DelDevice(s.dm, c)
           t == [s EXCEPT !.dm = d]
           L == s.dm.list
<1>1. s \in HandlerState /\ WellFormed(s.dm) /\ Handle(s) /\ Playing(s)
  BY DEF Sane
<1>2. WellFormed(d) /\ Thinned(L, d.list, {CardLogo(c), RecLogo(c)})
  <2>1. Follows(L, s.dm.counter, s.dm) /\ s.dm.counter \in Nat
    BY <1>1, FollowsItself DEF WellFormed
  <2> QED
    BY <2>1, DelDeviceFollows DEF Follows
<1> HIDE DEF d
<1>3. d \in [list : Seq(Dev), counter : Nat]
  BY <1>2 DEF WellFormed
<1>4. t.dm = d /\ t.pl = s.pl /\ t.q = s.q /\ t \in HandlerState
  BY <1>1, <1>3 DEF HandlerState
<1> HIDE DEF t
<1>5. \A j \in DOMAIN d.list : \E i \in DOMAIN L : d.list[j] = L[i]
  BY <1>2 DEF Thinned
<1>6. Handle(t)
  BY <1>1, <1>4, <1>5 DEF Handle
<1>7. Playing(t)
  <2> SUFFICES ASSUME s.pl.dec \in {"wait", "play"}
               PROVE  \E j \in DOMAIN d.list : d.list[j].node = s.pl.dev /\ Best(d.list, j)
    BY <1>1, <1>4 DEF Playing
  <2>1. PICK i \in DOMAIN L : L[i].node = s.pl.dev /\ Best(L, i)
    BY <1>1 DEF Playing
  <2>2. L[i].logo = CardLogo(s.pl.fsn) /\ s.pl.fsn # c
    BY <1>1, <2>1 DEF Handle, Playing
  <2>3. L[i].logo \notin {CardLogo(c), RecLogo(c)}
    BY <2>2 DEF CardLogo, RecLogo
  <2>4. PICK j \in DOMAIN d.list : d.list[j] = L[i]
    BY <1>2, <2>3 DEF Thinned
  <2>5. j \in Usable(d.list, TRUE)
    BY <2>1, <2>4 DEF Best, Usable
  <2>6. \A x \in Usable(d.list, TRUE) : d.list[x].stamp <= d.list[j].stamp
    <3> TAKE x \in Usable(d.list, TRUE)
    <3>1. PICK y \in DOMAIN L : d.list[x] = L[y]
      BY <1>5 DEF Usable
    <3>2. y \in Usable(L, TRUE)
      BY <3>1 DEF Usable
    <3> QED
      BY <2>1, <2>4, <3>1, <3>2 DEF Best
  <2> QED
    BY <2>1, <2>4, <2>5, <2>6 DEF Best
<1>8. Sane(t)
  BY <1>2, <1>4, <1>5, <1>6, <1>7 DEF Sane, OnlyCards
<1>9. ASSUME Parked(s), DevCur(s) # {CardLogo(c)} PROVE Parked(t)
  <2>1. PICK i \in Usable(L, TRUE) : L[i].node = s.pl.dev
    BY <1>9 DEF Parked, OnlineCheck
  <2>2. i \in Usable(L, FALSE)
    BY <2>1 DEF Usable
  <2>3. PICK x \in Card : L[i].logo = CardLogo(x) /\ DevCur(s) = {CardLogo(x)}
    BY <2>1, <2>2, CurOne
  <2>4. i \in DOMAIN L /\ L[i].logo \notin {CardLogo(c), RecLogo(c)}
    BY <1>9, <2>1, <2>3 DEF CardLogo, RecLogo, Usable
  <2>5. PICK j \in DOMAIN d.list : d.list[j] = L[i]
    BY <1>2, <2>4 DEF Thinned
  <2> QED
    BY <1>4, <1>9, <2>1, <2>5 DEF Parked, OnlineCheck, Usable
<1> QED
  BY <1>4, <1>8, <1>9 DEF t, d

LEMMA FilteredOut ==
  ASSUME NEW s, Sane(s), NEW m, m[1] = "out", s.pl.dec \in {"wait", "play"} => s.pl.fsn # m[2],
         NEW r \in Filtered(s, m)
  PROVE  /\ Sane(r) /\ r.pl = s.pl
         /\ Parked(s) /\ DevCur(s) # {CardLogo(m[2])} => Parked(r)
<1>1. r = [s EXCEPT !.dm = DelDevice(@, m[2])]
  BY DEF Filtered
<1> QED
  BY <1>1, DelDeviceSane

(* Additions, of which none comes while a handle is held.  Without a       *)
(* record folder at the board's disposal dev_manager_add is one addition.  *)
LEMMA FilteredIn ==
  ASSUME NEW s, Sane(s), s.pl.dec \notin {"wait", "play"}, s.pl.fsn = NoCard, NEW m, m[1] # "out",
         NEW r \in Filtered(s, m)
  PROVE  Sane(r) /\ r.pl = s.pl
<1>1. CASE r = s
  BY <1>1
<1>2. CASE r # s
  <2> DEFINE c == m[2]
             out == MountOf(m[2])
  <2>1. PICK n \in Node \ Nodes(s.dm.list) :
          r = [s EXCEPT !.dm = AddDevice(@, c, n, NoNode, out, "no_mem")]
    BY <1>2 DEF Filtered
  <2> HIDE DEF c, out
  <2>2. s \in HandlerState /\ WellFormed(s.dm)
    BY DEF Sane
  <2> DEFINE d == AddDevice(s.dm, c, n, NoNode, out, "no_mem")
  <2>3. PICK o : d = AddOne(s.dm, n, CardLogo(c), o)
    <3> DEFINE x == AddResult(s.dm, RecLogo(c), "no_mem")
    <3>1. x \in {"not_found", "in_list", "no_mem"}
      BY DEF AddResult
    <3>2. AddOne(s.dm, NoNode, RecLogo(c), "no_mem") = s.dm
      BY <3>1 DEF AddOne
    <3>3. x # "mounted"
      BY <3>1
    <3>4. d \in {AddOne(s.dm, n, CardLogo(c), out),
                 AddOne(AddOne(s.dm, NoNode, RecLogo(c), "no_mem"), n, CardLogo(c),
                        IF out = "mounted" THEN "no_fs" ELSE out)}
      BY Zenon, <3>3 DEF AddDevice
    <3> QED
      BY Zenon, <3>2, <3>4
  <2> HIDE DEF d
  <2>4. WellFormed(d)
    <3>1. Follows(s.dm.list, s.dm.counter, s.dm) /\ s.dm.counter \in Nat
      BY <2>2, FollowsItself DEF WellFormed
    <3>2. Follows(s.dm.list, s.dm.counter, AddOne(s.dm, n, CardLogo(c), o))
      BY <2>1, <3>1, AddOneFollows
    <3> QED
      BY <2>3, <3>2 DEF Follows
  <2> DEFINE t == [s EXCEPT !.dm = d]
  <2>5. r = t
    BY <2>1 DEF d
  <2>6. t.dm = d /\ t.pl = s.pl /\ t \in HandlerState
    <3>1. d \in [list : Seq(Dev), counter : Nat]
      BY <2>4 DEF WellFormed
    <3> QED
      BY <2>2, <3>1 DEF HandlerState
  <2> HIDE DEF t
  <2>7. OnlyCards(d.list)
    <3> DEFINE L == s.dm.list
               e == [node |-> n, logo |-> CardLogo(c), fmnt |-> o = "mounted",
                     valid |-> o = "mounted", stamp |-> s.dm.counter]
               u == Append(L, e)
    <3>1. CASE d = s.dm
      BY <3>1 DEF Sane
    <3>2. CASE d # s.dm
      <4>1. d.list = u /\ CardLogo(c) \in Registry
        BY <2>3, <3>2 DEF AddOne, AddResult
      <4>2. c \in Card /\ e.logo = CardLogo(c)
        BY <4>1 DEF Registry, CardLogo
      <4>3. L \in Seq(Dev) /\ u \in Seq(Dev) /\ Len(L) \in Nat /\ DOMAIN L = 1..Len(L)
        <5>1. L \in Seq(Dev) /\ u \in Seq(Dev)
          BY <2>2, <2>4, <4>1 DEF WellFormed
        <5> HIDE DEF u
        <5> QED
          BY <5>1, EntryTypes
      <4> HIDE DEF e
      <4>4. DOMAIN u = 1..(Len(L) + 1) /\ (\A j \in 1..Len(L) : u[j] = L[j]) /\ u[Len(L) + 1] = e
        BY <4>3
      <4> HIDE DEF u, L
      <4>5. \A j \in DOMAIN u : (j \in DOMAIN L /\ u[j] = L[j]) \/ u[j] = e
        BY <4>3, <4>4
      <4>6. OnlyCards(L)
        BY DEF Sane, L
      <4> QED
        BY <4>1, <4>2, <4>5, <4>6 DEF OnlyCards
    <3> QED
      BY <3>1, <3>2
  <2> QED
    BY <2>4, <2>5, <2>6, <2>7 DEF Sane, Handle, Playing
<1> QED
  BY <1>1, <1>2

(* The decoder and the handle are let go before their device is removed. *)
LEMMA StopForSane ==
  ASSUME NEW s, Sane(s), NEW c
  PROVE  LET t == StopFor(s, c) IN Sane(t) /\ (t.pl.dec \in {"wait", "play"} => t.pl.fsn # c)
<1>1. CASE DevCur(s) = {CardLogo(c)}
  <2> DEFINE a == Stop(s, TRUE)
  <2>1. Sane(a) /\ a.pl.dec = "none"
    BY StopSane
  <2> HIDE DEF a
  <2>2. Sane(Post(a, "start")) /\ Post(a, "start").pl = a.pl
    BY <2>1, PostSane DEF Posted
  <2> QED
    BY <1>1, <2>1, <2>2 DEF StopFor, a
<1>2. CASE DevCur(s) # {CardLogo(c)}
  <2>1. StopFor(s, c) = s
    BY <1>2 DEF StopFor
  <2>2. ASSUME s.pl.dec \in {"wait", "play"} PROVE s.pl.fsn # c
    <3> DEFINE L == s.dm.list
    <3>1. PICK i \in DOMAIN L : L[i].node = s.pl.dev /\ i \in Usable(L, TRUE)
      BY <2>2 DEF Sane, Playing, Best
    <3>2. L[i].logo = CardLogo(s.pl.fsn)
      BY <2>2, <3>1 DEF Sane, Playing, Handle
    <3>3. {j \in Usable(L, FALSE) : L[j].node = s.pl.dev} = {i}
      BY <3>1 DEF Sane, WellFormed, Once, Usable
    <3>4. DevCur(s) = {CardLogo(s.pl.fsn)}
      BY <3>2, <3>3 DEF DevCur, GetLogo
    <3> QED
      BY <1>2, <3>4
  <2> QED
    BY <2>1, <2>2
<1> QED
  BY <1>1, <1>2

-----------------------------------------------------------------------------
(* The queue                                                               *)

LEMMA DeviceEventsType ==
  ASSUME NEW m \in Seq(Message)
  PROVE  DeviceEvents(m) \in Seq(Message)
<1> DEFINE I == {i \in DOMAIN m : m[i][1] \in {"in", "out"}}
           at(k) == CHOOSE i \in I : Cardinality({j \in I : j <= i}) = k
<1>1. DOMAIN m = 1..Len(m) /\ Len(m) \in Nat
  OBVIOUS
<1>2. I \in SUBSET (1..Len(m))
  BY <1>1
<1>3. DeviceEvents(m) = [k \in 1..Cardinality(I) |-> m[at(k)]]
  BY DEF DeviceEvents
<1>4. I \subseteq DOMAIN m
  OBVIOUS
<1> HIDE DEF I
<1>5. ASSUME NEW k \in 1..Cardinality(I) PROVE m[at(k)] \in Message
  <2>1. \E i \in I : Cardinality({j \in I : j <= i}) = k
    BY <1>1, <1>2, KthPlace
  <2>2. at(k) \in I
    BY <2>1
  <2> HIDE DEF at
  <2> QED
    BY <1>4, <2>2
<1>6. Cardinality(I) \in Nat
  <2>1. IsFiniteSet(1..Len(m))
    BY <1>1, FS_Interval
  <2> QED
    BY <1>2, <2>1, FS_Subset, FS_CardinalityType
<1> HIDE DEF at
<1>7. [k \in 1..Cardinality(I) |-> m[at(k)]] \in [1..Cardinality(I) -> Message]
  BY <1>5
<1> QED
  BY <1>3, <1>6, <1>7

(* The head message is taken. *)
LEMMA NowSane ==
  ASSUME PlayerInv, q # <<>>
  PROVE  /\ Sane(Now) /\ Now.dm = dm /\ Now.pl = pl /\ Now.q = Tail(q)
         /\ (Parked(Scanned) => Parked(Now))
         /\ Tail(q) \in Seq(Message) /\ Head(q) \in Message
<1> DEFINE m == Tail(q)
           s == Scanned
<1>1. Sane(s) /\ s \in HandlerState /\ s.q = q /\ s.dm = dm /\ s.pl = pl
  BY DEF PlayerInv, Sane, Scanned
<1>2. q \in Seq(Message)
  BY <1>1, HandlerParts
<1>3. /\ m \in Seq(Message) /\ Head(q) \in Message
      /\ \A j \in DOMAIN m : j + 1 \in DOMAIN q /\ m[j] = q[j + 1]
  BY <1>2
<1>4. Late(q) => Late(m)
  BY <1>3 DEF Late
<1>5. Now = [s EXCEPT !.q = m]
  BY DEF Now, Scanned
<1> HIDE DEF m, s
<1>6. Sane([s EXCEPT !.q = m])
  BY <1>1, <1>3, <1>4, QueueSane
<1>7. Now.dm = dm /\ Now.pl = pl /\ Now.q = m
  BY DEF Now, m
<1> QED
  BY <1>1, <1>3, <1>5, <1>6, <1>7 DEF Parked, OnlineCheck, m, s

(* A message at the end of the queue. *)
LEMMA AppendType ==
  ASSUME NEW m \in Seq(Message), NEW e \in Message
  PROVE  /\ Append(m, e) \in Seq(Message)
         /\ (Late(m) /\ e[1] # "end" => Late(Append(m, e)))
<1> DEFINE r == Append(m, e)
<1>1. /\ r \in Seq(Message) /\ DOMAIN r = 1..(Len(m) + 1) /\ DOMAIN m = 1..Len(m)
      /\ (\A j \in 1..Len(m) : r[j] = m[j]) /\ r[Len(m) + 1] = e
  BY AppendEntries
<1>2. Len(m) \in Nat
  OBVIOUS
<1> HIDE DEF r
<1>3. \A j \in DOMAIN r : j \in DOMAIN m \/ j = Len(m) + 1
  BY <1>1, <1>2
<1>4. Late(m) /\ e[1] # "end" => Late(r)
  BY <1>1, <1>3 DEF Late
<1> QED
  BY <1>1, <1>4 DEF r

-----------------------------------------------------------------------------
(* The steps                                                               *)

LEMMA CameStays ==
  ASSUME PlayerInv, Came, Stays, mode = "music"
  PROVE  PlayerInv'
  BY DEF PlayerInv, Came, Stays

LEMMA FinishStays ==
  ASSUME PlayerInv, NEW results, \A r \in results : Fine(r), Finish(results), Stays, mode = "music"
  PROVE  PlayerInv'
<1>1. Came
  BY FinishCame
<1> QED
  BY <1>1, CameStays

(* A handler that only changes the state. *)
LEMMA BecomeStays ==
  ASSUME PlayerInv, NEW s, Sane(s), Become(s), pc # "get" => Parked(s) /\ s.pl = pl,
         UNCHANGED <<pc, cut>>, Stays, mode = "music"
  PROVE  PlayerInv'
<1>1. Sane(Scanned') /\ dm'.counter = Len(dm'.list) /\ (Parked(s) => Parked(Scanned'))
  BY BecomeSane
<1>2. /\ pc' = pc /\ cut' = cut /\ pc \in {"get", "scan", "look", "seek"} /\ cut \in BOOLEAN
      /\ pc \in {"look", "seek"} => pl.fsn # NoCard
  BY DEF PlayerInv
<1>3. pl' = s.pl
  BY DEF Become
<1>4. Came
  BY <1>1, <1>2, <1>3 DEF Came
<1> QED
  BY <1>4, CameStays

LEMMA NoPlayerType == NoPlayer \in Player /\ NoPlayer.dec = "none" /\ NoPlayer.fsn = NoCard
<1>1. 0 \in 0..Files
  BY PlayerAssumption
<1> QED
  BY <1>1 DEF NoPlayer, Player

(* Any list and queue go with the player as it is at the start. *)
LEMMA NoPlayerSane ==
  ASSUME NEW d, WellFormed(d), OnlyCards(d.list), NEW m \in Seq(Message)
  PROVE  Sane([dm |-> d, pl |-> NoPlayer, q |-> m])
<1> DEFINE s == [dm |-> d, pl |-> NoPlayer, q |-> m]
<1>1. s.dm = d /\ s.pl = NoPlayer /\ s.q = m
  OBVIOUS
<1>2. s \in HandlerState
  BY NoPlayerType DEF HandlerState, WellFormed
<1> HIDE DEF s
<1>3. Sane(s)
  BY <1>1, <1>2, NoPlayerType DEF Sane, Handle, Playing
<1> QED
  BY <1>3 DEF s

LEMMA LeaveStep == ASSUME PlayerInv, q # <<>>, Leave PROVE PlayerInv'
<1>1. Tail(q) \in Seq(Message)
  BY NowSane
<1>2. q' \in Seq(Message)
  BY <1>1, DeviceEventsType DEF Leave
<1>3. WellFormed(dm) /\ OnlyCards(dm.list) /\ dm' = dm /\ dm.counter = Len(dm.list)
  BY DEF PlayerInv, Sane, Scanned, Leave
<1>4. Scanned' = [dm |-> dm, pl |-> NoPlayer, q |-> q']
  BY <1>3 DEF Scanned, Leave
<1>5. Sane(Scanned')
  BY <1>2, <1>3, <1>4, NoPlayerSane
<1> QED
  BY <1>3, <1>5 DEF PlayerInv, Leave

(* The messages that come from outside the handlers. *)
LEMMA MessageComes ==
  ASSUME PlayerInv, NEW e \in Message, e[1] # "end", q' = Append(q, e),
         UNCHANGED <<dm, pl, pc, mode, cut>>, tone' \in BOOLEAN,
         socket' \in [Card -> Plugged \cup Absent], overtaken' \subseteq Card
  PROVE  PlayerInv'
<1> DEFINE s == Scanned
           m == Append(q, e)
<1>1. Sane(s) /\ s.q = q /\ s.dm = dm /\ s.pl = pl /\ s \in HandlerState
  BY DEF PlayerInv, Sane, Scanned
<1>2. m \in Seq(Message) /\ (Late(q) => Late(m))
  BY <1>1, HandlerParts, AppendType
<1>3. Scanned' = [s EXCEPT !.q = m]
  <2>1. dm' = dm /\ pl' = pl /\ q' = m
    OBVIOUS
  <2> HIDE DEF m
  <2> QED
    BY <2>1 DEF Scanned
<1> HIDE DEF s, m
<1>4. Sane([s EXCEPT !.q = m])
  BY <1>1, <1>2, QueueSane
<1>5. Scanned'.dm = dm /\ Scanned'.pl = pl
  BY DEF Scanned
<1>6. Parked(s) => Parked(Scanned')
  BY <1>1, <1>5 DEF Parked
<1>7. Sane(Scanned')
  BY <1>3, <1>4
<1> QED
  BY <1>6, <1>7 DEF PlayerInv, s

LEMMA StartStep == ASSUME PlayerInv, Start PROVE PlayerInv'
<1> DEFINE logo == GetLogo(dm.list, FindActive(dm.list, TRUE))
<1>1. mode = "music" /\ q # <<>> /\ Stays
  BY DEF Start, Takes
<1>2. Sane(Now) /\ Now.dm = dm /\ dm.list \in Seq(Dev)
  <2>1. Sane(Now) /\ Now.dm = dm
    BY <1>1, NowSane
  <2> QED
    BY <2>1 DEF Sane, WellFormed
<1>3. \/ Finish({<<Now, "null">>}) \/ PlayHere(Now)
      \/ \E l \in logo : PlayOn(Now, FindSpec(dm.list, l, TRUE))
  BY DEF Start
<1> HIDE DEF logo
<1>4. CASE Finish({<<Now, "null">>})
  <2> DEFINE R == {<<Now, "null">>}
  <2>1. \A r \in R : Fine(r)
    BY <1>2 DEF Fine, Errors
  <2>2. Finish(R)
    BY <1>4
  <2> HIDE DEF R
  <2> QED
    BY <1>1, <2>1, <2>2, FinishStays
<1>5. CASE PlayHere(Now)
  <2>1. Came
    BY <1>2, <1>5, PlayHereCame
  <2> QED
    BY <1>1, <2>1, CameStays
<1>6. CASE \E l \in logo : PlayOn(Now, FindSpec(dm.list, l, TRUE))
  <2>1. PICK l \in logo : PlayOn(Now, FindSpec(dm.list, l, TRUE))
    BY <1>6
  <2> DEFINE n == FindSpec(dm.list, l, TRUE)
  <2>2. FoundUsable(Now.dm.list, n, TRUE) /\ PlayOn(Now, n)
    BY <1>2, <2>1, FindSpecUsable
  <2> HIDE DEF n
  <2>3. Came
    BY <1>2, <2>2, PlayOnCame
  <2> QED
    BY <1>1, <2>3, CameStays
<1> QED
  BY <1>3, <1>4, <1>5, <1>6

LEMMA NextFileStep == ASSUME PlayerInv, NextFile PROVE PlayerInv'
<1>1. mode = "music" /\ q # <<>> /\ Stays /\ PlayHere(Now)
  BY DEF NextFile, Takes
<1>2. Came
  BY <1>1, NowSane, PlayHereCame
<1> QED
  BY <1>1, <1>2, CameStays

(* A read error counts only while its message is of the current start, and *)
(* then the decoder has stopped by itself.                                 *)
LEMMA EndStep == ASSUME PlayerInv, End PROVE PlayerInv'
<1> DEFINE read_err == Head(q)[2]
           cur == Head(q)[3]
           R == {<<Now, IF cur THEN "dev_read" ELSE "null">>}
<1>1. /\ mode = "music" /\ q # <<>> /\ Stays /\ Head(q)[1] = "end"
      /\ IF read_err THEN Finish(R) ELSE PlayHere(Now)
  BY DEF End, Takes
<1>2. Sane(Now) /\ Now.pl = pl /\ Sane(Scanned) /\ Scanned.pl = pl /\ Scanned.q = q
  BY <1>1, NowSane DEF PlayerInv, Scanned
<1>3. pl.dec \in {"wait", "play"} => cur = FALSE
  <2>1. q \in Seq(Message)
    BY <1>2, HandlerParts DEF Sane
  <2>2. 1 \in DOMAIN q /\ Head(q) = q[1]
    BY <1>1, <2>1
  <2> QED
    BY <1>1, <1>2, <2>2 DEF Sane, Playing, Late
<1>4. ASSUME NEW r \in R PROVE Fine(r)
  <2>1. r = <<Now, IF cur THEN "dev_read" ELSE "null">>
    BY <1>4
  <2> HIDE DEF cur
  <2> QED
    BY <1>2, <1>3, <2>1 DEF Fine, Errors
<1> HIDE DEF R
<1>5. CASE read_err
  BY <1>1, <1>4, <1>5, FinishStays
<1>6. CASE ~read_err
  <2>1. Came
    BY <1>1, <1>2, <1>6, PlayHereCame
  <2> QED
    BY <1>1, <2>1, CameStays
<1> QED
  BY <1>5, <1>6

LEMMA ChangeDevStep == ASSUME PlayerInv, ChangeDev PROVE PlayerInv'
<1> DEFINE n == FindNext(dm.list, pl.dev, TRUE)
<1>1. mode = "music" /\ q # <<>> /\ Stays
  BY DEF ChangeDev, Takes
<1>2. Sane(Now) /\ Now.dm = dm /\ dm.list \in Seq(Dev)
  <2>1. Sane(Now) /\ Now.dm = dm
    BY <1>1, NowSane
  <2> QED
    BY <2>1 DEF Sane, WellFormed
<1>3. Finish({<<Now, "null">>}) \/ PlayOn(Now, n)
  BY DEF ChangeDev
<1>4. FoundUsable(Now.dm.list, n, TRUE)
  BY <1>2, FindNextUsable
<1> HIDE DEF n
<1>5. CASE Finish({<<Now, "null">>})
  <2> DEFINE R == {<<Now, "null">>}
  <2>1. (\A r \in R : Fine(r)) /\ Finish(R)
    BY <1>2, <1>5 DEF Fine, Errors
  <2> HIDE DEF R
  <2> QED
    BY <1>1, <2>1, FinishStays
<1>6. CASE PlayOn(Now, n)
  <2>1. Came
    BY <1>2, <1>4, <1>6, PlayOnCame
  <2> QED
    BY <1>1, <2>1, CameStays
<1> QED
  BY <1>3, <1>5, <1>6

LEMMA ModeKeyStep == ASSUME PlayerInv, ModeKey PROVE PlayerInv'
<1>1. mode = "music" /\ q # <<>> /\ pc = "get"
  BY DEF ModeKey, Takes
<1>2. Sane(Now)
  BY <1>1, NowSane
<1>3. CASE Become(Post(Now, "change_dev")) /\ UNCHANGED <<pc, cut>> /\ Stays
  <2> DEFINE s == Post(Now, "change_dev")
  <2>1. Sane(s) /\ Become(s)
    BY <1>2, <1>3, PostSane DEF Posted
  <2> HIDE DEF s
  <2> QED
    BY <1>1, <1>3, <2>1, BecomeStays
<1>4. CASE Leave
  BY <1>1, <1>4, LeaveStep
<1>5. CASE Finish({<<Now, "null">>}) /\ Stays
  <2> DEFINE R == {<<Now, "null">>}
  <2>1. (\A r \in R : Fine(r)) /\ Finish(R)
    BY <1>2, <1>5 DEF Fine, Errors
  <2> HIDE DEF R
  <2> QED
    BY <1>1, <1>5, <2>1, FinishStays
<1> QED
  BY <1>3, <1>4, <1>5 DEF ModeKey

LEMMA DeviceInStep == ASSUME PlayerInv, DeviceIn PROVE PlayerInv'
<1> DEFINE a == Stop(Now, TRUE)
           b == Post(a, "start")
<1>1. /\ mode = "music" /\ q # <<>> /\ pc = "get" /\ Head(q)[1] = "in"
      /\ UNCHANGED <<pc, cut>> /\ Stays
  BY DEF DeviceIn, Takes
<1>2. PICK s \in Filtered(b, Head(q)) : Become(s)
  BY DEF DeviceIn
<1>3. Sane(a) /\ a.pl.dec = "none" /\ a.pl.fsn = NoCard
  BY <1>1, NowSane, StopSane
<1> HIDE DEF a
<1>4. Sane(b) /\ b.pl = a.pl
  BY <1>3, PostSane DEF Posted
<1> HIDE DEF b
<1>5. Sane(s)
  BY <1>1, <1>2, <1>3, <1>4, FilteredIn
<1> QED
  BY <1>1, <1>2, <1>5, BecomeStays

LEMMA DeviceOutStep == ASSUME PlayerInv, DeviceOut PROVE PlayerInv'
<1> DEFINE c == Head(q)[2]
           b == StopFor(Now, c)
<1>1. /\ mode = "music" /\ q # <<>> /\ pc = "get" /\ Head(q)[1] = "out"
      /\ UNCHANGED <<pc, cut>> /\ Stays
  BY DEF DeviceOut, Takes
<1>2. PICK s \in Filtered(b, Head(q)) : Become(s)
  BY DEF DeviceOut
<1>3. Sane(b) /\ (b.pl.dec \in {"wait", "play"} => b.pl.fsn # c)
  BY <1>1, NowSane, StopForSane
<1> HIDE DEF b
<1>4. Sane(s)
  BY <1>1, <1>2, <1>3, FilteredOut
<1> QED
  BY <1>1, <1>2, <1>4, BecomeStays

(* The scanned node is the one of a card. *)
LEMMA ScanOne ==
  ASSUME NEW s, Sane(s), Parked(s)
  PROVE  s.pl.dev # NoNode /\ \E c \in Card : DevCur(s) = {CardLogo(c)}
<1>1. PICK i \in Usable(s.dm.list, TRUE) : s.dm.list[i].node = s.pl.dev
  BY DEF Parked, OnlineCheck
<1>2. i \in Usable(s.dm.list, FALSE) /\ i \in DOMAIN s.dm.list
  BY <1>1 DEF Usable
<1>3. s.dm.list[i].node \in Node
  BY <1>2, EntryTypes DEF Sane, WellFormed
<1>4. \E c \in Card : DevCur(s) = {CardLogo(c)}
  BY <1>1, <1>2, CurOne
<1> QED
  BY <1>1, <1>3, <1>4, DevAssumption

LEMMA ScanCardFound ==
  ASSUME Sane(Now), Parked(Now)
  PROVE  ScanCard \in Card /\ DevCur(Now) = {CardLogo(ScanCard)}
<1>1. PICK c \in Card : DevCur(Now) = {CardLogo(c)}
  BY ScanOne
<1>2. ScanCard \in Card /\ CardLogo(ScanCard) \in DevCur(Now)
  BY <1>1 DEF ScanCard
<1> QED
  BY <1>1, <1>2

(* A message taken in a scan or a lookup: one that does not break it off   *)
(* leaves the scanned node in the list.                                    *)
LEMMA ScanTakesStep == ASSUME PlayerInv, ScanTakes PROVE PlayerInv'
<1> DEFINE m == Head(q)
<1>1. pc # "get" /\ q # <<>> /\ UNCHANGED <<mode, tone, socket>> /\ mode = "music"
  BY DEF ScanTakes, PlayerInv
<1>2. Sane(Now) /\ Parked(Now) /\ m \in Message /\ Now.pl = pl
  BY <1>1, NowSane DEF PlayerInv
<1>3. CASE /\ Become(ErrDeal([Now EXCEPT !.q = Append(@, m)], "broken"))
           /\ pc' = "get" /\ cut' = (m[1] = "mode") /\ overtaken' \subseteq Card
  <2> DEFINE r == Append(Now.q, m)
             s == [Now EXCEPT !.q = r]
  <2>1. Now \in HandlerState /\ Now.q \in Seq(Message) /\ Now.pl.dec = "none"
    BY <1>2, HandlerParts DEF Sane, Parked
  <2>2. r \in Seq(Message)
    BY <1>2, <2>1, AppendType
  <2>3. [Now EXCEPT !.q = Append(@, m)] = s
    OBVIOUS
  <2> HIDE DEF r
  <2>4. Sane(s)
    BY <1>2, <2>1, <2>2, QueueSane
  <2>5. Become(ErrDeal(s, "broken"))
    BY <1>3, <2>3
  <2> HIDE DEF s
  <2>6. Sane(ErrDeal(s, "broken"))
    BY <2>4, ErrDealSane DEF Errors
  <2>7. Sane(Scanned') /\ dm'.counter = Len(dm'.list)
    BY <2>5, <2>6, BecomeSane
  <2> QED
    BY <1>1, <1>3, <2>7 DEF PlayerInv
<1>4. CASE /\ ~Breaks(m) /\ m[1] = "out" /\ (\E s \in Filtered(Now, m) : Become(s))
           /\ UNCHANGED <<pc, cut, overtaken>>
  <2>1. PICK s \in Filtered(Now, m) : Become(s)
    BY <1>4
  <2>2. Now.pl.dec \notin {"wait", "play"}
    BY <1>2 DEF Parked
  <2>3. DevCur(Now) # {CardLogo(m[2])}
    <3>1. m = <<"out", m[2]>>
      BY <1>2, <1>4 DEF Message, Posted
    <3>2. m[2] # ScanCard
      BY <1>4, <3>1 DEF Breaks
    <3>3. DevCur(Now) = {CardLogo(ScanCard)}
      BY <1>2, ScanCardFound
    <3>4. CardLogo(m[2]) # CardLogo(ScanCard)
      BY <3>2 DEF CardLogo
    <3> QED
      BY Zenon, <3>3, <3>4
  <2>4. Sane(s) /\ Parked(s) /\ s.pl = pl
    BY <1>2, <1>4, <2>1, <2>2, <2>3, FilteredOut
  <2> QED
    BY <1>1, <1>4, <2>1, <2>4, BecomeStays DEF Stays
<1>5. CASE Become(Now) /\ UNCHANGED <<pc, cut, overtaken>>
  BY <1>1, <1>2, <1>5, BecomeStays DEF Stays
<1>6. overtaken \subseteq Card
  BY DEF PlayerInv
<1> QED
  BY <1>3, <1>4, <1>5, <1>6 DEF ScanTakes

(* The handle that a scan makes is of the card of the remembered node. *)
LEMMA ScanHandle ==
  ASSUME NEW s, Sane(s), Parked(s), NEW c \in Card, CardLogo(c) \in DevCur(s)
  PROVE  LET t == [s EXCEPT !.pl.fsn = c]
         IN  /\ Sane(t) /\ Parked(t) /\ t.pl.fsn = c /\ c # NoCard
             /\ t.pl.dev = s.pl.dev /\ t.dm = s.dm /\ t.q = s.q
<1> DEFINE L == s.dm.list
           p == [s.pl EXCEPT !.fsn = c]
           t == [s EXCEPT !.pl = p]
<1>1. s \in HandlerState /\ s.pl \in Player /\ Once(L)
  BY HandlerParts DEF Sane, WellFormed
<1>2. p \in Player /\ p.dec = "none" /\ p.fsn = c /\ p.dev = s.pl.dev
  BY <1>1 DEF Player, Parked
<1>3. [s EXCEPT !.pl.fsn = c] = t
  BY <1>1 DEF HandlerState, Player
<1> HIDE DEF p
<1>4. t \in HandlerState /\ t.dm = s.dm /\ t.pl = p /\ t.q = s.q
  BY <1>1, <1>2 DEF HandlerState
<1> HIDE DEF t
<1>5. PICK i \in Usable(L, FALSE) : L[i].node = s.pl.dev /\ L[i].logo = CardLogo(c)
  BY DEF DevCur, GetLogo
<1>6. \A j \in DOMAIN L : L[j].node = s.pl.dev => j = i
  BY <1>1, <1>5 DEF Once, Usable
<1>7. Sane(t)
  BY <1>2, <1>4, <1>5, <1>6 DEF Sane, Handle, Playing
<1> QED
  BY <1>2, <1>3, <1>4, <1>7, PlayerAssumption DEF Parked

LEMMA ScanEnds == ASSUME PlayerInv, ScanFinds \/ ScanFails PROVE PlayerInv'
<1> DEFINE s == Scanned
<1>1. pc = "scan" /\ Stays /\ mode = "music" /\ Sane(s) /\ Parked(s)
  BY DEF ScanFinds, ScanFails, PlayerInv
<1>2. CASE ScanFails
  <2> DEFINE R == {<<s, "fscan">>}
  <2>1. Finish(R)
    BY <1>2 DEF ScanFails
  <2> HIDE DEF s
  <2>2. \A r \in R : Fine(r)
    BY <1>1 DEF Fine, Errors, Parked
  <2> HIDE DEF R
  <2> QED
    BY <1>1, <2>1, <2>2, FinishStays
<1>3. CASE ScanFinds
  <2>1. PICK c \in Card : CardLogo(c) \in DevCur(s) /\ Become([s EXCEPT !.pl.fsn = c])
    BY <1>3 DEF ScanFinds
  <2> HIDE DEF s
  <2> DEFINE t == [s EXCEPT !.pl.fsn = c]
  <2>2. Sane(t) /\ Parked(t) /\ t.pl.fsn # NoCard /\ Become(t)
    BY <1>1, <2>1, ScanHandle
  <2> HIDE DEF t
  <2>3. /\ Sane(Scanned') /\ dm'.counter = Len(dm'.list) /\ pl' = t.pl /\ Parked(Scanned')
    BY <2>2, BecomeSane
  <2>4. pc' = "seek" /\ cut' = cut /\ cut \in BOOLEAN
    BY <1>3 DEF ScanFinds, PlayerInv
  <2>5. Came
    BY <2>2, <2>3, <2>4 DEF Came
  <2> QED
    BY <1>1, <2>5, CameStays
<1> QED
  BY <1>2, <1>3

LEMMA LookedUpStep == ASSUME PlayerInv, LookedUp PROVE PlayerInv'
<1> DEFINE s == Scanned
           miss == pc = "seek"
           R == SelectAndDecode(s, miss)
<1>1. /\ Stays /\ mode = "music" /\ Sane(s) /\ Parked(s) /\ s.pl.fsn # NoCard
      /\ Finish(R) /\ miss \in BOOLEAN
  BY DEF LookedUp, PlayerInv, Scanned
<1> HIDE DEF s, miss
<1>2. \A r \in R : Fine(r)
  BY <1>1, SelectAndDecodeFine DEF Parked
<1> HIDE DEF R
<1> QED
  BY <1>1, <1>2, FinishStays

LEMMA EnterStep == ASSUME PlayerInv, Enter PROVE PlayerInv'
<1> DEFINE first == FindSpec(dm.list, CardLogo(Preferred), FALSE)
           st == IF GetTotal(dm.list, TRUE) > 1 THEN SetActive(dm, first) ELSE dm
<1>1. WellFormed(dm) /\ OnlyCards(dm.list) /\ q \in Seq(Message) /\ pc = "get"
  BY HandlerParts DEF PlayerInv, Sane, Scanned, Enter
<1>2. WellFormed(st) /\ OnlyCards(st.list)
  <2>1. ~Check(dm.list, first) => SetActive(dm, first) = dm
    BY DEF SetActive
  <2>2. Check(dm.list, first) =>
          WellFormed(SetActive(dm, first)) /\ OnlyCards(SetActive(dm, first).list)
    <3> HIDE DEF first
    <3> QED
      BY <1>1, SetActiveStamps DEF OnlyCards
  <2> QED
    BY <1>1, <2>1, <2>2
<1>3. dm' = Ranked(st)
  BY DEF Enter
<1> HIDE DEF st
<1>4. WellFormed(dm') /\ OnlyCards(dm'.list) /\ dm'.counter = Len(dm'.list)
  BY <1>2, <1>3, RankedEntries DEF OnlyCards
<1>5. q' \in Seq(Message)
  <2>1. <<"start">> \in Message
    BY DEF Message, Posted
  <2> QED
    BY <1>1, <2>1, AppendType DEF Enter
<1>6. Scanned' = [dm |-> dm', pl |-> NoPlayer, q |-> q']
  BY DEF Scanned, Enter
<1>7. Sane(Scanned')
  BY <1>4, <1>5, <1>6, NoPlayerSane
<1> QED
  BY <1>1, <1>4, <1>7 DEF PlayerInv, Enter

LEMMA OtherModeStep == ASSUME PlayerInv, OtherMode PROVE PlayerInv'
<1>1. /\ q # <<>> /\ mode = "other" /\ pl = NoPlayer /\ pc = "get"
      /\ UNCHANGED <<pc, mode, tone, socket, cut, overtaken>>
  BY DEF OtherMode, PlayerInv
<1>2. Sane(Now) /\ Now.pl = NoPlayer
  BY <1>1, NowSane
<1>3. PICK s : Become(s) /\ Sane(s) /\ s.pl = NoPlayer
  <2>1. CASE Head(q)[1] \in {"in", "out"}
    <3>1. PICK s \in Filtered(Now, Head(q)) : Become(s)
      BY <2>1 DEF OtherMode
    <3>2. Now.pl.dec \notin {"wait", "play"} /\ Now.pl.fsn = NoCard
      BY <1>2, NoPlayerType
    <3>3. Head(q)[1] = "out" => Sane(s) /\ s.pl = NoPlayer
      BY <1>2, <3>1, <3>2, FilteredOut
    <3>4. Head(q)[1] # "out" => Sane(s) /\ s.pl = NoPlayer
      BY <1>2, <3>1, <3>2, FilteredIn
    <3> QED
      BY <3>1, <3>3, <3>4
  <2>2. CASE Head(q)[1] \notin {"in", "out"}
    BY <1>2, <2>2 DEF OtherMode
  <2> QED
    BY <2>1, <2>2
<1>4. Sane(Scanned') /\ dm'.counter = Len(dm'.list) /\ pl' = NoPlayer
  BY <1>3, BecomeSane
<1> QED
  BY <1>1, <1>4 DEF PlayerInv

(* The decoder by itself: it starts after its wait, or fails, or ends. *)
LEMMA DecoderMoves ==
  ASSUME PlayerInv, pl.dec \in {"wait", "play"}, NEW dec \in {"none", "play", "ended"},
         pl' = [pl EXCEPT !.dec = dec], q' \in Seq(Message), dec = "play" => q' = q,
         cut' \in BOOLEAN, UNCHANGED <<dm, pc, mode, tone, socket, overtaken>>
  PROVE  PlayerInv'
<1> DEFINE s == Scanned
           p == [pl EXCEPT !.dec = dec]
           t == [dm |-> dm, pl |-> p, q |-> q']
<1>1. Sane(s) /\ s.dm = dm /\ s.pl = pl /\ s.q = q /\ s \in HandlerState
  BY DEF PlayerInv, Sane, Scanned
<1>2. pl \in Player /\ WellFormed(dm)
  BY <1>1, HandlerParts DEF Sane
<1>3. p \in Player /\ p.dec = dec /\ p.fsn = pl.fsn /\ p.dev = pl.dev
  BY <1>2 DEF Player
<1>4. Scanned' = t /\ pl' = p
  BY DEF Scanned
<1>5. pc = "get" /\ mode # "other"
  BY <1>1, NoPlayerType DEF PlayerInv, Parked
<1> HIDE DEF p, s
<1>6. t.dm = dm /\ t.pl = p /\ t.q = q'
  OBVIOUS
<1>7. t \in HandlerState
  BY <1>2, <1>3 DEF HandlerState, WellFormed
<1> HIDE DEF t
<1>8. Sane(t)
  BY <1>1, <1>2, <1>3, <1>6, <1>7 DEF Sane, Handle, Playing
<1> QED
  BY <1>4, <1>5, <1>8 DEF PlayerInv

LEMMA TrackEndsStep == ASSUME PlayerInv, TrackEnds PROVE PlayerInv'
<1> DEFINE e == <<"end", socket[pl.fsn] \in Absent, TRUE>>
<1>1. /\ pl.dec = "play" /\ q' = Append(q, e) /\ pl' = [pl EXCEPT !.dec = "ended"]
      /\ UNCHANGED <<dm, pc, mode, tone, socket, cut, overtaken>>
  BY DEF TrackEnds
<1>2. q \in Seq(Message) /\ cut \in BOOLEAN
  BY HandlerParts DEF PlayerInv, Sane, Scanned
<1>3. e \in Message
  <2>1. (socket[pl.fsn] \in Absent) \in BOOLEAN
    OBVIOUS
  <2> QED
    BY <2>1 DEF Message
<1> HIDE DEF e
<1>4. q' \in Seq(Message)
  BY <1>1, <1>2, <1>3, AppendType
<1> QED
  BY <1>1, <1>2, <1>4, DecoderMoves

LEMMA WaitEndsStep == ASSUME PlayerInv, WaitEnds PROVE PlayerInv'
<1>1. q \in Seq(Message) /\ cut \in BOOLEAN
  BY HandlerParts DEF PlayerInv, Sane, Scanned
<1>2. PICK dec \in {"none", "play"} : pl' = [pl EXCEPT !.dec = dec]
  BY DEF WaitEnds
<1>3. cut' \in BOOLEAN
  BY <1>1 DEF WaitEnds
<1> QED
  BY <1>1, <1>2, <1>3, DecoderMoves DEF WaitEnds

LEMMA PlayerInvInitially == Init => PlayerInv
<1> SUFFICES ASSUME Init PROVE PlayerInv
  OBVIOUS
<1>1. dm = [list |-> <<>>, counter |-> 0] /\ pl = NoPlayer /\ q = <<>>
  BY DEF Init
<1>2. WellFormed(dm) /\ OnlyCards(dm.list)
  <2>1. dm.list = <<>> /\ dm.counter = 0 /\ dm \in [list : Seq(Dev), counter : Nat]
    BY <1>1
  <2>2. DOMAIN dm.list = {}
    BY <2>1
  <2> QED
    BY <2>1, <2>2 DEF WellFormed, OnlyCards, Once, Mounted, StampsBelow, StampsDiffer
<1>3. Sane(Scanned)
  <2>1. q \in Seq(Message) /\ Scanned = [dm |-> dm, pl |-> NoPlayer, q |-> q]
    BY <1>1 DEF Scanned
  <2> QED
    BY <1>2, <2>1, NoPlayerSane
<1>4. dm.counter = Len(dm.list)
  BY <1>1
<1>5. socket \in [Card -> Plugged \cup Absent] /\ overtaken = {}
  BY DEF Init, Absent
<1> QED
  BY <1>3, <1>4, <1>5 DEF PlayerInv, Init

LEMMA PlayerInvStep == PlayerInv /\ [Next]_playerVars => PlayerInv'
<1> SUFFICES ASSUME PlayerInv, [Next]_playerVars PROVE PlayerInv'
  OBVIOUS
<1>1. ASSUME Quit PROVE PlayerInv'
  BY <1>1, LeaveStep DEF Quit, Takes
<1>2. ASSUME ToneEnds PROVE PlayerInv'
  <2>1. <<"start">> \in Message /\ <<"start">>[1] # "end"
    BY DEF Message, Posted
  <2> QED
    BY <1>2, <2>1, MessageComes DEF ToneEnds, PlayerInv
<1>3. ASSUME NEW c \in Card, Plug(c) PROVE PlayerInv'
  <2>1. <<"in", c>> \in Message /\ <<"in", c>>[1] # "end"
    BY DEF Message
  <2>2. socket' \in [Card -> Plugged \cup Absent]
    BY <1>3 DEF Plug, PlayerInv
  <2> QED
    BY <1>3, <2>1, <2>2, MessageComes DEF Plug, PlayerInv
<1>4. ASSUME NEW c \in Card, Noticed(c) PROVE PlayerInv'
  <2>1. <<"out", c>> \in Message /\ <<"out", c>>[1] # "end"
    BY DEF Message
  <2>2. socket' \in [Card -> Plugged \cup Absent]
    BY <1>4 DEF Noticed, PlayerInv, Absent
  <2> QED
    BY <1>4, <2>1, <2>2, MessageComes DEF Noticed, PlayerInv
<1>5. ASSUME NEW c \in Card, Unplug(c) PROVE PlayerInv'
  <2>1. socket' \in [Card -> Plugged \cup Absent]
    BY <1>5 DEF Unplug, PlayerInv, Absent
  <2>2. UNCHANGED <<dm, pl, q, pc, mode, tone, cut, overtaken>>
    BY <1>5 DEF Unplug
  <2>3. Scanned' = Scanned
    BY <2>2 DEF Scanned
  <2> QED
    BY <2>1, <2>2, <2>3 DEF PlayerInv
<1>6. ASSUME NEW k \in Keys, Key(k) PROVE PlayerInv'
  <2>1. <<k>> \in Message /\ <<k>>[1] # "end"
    <3>1. k \in {"next", "mode"}
      BY PlayerAssumption
    <3> QED
      BY <3>1 DEF Message, Posted
  <2>2. socket' \in [Card -> Plugged \cup Absent]
    BY <1>6 DEF Key, PlayerInv
  <2> QED
    BY <1>6, <2>1, <2>2, MessageComes DEF Key, PlayerInv
<1>7. CASE UNCHANGED playerVars
  <2>1. Scanned' = Scanned
    BY <1>7 DEF playerVars, Scanned
  <2> QED
    BY <1>7, <2>1 DEF playerVars, PlayerInv
<1>8. ASSUME CoreStep PROVE PlayerInv'
  BY <1>1, <1>2, <1>8, StartStep, NextFileStep, EndStep, ChangeDevStep, ModeKeyStep, DeviceInStep,
     DeviceOutStep, ScanTakesStep, ScanEnds, LookedUpStep, OtherModeStep DEF CoreStep
<1> QED
  BY <1>3, <1>4, <1>5, <1>6, <1>7, <1>8, EnterStep, TrackEndsStep, WaitEndsStep DEF Next

(* The invariant holds, for all values of the constants. *)
THEOREM PlayerInvHolds == Spec => []PlayerInv
  BY PlayerInvInitially, PlayerInvStep, PTL DEF Spec

-----------------------------------------------------------------------------
(* The properties of the mode                                              *)

(* The state of the devices, the player and the queue has its type. *)
THEOREM PlayerTypeCorrect == Spec => []TypeOK
<1>1. PlayerInv => TypeOK
  <2> SUFFICES ASSUME PlayerInv PROVE TypeOK
    OBVIOUS
  <2>1. Scanned \in HandlerState /\ Scanned.dm = dm /\ Scanned.pl = pl /\ Scanned.q = q
    BY DEF PlayerInv, Sane, Scanned
  <2>2. dm.list \in Seq(Dev) /\ pl \in Player /\ q \in Seq(Message)
    BY <2>1, HandlerParts
  <2> QED
    BY <2>2 DEF PlayerInv, TypeOK
<1> QED
  BY <1>1, PlayerInvHolds, PTL

(* What is decoded comes from a node that is mounted and valid, whatever   *)
(* devices came and went and at whatever addresses (music.c:601).          *)
THEOREM DecodesMounted == Spec => []DecodesWhatIsMounted
<1>1. PlayerInv => DecodesWhatIsMounted
  BY DEF PlayerInv, Sane, Playing, Best, Scanned, DecodesWhatIsMounted, OnlineCheck,
         Decoding
<1> QED
  BY <1>1, PlayerInvHolds, PTL

(* A scan handle is of the card whose node the player remembers: an        *)
(* address in use again never meets an old handle (music_player.c:690).    *)
THEOREM HandleMatches == Spec => []HandleOfDevice
<1>1. PlayerInv => HandleOfDevice
  <2> SUFFICES ASSUME PlayerInv, pl.fsn # NoCard, OnlineCheck(dm.list, pl.dev, TRUE)
               PROVE  GetLogo(dm.list, pl.dev) = {CardLogo(pl.fsn)}
    BY DEF HandleOfDevice
  <2> DEFINE L == dm.list
             I == {j \in Usable(L, FALSE) : L[j].node = pl.dev}
  <2>1. Handle(Scanned) /\ Scanned.dm = dm /\ Scanned.pl = pl
    BY DEF PlayerInv, Sane, Scanned
  <2>2. \A i \in I : L[i].logo = CardLogo(pl.fsn)
    BY <2>1 DEF Handle, Usable
  <2>3. I # {}
    BY DEF OnlineCheck, Usable
  <2>4. GetLogo(dm.list, pl.dev) = {L[i].logo : i \in I}
    BY DEF GetLogo
  <2> HIDE DEF I
  <2> QED
    BY <2>2, <2>3, <2>4
<1> QED
  BY <1>1, PlayerInvHolds, PTL

(* The device that plays is the one START finds, through additions,        *)
(* removals and the renumbering of the stamps (music.c:393,                *)
(* dev_manager.c:408).                                                     *)
THEOREM PlayedFound == Spec => []PlayedIsActive
<1>1. PlayerInv => PlayedIsActive
  <2> SUFFICES ASSUME PlayerInv, pl.dec \in {"wait", "play"} PROVE FindActive(dm.list, TRUE) = pl.dev
    BY DEF PlayedIsActive, Decoding
  <2> DEFINE L == dm.list
             U == Usable(L, TRUE)
             I == {i \in U : \A j \in U : L[j].stamp <= L[i].stamp}
  <2>1. Playing(Scanned) /\ WellFormed(dm) /\ Scanned.dm = dm /\ Scanned.pl = pl
    BY DEF PlayerInv, Sane, Scanned
  <2>2. PICK i \in DOMAIN L : L[i].node = pl.dev /\ Best(L, i)
    BY <2>1 DEF Playing
  <2>3. L \in Seq(Dev) /\ StampsDiffer(L)
    BY <2>1 DEF WellFormed
  <2>4. \A j \in DOMAIN L : L[j].stamp \in Nat /\ j \in Nat
    BY <2>3, EntryTypes
  <2>5. I = {i}
    <3>1. i \in I /\ \A j \in I : j \in U /\ i \in U
      BY <2>2 DEF Best
    <3>2. \A j \in I : L[j].stamp = L[i].stamp
      BY <2>4, <3>1 DEF Usable
    <3> QED
      BY <2>3, <3>1, <3>2 DEF StampsDiffer, Usable
  <2>6. FindActive(dm.list, TRUE) = NodeAtLeast(L, I)
    BY DEF FindActive
  <2> HIDE DEF I
  <2>7. (CHOOSE x \in I : \A j \in I : x <= j) = i
    BY <2>4, <2>5
  <2> QED
    BY <2>2, <2>5, <2>6, <2>7 DEF NodeAtLeast
<1> QED
  BY <1>1, PlayerInvHolds, PTL

-----------------------------------------------------------------------------
(* The list and the sockets, through the last event of each card           *)

(* Event e is the last one of card c in the queue m. *)
LastIs(m, e, c) ==
  \E i \in DOMAIN m : m[i] = e /\ \A j \in DOMAIN m : m[j] \in EventOf(c) => j <= i
Quiet(m, c) == \A i \in DOMAIN m : m[i] \notin EventOf(c)

(* The last event of card c in the queue tells whether it is there: v is   *)
(* what its socket says.  When none is queued the list tells it.           *)
ToldOf(s, v, c) ==
  /\ LastIs(s.q, <<"in", c>>, c) => v # "out"
  /\ LastIs(s.q, <<"out", c>>, c) => v = "out"
  /\ Quiet(s.q, c) /\ v # "gone" => (ListCheckByLogo(s.dm.list, CardLogo(c)) <=> v # "out")

Told(s, at, over) == \A c \in Card \ over : ToldOf(s, at[c], c)

(* The same cards are in the lists s and t, and the queue n keeps the last *)
(* event of the card, or of each card, that is in the queue m.             *)
SameCards(s, t) ==
  \A c \in Card : ListCheckByLogo(s, CardLogo(c)) <=> ListCheckByLogo(t, CardLogo(c))
LastKept(m, n, c) ==
  /\ \A e \in EventOf(c) : LastIs(n, e, c) => LastIs(m, e, c)
  /\ Quiet(n, c) => Quiet(m, c)
SameEvents(m, n) == \A c \in Card : LastKept(m, n, c)
Tells(s, t) == SameCards(s.dm.list, t.dm.list) /\ SameEvents(s.q, t.q)

(* What is told of one card stays told. *)
LEMMA ToldOfOn ==
  ASSUME NEW s, NEW t, NEW v, NEW c, ToldOf(s, v, c), LastKept(s.q, t.q, c),
         ListCheckByLogo(s.dm.list, CardLogo(c)) <=> ListCheckByLogo(t.dm.list, CardLogo(c))
  PROVE  ToldOf(t, v, c)
<1>1. <<"in", c>> \in EventOf(c) /\ <<"out", c>> \in EventOf(c)
  BY DEF EventOf
<1> QED
  BY Zenon, <1>1 DEF ToldOf, LastKept

(* What is told stays told along steps that keep cards and events. *)
LEMMA TellsOn ==
  ASSUME NEW s, NEW t
  PROVE  /\ Tells(s, s)
         /\ \A u : Tells(s, t) /\ Tells(t, u) => Tells(s, u)
         /\ \A at, over : Told(s, at, over) /\ Tells(s, t) => Told(t, at, over)
<1>1. Tells(s, s)
  BY DEF Tells, SameCards, SameEvents, LastKept
<1>2. ASSUME NEW u, Tells(s, t), Tells(t, u) PROVE Tells(s, u)
  BY Zenon, <1>2 DEF Tells, SameCards, SameEvents, LastKept
<1>3. ASSUME NEW at, NEW over, Told(s, at, over), Tells(s, t) PROVE Told(t, at, over)
  BY <1>3, ToldOfOn DEF Told, Tells, SameCards, SameEvents
<1> QED
  BY <1>1, <1>2, <1>3

(* Lists with the same logos at the same places. *)
LEMMA LogosTell ==
  ASSUME NEW s, NEW t, DOMAIN t = DOMAIN s, \A i \in DOMAIN s : t[i].logo = s[i].logo
  PROVE  SameCards(s, t)
  BY DEF SameCards, ListCheckByLogo, Places

(* A message that is no device event changes none of them. *)
LEMMA NoEvent ==
  ASSUME NEW e, e[1] \notin {"in", "out"}
  PROVE  \A c : e \notin EventOf(c)
<1> SUFFICES ASSUME NEW c, e \in EventOf(c) PROVE FALSE
  OBVIOUS
<1>1. e = <<"in", c>> \/ e = <<"out", c>>
  BY DEF EventOf
<1>2. <<"in", c>>[1] = "in" /\ <<"out", c>>[1] = "out"
  OBVIOUS
<1> QED
  BY <1>1, <1>2

(* A message the mode posts to itself. *)
LEMMA AppendTells ==
  ASSUME NEW m \in Seq(Message), NEW e \in Message, e[1] \notin {"in", "out"}
  PROVE  SameEvents(m, Append(m, e))
<1> DEFINE r == Append(m, e)
<1>1. /\ DOMAIN r = 1..(Len(m) + 1) /\ DOMAIN m = 1..Len(m)
      /\ (\A j \in 1..Len(m) : r[j] = m[j]) /\ r[Len(m) + 1] = e
  BY AppendEntries
<1>2. Len(m) \in Nat
  OBVIOUS
<1> HIDE DEF r
<1>3. \A j \in DOMAIN r : (j \in DOMAIN m /\ r[j] = m[j]) \/ r[j] = e
  BY <1>1, <1>2
<1>4. \A j \in DOMAIN m : j \in DOMAIN r /\ r[j] = m[j]
  BY <1>1, <1>2
<1>5. \A c : e \notin EventOf(c)
  BY NoEvent
<1>6. ASSUME NEW c \in Card PROVE LastKept(m, r, c)
  <2>1. ASSUME NEW x \in EventOf(c), LastIs(r, x, c) PROVE LastIs(m, x, c)
    <3>1. PICK i \in DOMAIN r : r[i] = x /\ \A j \in DOMAIN r : r[j] \in EventOf(c) => j <= i
      BY <2>1 DEF LastIs
    <3>2. i \in DOMAIN m /\ m[i] = x
      BY <1>3, <1>5, <3>1
    <3> QED
      BY <1>4, <3>1, <3>2 DEF LastIs
  <2>2. Quiet(r, c) => Quiet(m, c)
    BY <1>4 DEF Quiet
  <2> QED
    BY <2>1, <2>2 DEF LastKept
<1> QED
  BY <1>6 DEF r, SameEvents

(* The head message is taken: what is behind it stays the last event. *)
LEMMA TailTells ==
  ASSUME NEW m \in Seq(Message), m # <<>>, NEW c
  PROVE  /\ \A e \in EventOf(c) : LastIs(Tail(m), e, c) => LastIs(m, e, c)
         /\ Head(m) \notin EventOf(c) => LastKept(m, Tail(m), c)
         /\ Head(m) \in EventOf(c) /\ Quiet(Tail(m), c) => LastIs(m, Head(m), c)
<1> DEFINE r == Tail(m)
           h == Head(m)
<1>1. /\ \A j \in DOMAIN r : j \in Int /\ j >= 1 /\ j + 1 \in DOMAIN m /\ r[j] = m[j + 1]
      /\ \A i \in DOMAIN m : i \in Int /\ (i = 1 \/ (i - 1 \in DOMAIN r /\ r[i - 1] = m[i]))
      /\ h = m[1] /\ 1 \in DOMAIN m
  OBVIOUS
<1> HIDE DEF r, h
<1>2. ASSUME NEW e \in EventOf(c), LastIs(r, e, c) PROVE LastIs(m, e, c)
  <2>1. PICK i \in DOMAIN r : r[i] = e /\ \A j \in DOMAIN r : r[j] \in EventOf(c) => j <= i
    BY <1>2 DEF LastIs
  <2>2. ASSUME NEW j \in DOMAIN m, m[j] \in EventOf(c) PROVE j <= i + 1
    <3>1. CASE j = 1
      BY <1>1, <3>1
    <3>2. CASE j - 1 \in DOMAIN r /\ r[j - 1] = m[j]
      <4>1. j - 1 <= i
        BY <2>1, <2>2, <3>2
      <4> QED
        BY <1>1, <4>1
    <3> QED
      BY <1>1, <3>1, <3>2
  <2> QED
    BY <1>1, <2>1, <2>2 DEF LastIs
<1>3. h \notin EventOf(c) /\ Quiet(r, c) => Quiet(m, c)
  BY <1>1 DEF Quiet
<1>4. ASSUME h \in EventOf(c), Quiet(r, c) PROVE LastIs(m, h, c)
  <2>1. ASSUME NEW j \in DOMAIN m, m[j] \in EventOf(c) PROVE j <= 1
    <3>1. j = 1
      BY <1>1, <1>4, <2>1 DEF Quiet
    <3> QED
      BY <3>1
  <2>2. 1 \in DOMAIN m /\ m[1] = h
    BY <1>1
  <2> QED
    BY <2>1, <2>2 DEF LastIs
<1> QED
  BY <1>2, <1>3, <1>4 DEF LastKept, r, h

(* The head message goes to the end of the queue: it stays the last event  *)
(* of its card unless there is a later one.                                *)
LEMMA RotateTells ==
  ASSUME NEW m \in Seq(Message), m # <<>>, NEW c,
         ~(Head(m) \in EventOf(c) /\ \E i \in DOMAIN m \ {1} : m[i] \in EventOf(c))
  PROVE  LastKept(m, Append(Tail(m), Head(m)), c)
<1> DEFINE t == Tail(m)
           e == Head(m)
           r == Append(t, e)
           n == Len(m)
<1>1. t \in Seq(Message) /\ e \in Message /\ Len(t) = n - 1 /\ n \in Nat \ {0} /\ DOMAIN m = 1..n
      /\ e = m[1] /\ \A j \in 1..(n - 1) : t[j] = m[j + 1]
  OBVIOUS
<1> HIDE DEF t, e
<1>2. DOMAIN r = 1..n /\ (\A j \in 1..(n - 1) : r[j] = m[j + 1]) /\ r[n] = e
  <2>1. /\ DOMAIN r = 1..(Len(t) + 1) /\ (\A j \in 1..Len(t) : r[j] = t[j])
        /\ r[Len(t) + 1] = e
    BY <1>1, AppendEntries
  <2> HIDE DEF r
  <2> QED
    BY <1>1, <2>1
<1> HIDE DEF r, n
<1>3. \A i \in DOMAIN m : i \in 1..n /\ (i = 1 \/ (i - 1 \in DOMAIN r /\ r[i - 1] = m[i]))
  BY <1>1, <1>2
<1>4. Quiet(r, c) => Quiet(m, c)
  <2>1. n \in DOMAIN r /\ r[n] = m[1]
    BY <1>1, <1>2
  <2> QED
    BY <1>3, <2>1 DEF Quiet
<1>5. ASSUME NEW x \in EventOf(c), LastIs(r, x, c) PROVE LastIs(m, x, c)
  <2>1. PICK i \in DOMAIN r : r[i] = x /\ \A j \in DOMAIN r : r[j] \in EventOf(c) => j <= i
    BY <1>5 DEF LastIs
  <2>2. CASE e \in EventOf(c)
    <3>1. \A j \in DOMAIN m : j # 1 => m[j] \notin EventOf(c)
      BY <2>2 DEF e
    <3>2. i = n
      <4>1. r[i] \in EventOf(c) /\ i \in 1..n /\ n \in Nat
        BY <1>1, <1>2, <1>5, <2>1
      <4>2. ASSUME i # n PROVE FALSE
        <5>1. i \in 1..(n - 1) /\ i + 1 \in DOMAIN m /\ i + 1 # 1
          BY <1>1, <4>1, <4>2
        <5>2. r[i] = m[i + 1]
          BY <1>2, <5>1
        <5> QED
          BY <3>1, <4>1, <5>1, <5>2
      <4> QED
        BY <4>2
    <3>3. 1 \in DOMAIN m /\ m[1] = x /\ \A j \in DOMAIN m : m[j] \in EventOf(c) => j <= 1
      BY <1>1, <1>2, <2>1, <3>1, <3>2
    <3> QED
      BY <3>3 DEF LastIs
  <2>3. CASE e \notin EventOf(c)
    <3>1. i \in 1..(n - 1) /\ m[i + 1] = x /\ i + 1 \in DOMAIN m
      BY <1>1, <1>2, <1>5, <2>1, <2>3
    <3>2. ASSUME NEW j \in DOMAIN m, m[j] \in EventOf(c) PROVE j <= i + 1
      <4>1. j # 1
        BY <1>1, <2>3, <3>2
      <4>2. j - 1 <= i
        BY <1>3, <2>1, <3>2, <4>1
      <4> QED
        BY <1>1, <3>1, <4>2
    <3> QED
      BY <3>1, <3>2 DEF LastIs
  <2> QED
    BY <2>2, <2>3
<1> QED
  BY <1>4, <1>5 DEF LastKept, r, t, e

(* When the key events are cleared, each device event stays.  The place of *)
(* an event among them is the number of events up to it.                   *)
LEMMA DeviceEventsTell ==
  ASSUME NEW m \in Seq(Message)
  PROVE  SameEvents(m, DeviceEvents(m))
<1> DEFINE I == {i \in DOMAIN m : m[i][1] \in {"in", "out"}}
           upTo(i) == {j \in I : j <= i}
           C(i) == Cardinality(upTo(i))
           at(k) == CHOOSE i \in I : C(i) = k
           r == [k \in 1..Cardinality(I) |-> m[at(k)]]
<1>1. DOMAIN m = 1..Len(m) /\ Len(m) \in Nat /\ I \in SUBSET (1..Len(m))
  OBVIOUS
<1>2. DeviceEvents(m) = r
  BY DEF DeviceEvents
<1>3. \A i \in DOMAIN m, c \in Card : m[i] \in EventOf(c) => i \in I
  <2>1. \A c \in Card : <<"in", c>>[1] = "in" /\ <<"out", c>>[1] = "out"
    OBVIOUS
  <2> QED
    BY <2>1 DEF EventOf
<1>4. I \subseteq DOMAIN m /\ \A i \in I : i \in Int
  BY <1>1
<1> HIDE DEF I
<1>5. IsFiniteSet(I) /\ Cardinality(I) \in Nat
  <2>1. IsFiniteSet(1..Len(m))
    BY <1>1, FS_Interval
  <2> QED
    BY <1>1, <2>1, FS_Subset, FS_CardinalityType
<1>6. ASSUME NEW i \in I
      PROVE  /\ upTo(i) \subseteq I /\ i \in upTo(i) /\ IsFiniteSet(upTo(i))
             /\ C(i) \in 1..Cardinality(I)
  <2>1. upTo(i) \in SUBSET I /\ i \in upTo(i)
    BY <1>4
  <2> HIDE DEF upTo
  <2>2. IsFiniteSet(upTo(i)) /\ C(i) <= Cardinality(I) /\ C(i) \in Nat
    BY <1>5, <2>1, FS_Subset, FS_CardinalityType
  <2>3. C(i) # 0
    BY <2>1, <2>2, FS_EmptySet
  <2> HIDE DEF C
  <2> QED
    BY <1>5, <2>1, <2>2, <2>3
<1>7. ASSUME NEW i \in I, NEW j \in I, i < j PROVE C(i) < C(j)
  <2>1. upTo(i) \in SUBSET upTo(j) /\ j \in upTo(j) /\ j \notin upTo(i)
    BY <1>4, <1>7
  <2>2. IsFiniteSet(upTo(j)) /\ C(i) \in Int /\ C(j) \in Int
    BY <1>5, <1>6
  <2> HIDE DEF upTo
  <2>3. C(i) <= C(j) /\ (C(i) = C(j) => upTo(i) = upTo(j))
    BY <2>1, <2>2, FS_Subset
  <2> HIDE DEF C
  <2> QED
    BY <2>1, <2>2, <2>3
<1>8. \A i \in I : C(i) \in 1..Cardinality(I)
  BY <1>6
<1>9. \A i, j \in I : (C(i) = C(j) => i = j) /\ (C(j) <= C(i) => j <= i)
  <2> HIDE DEF C
  <2>1. \A i \in I : C(i) \in Int
    BY <1>5, <1>8
  <2> QED
    BY <1>4, <1>7, <2>1
<1>10. ASSUME NEW k \in 1..Cardinality(I) PROVE at(k) \in I /\ C(at(k)) = k
  <2>1. \E i \in I : C(i) = k
    BY <1>1, KthPlace
  <2> HIDE DEF C
  <2> QED
    BY <2>1
<1> HIDE DEF C
<1>11. \A i \in I : at(C(i)) = i
  BY <1>9, <1>10, <1>8
<1> HIDE DEF at
<1>12. DOMAIN r = 1..Cardinality(I) /\ \A k \in DOMAIN r : r[k] = m[at(k)]
  OBVIOUS
<1> HIDE DEF r
<1>13. \A k \in DOMAIN r : at(k) \in DOMAIN m /\ r[k] = m[at(k)] /\ C(at(k)) = k
  BY <1>4, <1>10, <1>12
<1>14. \A i \in I : C(i) \in DOMAIN r /\ r[C(i)] = m[i]
  BY <1>8, <1>11, <1>12
<1>15. ASSUME NEW c \in Card PROVE LastKept(m, r, c)
  <2>1. ASSUME NEW x \in EventOf(c), LastIs(r, x, c) PROVE LastIs(m, x, c)
    <3>1. PICK k \in DOMAIN r : r[k] = x /\ \A j \in DOMAIN r : r[j] \in EventOf(c) => j <= k
      BY <2>1 DEF LastIs
    <3>2. at(k) \in I /\ m[at(k)] = x /\ C(at(k)) = k
      BY <1>3, <1>13, <2>1, <3>1
    <3>3. ASSUME NEW j \in DOMAIN m, m[j] \in EventOf(c) PROVE j <= at(k)
      <4>1. j \in I /\ C(j) \in DOMAIN r /\ r[C(j)] = m[j]
        BY <1>3, <1>14, <3>3
      <4>2. C(j) <= C(at(k))
        BY <3>1, <3>2, <3>3, <4>1
      <4> QED
        BY <1>9, <3>2, <4>1, <4>2
    <3> QED
      BY <1>4, <3>2, <3>3 DEF LastIs
  <2>2. Quiet(r, c) => Quiet(m, c)
    BY <1>3, <1>14 DEF Quiet
  <2> QED
    BY <2>1, <2>2 DEF LastKept
<1> QED
  BY <1>2, <1>15 DEF SameEvents

-----------------------------------------------------------------------------
(* What the handlers of the mode leave alone                               *)

(* The messages the mode posts to itself are no device events. *)
LEMMA PostTells ==
  ASSUME NEW s, Sane(s), NEW k \in Posted
  PROVE  Tells(s, Post(s, k))
<1>1. s \in HandlerState /\ s.q \in Seq(Message)
  BY HandlerParts DEF Sane
<1>2. <<k>> \in Message /\ <<k>>[1] \notin {"in", "out"}
  BY DEF Message, Posted
<1>3. SameEvents(s.q, Append(s.q, <<k>>))
  BY <1>1, <1>2, AppendTells
<1>4. Post(s, k).dm = s.dm /\ Post(s, k).q = Append(s.q, <<k>>)
  BY <1>1 DEF Post, HandlerState
<1> QED
  BY <1>3, <1>4 DEF Tells, SameCards

(* A list whose bits only have changed. *)
LEMMA MarkedTells ==
  ASSUME NEW s, Sane(s), NEW t, Marks(s.dm.list, t)
  PROVE  Tells(s, [s EXCEPT !.dm.list = t])
<1> DEFINE u == [s EXCEPT !.dm.list = t]
<1>1. s \in HandlerState /\ s.dm.list \in Seq(Dev)
  BY HandlerParts DEF Sane
<1>2. u.dm.list = t /\ u.q = s.q
  BY <1>1 DEF HandlerState
<1>3. DOMAIN t = DOMAIN s.dm.list /\ \A i \in DOMAIN t : t[i].logo = s.dm.list[i].logo
  <2>1. DOMAIN t = 1..Len(t) /\ DOMAIN s.dm.list = 1..Len(s.dm.list)
    BY <1>1 DEF Marks
  <2> QED
    BY <2>1 DEF Marks
<1> HIDE DEF u
<1>4. SameCards(s.dm.list, u.dm.list)
  BY <1>2, <1>3, LogosTell
<1> QED
  BY <1>2, <1>4 DEF Tells, SameEvents, LastKept, u

(* The count of failed files tells nothing. *)
LEMMA ErrsTells ==
  ASSUME NEW s, Sane(s), NEW k \in 0..Files
  PROVE  Tells(s, [s EXCEPT !.pl.errs = k])
<1>1. s \in HandlerState
  BY DEF Sane
<1>2. [s EXCEPT !.pl.errs = k].dm = s.dm /\ [s EXCEPT !.pl.errs = k].q = s.q
  BY <1>1 DEF HandlerState
<1> QED
  BY <1>2 DEF Tells, SameCards, SameEvents, LastKept

(* Nor does the message posted after a count of devices. *)
LEMMA PostByTotalTells ==
  ASSUME NEW s, Sane(s), NEW none \in Posted, NEW some \in Posted
  PROVE  Tells(s, PostByTotal(s, none, some))
  BY PostTells DEF PostByTotal

(* An invalid device stays in the list. *)
LEMMA DevInvalidTells ==
  ASSUME NEW s, Sane(s)
  PROVE  Tells(s, DevInvalid(s))
<1>1. s.dm.list \in Seq(Dev) /\ Mounted(s.dm.list)
  BY DEF Sane, WellFormed
<1>2. Marks(s.dm.list, SetValid(s.dm.list, s.pl.dev, FALSE))
  BY <1>1, SetValidMarks
<1> QED
  BY <1>2, MarkedTells DEF DevInvalid

(* So does an unmounted one. *)
LEMMA DevUnmountedTells ==
  ASSUME NEW s, Sane(s)
  PROVE  Tells(s, DevUnmounted(s))
<1> DEFINE c == (CHOOSE l \in DevCur(s) : TRUE)[1]
<1>1. s.dm.list \in Seq(Dev) /\ Mounted(s.dm.list)
  BY DEF Sane, WellFormed
<1> HIDE DEF c
<1>2. Marks(s.dm.list, UnmountDevice(s.dm.list, c))
  BY <1>1, UnmountDeviceMarks
<1>3. Tells(s, [s EXCEPT !.dm.list = UnmountDevice(s.dm.list, c)])
  BY <1>2, MarkedTells
<1> QED
  BY <1>3 DEF DevUnmounted, c

(* A file that does not play moves no card. *)
LEMMA DecodeFailedTells ==
  ASSUME NEW s, Sane(s), s.pl.dec \notin {"wait", "play"}
  PROVE  Tells(s, DecodeFailed(s))
<1>1. Files \in Nat /\ s.pl.errs \in 0..Files
  BY PlayerAssumption, HandlerParts DEF Sane
<1>2. CASE s.pl.errs < Files
  <2>1. s.pl.errs + 1 \in 0..Files
    BY <1>1, <1>2
  <2> DEFINE u == [s EXCEPT !.pl.errs = s.pl.errs + 1]
  <2>2. Sane(u) /\ Tells(s, u)
    BY <2>1, ErrsSane, ErrsTells
  <2>3. DecodeFailed(s) = Post(u, "next")
    BY <1>2 DEF DecodeFailed
  <2> HIDE DEF u
  <2>4. Tells(u, Post(u, "next"))
    BY <2>2, PostTells DEF Posted
  <2> QED
    BY <2>2, <2>3, <2>4, TellsOn
<1>3. CASE ~(s.pl.errs < Files)
  <2> DEFINE u == [s EXCEPT !.pl.errs = 0]
  <2>1. Sane(u) /\ u.pl.dec \notin {"wait", "play"} /\ Tells(s, u)
    <3>1. 0 \in 0..Files
      BY <1>1
    <3> QED
      BY <3>1, ErrsSane, ErrsTells
  <2>2. DecodeFailed(s) = PostByTotal(DevInvalid(u), "quit", "change_dev")
    BY <1>3 DEF DecodeFailed
  <2> HIDE DEF u
  <2>3. Sane(DevInvalid(u)) /\ Tells(u, DevInvalid(u))
    BY <2>1, DevInvalidSane, DevInvalidTells
  <2>4. Tells(DevInvalid(u), PostByTotal(DevInvalid(u), "quit", "change_dev"))
    BY <2>3, PostByTotalTells DEF Posted
  <2> QED
    BY <2>1, <2>2, <2>3, <2>4, TellsOn
<1> QED
  BY <1>2, <1>3

(* Nor does a device that is given up. *)
LEMMA DeviceLostTells ==
  ASSUME NEW s, Sane(s), s.pl.dec \notin {"wait", "play"}, NEW isScan \in BOOLEAN
  PROVE  Tells(s, DeviceLost(s, isScan))
<1> DEFINE t == IF ~CurOnline(s) THEN s ELSE IF isScan THEN DevInvalid(s) ELSE DevUnmounted(s)
<1>1. Sane(t) /\ Tells(s, t)
  BY DevInvalidSane, DevUnmountedSane, DevInvalidTells, DevUnmountedTells, TellsOn
<1>2. DeviceLost(s, isScan) = PostByTotal(t, "to_bt", "change_dev")
  BY DEF DeviceLost
<1> HIDE DEF t
<1>3. Tells(t, PostByTotal(t, "to_bt", "change_dev"))
  BY <1>1, PostByTotalTells DEF Posted
<1> QED
  BY <1>1, <1>2, <1>3, TellsOn

(* music_player_err_deal *)
LEMMA ErrDealTells ==
  ASSUME NEW s, Sane(s), NEW err \in Errors,
         s.pl.dec \in {"wait", "play"} => err \in {"null", "succ", "broken"}
  PROVE  Tells(s, ErrDeal(s, err))
<1> DEFINE z == [s EXCEPT !.pl.errs = 0]
           w == ErrDeal(s, err)
<1>1. Sane(z) /\ z.pl.dec = s.pl.dec /\ Tells(s, z) /\ Tells(s, s)
  <2>1. 0 \in 0..Files
    BY PlayerAssumption
  <2> QED
    BY <2>1, ErrsSane, ErrsTells, TellsOn
<1>2. w =
        CASE err = "null" -> s
          [] err \in {"succ", "broken"} -> z
          [] err = "no_ram" -> Post(z, "quit")
          [] err = "decode_fail" -> DecodeFailed(s)
          [] err = "dev_nofound" -> PostByTotal(z, "quit", "start")
          [] err \in {"fscan", "dev_read", "dev_offline"} -> DeviceLost(z, err = "fscan")
          [] err = "file_nofound" ->
               IF CurOnline(z) /\ z.pl.fsn # NoCard THEN Post(z, "first")
               ELSE PostByTotal(z, "quit", "change_dev")
  BY DEF ErrDeal
<1> HIDE DEF z, w
<1>3. err = "null" => w = s
  BY <1>2
<1>4. err \in {"succ", "broken"} => w = z
  BY <1>2
<1>5. err = "no_ram" => w = Post(z, "quit")
  BY <1>2
<1>6. err = "decode_fail" => w = DecodeFailed(s)
  BY <1>2
<1>7. err = "dev_nofound" => w = PostByTotal(z, "quit", "start")
  BY <1>2
<1>8. err \in {"fscan", "dev_read", "dev_offline"} => w = DeviceLost(z, err = "fscan")
  BY <1>2
<1>9. err = "file_nofound" => w \in {Post(z, "first"), PostByTotal(z, "quit", "change_dev")}
  BY <1>2
<1>10. /\ Tells(z, Post(z, "quit")) /\ Tells(z, Post(z, "first"))
       /\ Tells(z, PostByTotal(z, "quit", "start"))
       /\ Tells(z, PostByTotal(z, "quit", "change_dev"))
  BY <1>1, PostTells, PostByTotalTells DEF Posted
<1>11. err = "decode_fail" => Tells(s, DecodeFailed(s))
  BY DecodeFailedTells
<1>12. err \in {"fscan", "dev_read", "dev_offline"} => Tells(z, DeviceLost(z, err = "fscan"))
  <2>1. (err = "fscan") \in BOOLEAN
    OBVIOUS
  <2> QED
    BY <1>1, <2>1, DeviceLostTells
<1>13. Tells(s, w) \/ Tells(z, w)
  BY <1>1, <1>3, <1>4, <1>5, <1>6, <1>7, <1>8, <1>9, <1>10, <1>11, <1>12 DEF Errors
<1>14. Tells(s, w)
  BY <1>1, <1>13, TellsOn
<1> QED
  BY <1>14 DEF w

(* A new start only changes the marks of the end messages. *)
LEMMA AgedTells ==
  ASSUME NEW s, Sane(s)
  PROVE  Tells(s, Aged(s))
<1> DEFINE m == s.q
           r == [i \in DOMAIN m |-> IF m[i][1] = "end" THEN <<"end", m[i][2], FALSE>> ELSE m[i]]
<1>1. s \in HandlerState
  BY DEF Sane
<1>2. Aged(s).dm = s.dm /\ Aged(s).q = r
  BY <1>1 DEF Aged, HandlerState
<1>3. DOMAIN r = DOMAIN m /\ \A c \in Card : \A x \in EventOf(c), i \in DOMAIN m : r[i] = x <=> m[i] = x
  <2> SUFFICES ASSUME NEW c \in Card, NEW x \in EventOf(c), NEW i \in DOMAIN m
               PROVE  r[i] = x <=> m[i] = x
    OBVIOUS
  <2>1. x[1] \in {"in", "out"}
    BY DEF EventOf
  <2>2. m[i][1] = "end" => r[i][1] = "end"
    OBVIOUS
  <2>3. m[i][1] # "end" => r[i] = m[i]
    OBVIOUS
  <2> HIDE DEF r
  <2> QED
    BY <2>1, <2>2, <2>3
<1> HIDE DEF r
<1>4. SameEvents(m, r)
  <2> HIDE DEF m
  <2> QED
    BY <1>3 DEF SameEvents, LastKept, LastIs, Quiet
<1> QED
  BY <1>2, <1>4 DEF Tells, SameCards

(* dev_manager_set_active moves stamps only. *)
LEMMA SetActiveTells ==
  ASSUME NEW st, WellFormed(st), NEW n
  PROVE  SameCards(st.list, SetActive(st, n).list)
<1> DEFINE t == SetActive(st, n)
<1>1. CASE Check(st.list, n)
  <2>1. DOMAIN t.list = DOMAIN st.list /\ \A i \in DOMAIN st.list : t.list[i].logo = st.list[i].logo
    BY <1>1, SetActiveStamps
  <2> HIDE DEF t
  <2> QED
    BY <2>1, LogosTell DEF t
<1>2. CASE ~Check(st.list, n)
  BY <1>2 DEF SetActive, SameCards
<1> QED
  BY <1>1, <1>2

(* The start of the decoder moves no card. *)
LEMMA DecodesTells ==
  ASSUME NEW s, Sane(s), NEW how \in {"wait", "play"}
  PROVE  Tells(s, Decodes(s, how))
<1> DEFINE a == Aged(s)
<1>1. Sane(a) /\ Tells(s, a) /\ a \in HandlerState /\ WellFormed(a.dm) /\ a.pl = s.pl
  BY AgedSane, AgedTells DEF Sane
<1>2. Decodes(s, how) = [a EXCEPT !.pl.dec = how, !.dm = SetActive(a.dm, s.pl.dev)]
  BY DEF Decodes
<1> HIDE DEF a
<1>3. Decodes(s, how).dm = SetActive(a.dm, s.pl.dev) /\ Decodes(s, how).q = a.q
  BY <1>1, <1>2 DEF HandlerState
<1>4. Tells(a, Decodes(s, how))
  BY <1>1, <1>3, SetActiveTells DEF Tells, SameEvents, LastKept
<1> QED
  BY <1>1, <1>4, TellsOn

(* Nor does any result of a file selection. *)
LEMMA SelectAndDecodeTells ==
  ASSUME NEW s, Sane(s), NEW miss \in BOOLEAN, NEW r \in SelectAndDecode(s, miss)
  PROVE  Tells(s, r[1])
<1> DEFINE p == [s.pl EXCEPT !.file = TRUE]
           t == [s EXCEPT !.pl = p]
           open == [s EXCEPT !.pl.file = TRUE]
<1>1. s \in HandlerState /\ s.pl \in Player
  BY HandlerParts DEF Sane
<1>2. p \in Player /\ p.dec = s.pl.dec /\ p.fsn = s.pl.fsn /\ p.dev = s.pl.dev
  BY <1>1 DEF Player
<1>3. open = t /\ open.dm = s.dm /\ open.q = s.q
  BY <1>1 DEF HandlerState, Player
<1>4. r \in {<<s, "file_nofound">>, <<open, "no_ram">>, <<Aged(open), "decode_fail">>,
             <<Decodes(open, "play"), "succ">>, <<Decodes(open, "wait"), "succ">>}
  BY Zenon DEF SelectAndDecode
<1>5. r[1] \in {s, open, Aged(open), Decodes(open, "play"), Decodes(open, "wait")}
  <2> DEFINE A == Aged(open)
             D == Decodes(open, "play")
             W == Decodes(open, "wait")
  <2>1. r \in {<<s, "file_nofound">>, <<open, "no_ram">>, <<A, "decode_fail">>,
               <<D, "succ">>, <<W, "succ">>}
    BY <1>4
  <2> HIDE DEF A, D, W, open
  <2>2. r[1] \in {s, open, A, D, W}
    BY <2>1
  <2> QED
    BY <2>2 DEF A, D, W
<1> HIDE DEF p
<1>6. Sane(t)
  BY <1>2, PlayerSane
<1> HIDE DEF open, t
<1>7. Sane(open) /\ Tells(s, open)
  BY <1>3, <1>6 DEF Tells, SameCards, SameEvents, LastKept
<1>8. /\ Tells(open, Aged(open)) /\ Tells(open, Decodes(open, "play"))
      /\ Tells(open, Decodes(open, "wait")) /\ Tells(s, s)
  BY <1>7, AgedTells, DecodesTells, TellsOn
<1> QED
  BY <1>5, <1>7, <1>8, TellsOn

(* Nor does the end of the decoder. *)
LEMMA StopTells ==
  ASSUME NEW s, Sane(s), NEW release \in BOOLEAN
  PROVE  Tells(s, Stop(s, release))
<1>1. Stop(s, release).dm = s.dm /\ Stop(s, release).q = s.q
  BY StopSane
<1> QED
  BY <1>1 DEF Tells, SameCards, SameEvents, LastKept

(* What the handlers turn into. *)
LEMMA BecomeTells ==
  ASSUME NEW s, Sane(s), Become(s)
  PROVE  Tells(s, Scanned')
<1>1. WellFormed(s.dm) /\ dm' = Ranked(s.dm) /\ q' = s.q
  BY DEF Sane, Become
<1>2. Scanned'.dm = dm' /\ Scanned'.q = q'
  BY DEF Scanned
<1> DEFINE d == Ranked(s.dm)
<1>3. DOMAIN d.list = DOMAIN s.dm.list /\ \A i \in DOMAIN s.dm.list : d.list[i].logo = s.dm.list[i].logo
  BY <1>1, RankedEntries
<1>4. dm' = d
  BY <1>1
<1> HIDE DEF d
<1>5. SameCards(s.dm.list, d.list)
  BY <1>3, LogosTell
<1> QED
  BY <1>1, <1>2, <1>4, <1>5 DEF Tells, SameEvents, LastKept

(* Nor does what becomes of such a result. *)
LEMMA FinishTells ==
  ASSUME NEW s, NEW results, \A r \in results : Fine(r) /\ Tells(s, r[1]), Finish(results)
  PROVE  Tells(s, Scanned')
<1>1. PICK r \in results : Become(ErrDeal(r[1], r[2]))
  BY DEF Finish
<1> DEFINE a == r[1]
           err == r[2]
<1>2. /\ Sane(a) /\ err \in Errors /\ (a.pl.dec \in {"wait", "play"} => err \in {"null", "succ", "broken"})
      /\ Tells(s, a) /\ Become(ErrDeal(a, err))
  BY <1>1 DEF Fine
<1> HIDE DEF a, err
<1>3. Sane(ErrDeal(a, err)) /\ Tells(a, ErrDeal(a, err))
  BY <1>2, ErrDealSane, ErrDealTells
<1>4. Tells(ErrDeal(a, err), Scanned')
  BY <1>2, <1>3, BecomeTells
<1> QED
  BY Zenon, <1>2, <1>3, <1>4, TellsOn

(* Nor does another file of the current device. *)
LEMMA PlayHereTells ==
  ASSUME NEW s0, Sane(s0), PlayHere(s0)
  PROVE  Tells(s0, Scanned')
<1> DEFINE s == Stop(s0, FALSE)
<1>1. Sane(s) /\ s.pl.dec = "none" /\ Tells(s0, s)
  BY StopSane, StopTells
<1>2. (\E err \in {"dev_offline", "fscan"} : Finish({<<s, err>>})) \/ Become(s)
  BY DEF PlayHere
<1> HIDE DEF s
<1>3. ASSUME NEW err \in {"dev_offline", "fscan"}, Finish({<<s, err>>})
      PROVE  Tells(s0, Scanned')
  <2> DEFINE R == {<<s, err>>}
  <2>1. Finish(R) /\ \A r \in R : Fine(r) /\ Tells(s0, r[1])
    BY <1>1, <1>3 DEF Fine, Errors
  <2> HIDE DEF R
  <2> QED
    BY <2>1, FinishTells
<1>4. CASE Become(s)
  <2>1. Tells(s, Scanned')
    BY <1>1, <1>4, BecomeTells
  <2> QED
    BY Zenon, <1>1, <2>1, TellsOn
<1> QED
  BY <1>2, <1>3, <1>4

(* Nor does the choice of another device. *)
LEMMA PlayOnTells ==
  ASSUME NEW s0, Sane(s0), NEW n, FoundUsable(s0.dm.list, n, TRUE), PlayOn(s0, n)
  PROVE  Tells(s0, Scanned')
<1> DEFINE a == Stop(s0, TRUE)
           p == [a.pl EXCEPT !.dev = n]
           s == [a EXCEPT !.pl = p]
           L == s0.dm.list
<1>1. Sane(a) /\ a.dm = s0.dm /\ a.q = s0.q /\ a.pl.dec = "none" /\ a.pl.fsn = NoCard
  BY StopSane
<1>2. a \in HandlerState /\ a.pl \in Player /\ L \in Seq(Dev)
  BY <1>1, HandlerParts DEF Sane, WellFormed
<1>3. n \in Node \cup {NoNode}
  <2>1. n # NoNode => \E i \in Usable(L, TRUE) : L[i].node = n
    BY DEF FoundUsable
  <2>2. \A i \in DOMAIN L : L[i].node \in Node
    BY <1>2, EntryTypes
  <2> QED
    BY <2>1, <2>2 DEF Usable
<1>4. [a EXCEPT !.pl.dev = n] = s
  BY <1>2 DEF HandlerState, Player
<1>5. Finish({<<s, "dev_nofound">>}) \/ Become(s)
  <2> HIDE DEF a, s
  <2>1. LET t == [a EXCEPT !.pl.dev = n]
        IN  IF n = NoNode THEN Finish({<<t, "dev_nofound">>})
            ELSE Become(t) /\ pc' = "scan" /\ cut' = FALSE
    BY Zenon DEF PlayOn, a
  <2> QED
    BY Zenon, <1>4, <2>1
<1> HIDE DEF a
<1>6. p \in Player /\ p.dec = "none" /\ p.fsn = NoCard
  BY <1>1, <1>2, <1>3 DEF Player
<1> HIDE DEF p
<1>7. Sane(s) /\ s.dm = s0.dm /\ s.pl = p /\ s.q = s0.q
  <2>1. Sane(s)
    BY <1>1, <1>6, PlayerSane
  <2> QED
    BY <1>1, <1>2, <2>1 DEF HandlerState
<1> HIDE DEF s
<1>8. Tells(s0, s)
  BY <1>7 DEF Tells, SameCards, SameEvents, LastKept
<1>9. CASE Finish({<<s, "dev_nofound">>})
  <2> DEFINE R == {<<s, "dev_nofound">>}
  <2>1. Finish(R) /\ \A r \in R : Fine(r) /\ Tells(s0, r[1])
    BY <1>6, <1>7, <1>8, <1>9 DEF Fine, Errors
  <2> HIDE DEF R
  <2> QED
    BY <2>1, FinishTells
<1>10. CASE Become(s)
  <2>1. Tells(s, Scanned')
    BY <1>7, <1>10, BecomeTells
  <2> QED
    BY Zenon, <1>8, <2>1, TellsOn
<1> QED
  BY <1>5, <1>9, <1>10

-----------------------------------------------------------------------------
(* Device events and the list                                              *)

(* dev_status_event_filter: after an event of a card the list agrees with  *)
(* it, unless the card has gone meanwhile, and says the same of the others *)
(* as before.                                                              *)
LEMMA FilteredTells ==
  ASSUME NEW s, Sane(s), NEW m \in Message, m[1] \in {"in", "out"}, NEW r \in Filtered(s, m)
  PROVE  /\ r.q = s.q
         /\ m[1] = "out" => ~ListCheckByLogo(r.dm.list, CardLogo(m[2]))
         /\ m[1] = "in" /\ socket[m[2]] \notin Absent =>
              ListCheckByLogo(r.dm.list, CardLogo(m[2]))
         /\ \A c \in Card \ {m[2]} :
              ListCheckByLogo(r.dm.list, CardLogo(c)) <=> ListCheckByLogo(s.dm.list, CardLogo(c))
<1> DEFINE c == m[2]
           L == s.dm.list
<1>1. s \in HandlerState /\ WellFormed(s.dm) /\ L \in Seq(Dev)
  BY DEF Sane, WellFormed
<1>2. c \in Card
  <2>1. m \in {"in", "out"} \X Card
    BY DEF Message, Posted
  <2> QED
    BY <2>1
<1>3. CASE m[1] = "out"
  <2> DEFINE d == DelDevice(s.dm, c)
  <2>1. r = [s EXCEPT !.dm = d]
    BY <1>3 DEF Filtered
  <2>2. ~ListCheckByLogo(d.list, CardLogo(c)) /\ Thinned(L, d.list, {CardLogo(c), RecLogo(c)})
    <3>1. Follows(L, s.dm.counter, s.dm) /\ s.dm.counter \in Nat
      BY <1>1, FollowsItself DEF WellFormed
    <3> QED
      BY <3>1, DelDeviceFollows
  <2> HIDE DEF d
  <2>3. r.q = s.q /\ r.dm = d
    BY <1>1, <2>1 DEF HandlerState
  <2>4. ASSUME NEW x \in Card \ {c}
        PROVE  ListCheckByLogo(d.list, CardLogo(x)) <=> ListCheckByLogo(L, CardLogo(x))
    <3>1. CardLogo(x) \notin {CardLogo(c), RecLogo(c)}
      BY <2>4 DEF CardLogo, RecLogo
    <3> HIDE DEF L
    <3> QED
      BY <2>2, <3>1 DEF Thinned, ListCheckByLogo, Places
  <2> QED
    BY <1>3, <2>2, <2>3, <2>4
<1> DEFINE kept == ListCheckByLogo(L, CardLogo(c)) \/ (c \in Usb /\ socket[c] \in Absent)
<1>4. CASE m[1] = "in" /\ kept
  <2>1. r = s
    BY <1>4 DEF Filtered
  <2> QED
    BY <1>4, <2>1
<1>5. CASE m[1] = "in" /\ ~kept
  <2>1. MountOf(c) \in {"mounted", "no_fs"}
    BY DEF MountOf
  <2>2. PICK n \in Node \ Nodes(L) :
          r = [s EXCEPT !.dm = AddDevice(@, c, n, NoNode, MountOf(c), "no_mem")]
    BY <1>5 DEF Filtered
  <2> DEFINE mount == MountOf(c)
             d == AddDevice(s.dm, c, n, NoNode, mount, "no_mem")
  <2>3. mount \in {"mounted", "no_fs"}
    BY <2>1
  <2>4. r.q = s.q /\ r.dm = d
    BY <1>1, <2>2 DEF HandlerState
  <2> HIDE DEF mount
  <2>5. PICK o \in {"mounted", "no_fs"} : d = AddOne(s.dm, n, CardLogo(c), o)
    <3> DEFINE x == AddResult(s.dm, RecLogo(c), "no_mem")
    <3>1. x \in {"not_found", "in_list", "no_mem"}
      BY DEF AddResult
    <3>2. AddOne(s.dm, NoNode, RecLogo(c), "no_mem") = s.dm
      BY <3>1 DEF AddOne
    <3>3. x # "mounted"
      BY <3>1
    <3>4. d \in {AddOne(s.dm, n, CardLogo(c), mount),
                 AddOne(AddOne(s.dm, NoNode, RecLogo(c), "no_mem"), n, CardLogo(c), "no_fs")}
      BY <2>3, <3>3 DEF AddDevice
    <3> QED
      BY Zenon, <2>3, <3>2, <3>4
  <2>6. CardLogo(c) \in Registry /\ CardLogo(c) \in Logo
    BY <1>2 DEF Registry, CardLogo, Logo
  <2> HIDE DEF d
  <2> DEFINE e == [node |-> n, logo |-> CardLogo(c), fmnt |-> o = "mounted",
                   valid |-> o = "mounted", stamp |-> s.dm.counter]
  <2>7. d.list = IF ListCheckByLogo(L, CardLogo(c)) THEN L ELSE Append(L, e)
    BY <2>5, <2>6 DEF AddOne, AddResult
  <2>8. e \in Dev /\ e.logo = CardLogo(c)
    <3>1. (o = "mounted") \in BOOLEAN
      OBVIOUS
    <3> QED
      BY <1>1, <2>6, <3>1 DEF Dev, WellFormed
  <2> HIDE DEF e
  <2> DEFINE u == Append(L, e)
  <2>9. /\ DOMAIN u = 1..(Len(L) + 1) /\ DOMAIN L = 1..Len(L) /\ Len(L) \in Nat
        /\ (\A j \in 1..Len(L) : u[j] = L[j]) /\ u[Len(L) + 1] = e
    BY <1>1, <2>8, AppendEntries, EntryTypes
  <2>10. r.dm.list = u
    BY <1>5, <2>4, <2>7
  <2> HIDE DEF u, L
  <2>11. /\ \A j \in DOMAIN L : j \in DOMAIN u /\ u[j] = L[j]
         /\ \A j \in DOMAIN u : j \in DOMAIN L \/ u[j] = e
         /\ Len(L) + 1 \in DOMAIN u
    BY <2>9
  <2>12. ListCheckByLogo(u, CardLogo(c))
    BY <2>8, <2>9, <2>11 DEF ListCheckByLogo, Places
  <2>13. ASSUME NEW x \in Card \ {c}
         PROVE  ListCheckByLogo(u, CardLogo(x)) <=> ListCheckByLogo(L, CardLogo(x))
    <3>1. CardLogo(x) # CardLogo(c)
      BY <2>13 DEF CardLogo
    <3> QED
      BY <2>8, <2>11, <3>1 DEF ListCheckByLogo, Places
  <2> QED
    BY <1>5, <2>4, <2>10, <2>12, <2>13 DEF L
<1> QED
  BY <1>3, <1>4, <1>5

(* The event of a card is taken: a later one tells where the card is, or   *)
(* else the list.                                                          *)
LEMMA EventStep ==
  ASSUME PlayerInv, Told(Scanned, socket, overtaken), q # <<>>, Head(q)[1] \in {"in", "out"},
         NEW b, Sane(b), Tells(Now, b), NEW s \in Filtered(b, Head(q)), Sane(s), Become(s),
         socket' = socket
  PROVE  Told(Scanned', socket', overtaken)
<1> DEFINE m == Head(q)
           c == m[2]
           t == Tail(q)
<1>1. /\ q \in Seq(Message) /\ m \in Message /\ t \in Seq(Message)
      /\ Now.dm = dm /\ Now.q = t /\ Scanned.dm = dm /\ Scanned.q = q
      /\ socket \in [Card -> Plugged \cup Absent]
  <2>1. Scanned \in HandlerState /\ Scanned.q = q /\ Scanned.dm = dm
    BY DEF PlayerInv, Sane, Scanned
  <2> QED
    BY <2>1, NowSane, HandlerParts DEF PlayerInv
<1>2. c \in Card /\ m = <<m[1], c>> /\ m \in EventOf(c) /\ m[1] \in {"in", "out"}
  <2>1. m \in {"in", "out"} \X Card
    BY <1>1 DEF Message, Posted
  <2> HIDE DEF m
  <2> QED
    BY <2>1 DEF EventOf
<1>3. \A x : /\ \A e \in EventOf(x) : LastIs(t, e, x) => LastIs(q, e, x)
             /\ m \notin EventOf(x) => LastKept(q, t, x)
             /\ m \in EventOf(x) /\ Quiet(t, x) => LastIs(q, m, x)
  BY <1>1, TailTells
<1>4. /\ s.q = b.q
      /\ m[1] = "out" => ~ListCheckByLogo(s.dm.list, CardLogo(c))
      /\ m[1] = "in" /\ socket[c] \notin Absent => ListCheckByLogo(s.dm.list, CardLogo(c))
      /\ \A x \in Card \ {c} :
           ListCheckByLogo(s.dm.list, CardLogo(x)) <=> ListCheckByLogo(b.dm.list, CardLogo(x))
  BY <1>1, FilteredTells
<1> HIDE DEF m, t
<1>5. SameCards(dm.list, b.dm.list) /\ SameEvents(t, s.q)
  BY <1>1, <1>4 DEF Tells
<1>6. Told(s, socket, overtaken)
  <2> SUFFICES ASSUME NEW x \in Card \ overtaken PROVE ToldOf(s, socket[x], x)
    BY DEF Told
  <2>1. ToldOf(Scanned, socket[x], x) /\ LastKept(t, s.q, x)
    BY <1>5 DEF Told, SameEvents
  <2>2. CASE x # c
    <3>1. LastKept(q, t, x)
      <4>1. m \notin EventOf(x)
        BY <1>2, <2>2 DEF EventOf
      <4> QED
        BY <1>3, <4>1
    <3>2. LastKept(Scanned.q, s.q, x)
      BY Zenon, <1>1, <2>1, <3>1 DEF LastKept
    <3>3. ListCheckByLogo(Scanned.dm.list, CardLogo(x)) <=> ListCheckByLogo(s.dm.list, CardLogo(x))
      BY <1>1, <1>4, <1>5, <2>2 DEF SameCards
    <3> QED
      BY <2>1, <3>2, <3>3, ToldOfOn
  <2>3. CASE x = c
    <3>1. \A e \in EventOf(c) : LastIs(s.q, e, c) => LastIs(q, e, c)
      BY <1>3, <2>1, <2>3 DEF LastKept
    <3>2. /\ LastIs(q, <<"in", c>>, c) => socket[c] # "out"
          /\ LastIs(q, <<"out", c>>, c) => socket[c] = "out"
      BY Zenon, <1>1, <2>1, <2>3 DEF ToldOf
    <3>3. ASSUME Quiet(s.q, c), socket[c] # "gone"
          PROVE  ListCheckByLogo(s.dm.list, CardLogo(c)) <=> socket[c] # "out"
      <4>1. LastIs(q, m, c)
        BY <1>2, <1>3, <2>1, <2>3, <3>3 DEF LastKept
      <4>2. CASE m[1] = "in"
        <5>1. socket[c] # "out"
          BY Zenon, <1>2, <3>2, <4>1, <4>2
        <5>2. socket[c] \notin Absent
          BY <3>3, <5>1 DEF Absent
        <5> QED
          BY <1>4, <4>2, <5>1, <5>2
      <4>3. CASE m[1] = "out"
        <5>1. socket[c] = "out"
          BY Zenon, <1>2, <3>2, <4>1, <4>3
        <5> QED
          BY <1>4, <4>3, <5>1
      <4> QED
        BY <1>2, <4>2, <4>3
    <3>4. <<"in", c>> \in EventOf(c) /\ <<"out", c>> \in EventOf(c)
      BY DEF EventOf
    <3> QED
      BY Zenon, <2>3, <3>1, <3>2, <3>3, <3>4 DEF ToldOf
  <2> QED
    BY <2>2, <2>3
<1>7. Tells(s, Scanned')
  BY BecomeTells
<1> QED
  BY <1>6, <1>7, TellsOn

(* A handler that takes another message and leaves list and events alone. *)
LEMMA TakenTold ==
  ASSUME PlayerInv, Told(Scanned, socket, overtaken), q # <<>>, Head(q)[1] \notin {"in", "out"},
         Tells(Now, Scanned'), socket' = socket
  PROVE  Told(Scanned', socket', overtaken)
<1>1. q \in Seq(Message) /\ Now.dm = dm /\ Now.q = Tail(q) /\ Scanned.dm = dm /\ Scanned.q = q
  <2>1. Scanned \in HandlerState /\ Scanned.q = q /\ Scanned.dm = dm
    BY DEF PlayerInv, Sane, Scanned
  <2> QED
    BY <2>1, NowSane, HandlerParts
<1>2. SameEvents(q, Tail(q))
  <2>1. \A c : Head(q) \notin EventOf(c)
    BY NoEvent
  <2> QED
    BY <1>1, <2>1, TailTells DEF SameEvents
<1>3. Tells(Scanned, Now)
  BY <1>1, <1>2 DEF Tells, SameCards
<1> QED
  BY <1>3, TellsOn

(* The handlers of the mode's own messages and of keys. *)
LEMMA HandlersTold ==
  ASSUME PlayerInv, Told(Scanned, socket, overtaken), Start \/ NextFile \/ End \/ ChangeDev \/ Quit \/ ModeKey
  PROVE  Told(Scanned', socket', overtaken')
<1>1. q # <<>> /\ Head(q)[1] \notin {"in", "out"} /\ socket' = socket
      /\ overtaken' = overtaken
  BY DEF Start, NextFile, End, ChangeDev, Quit, ModeKey, Takes, Stays, Leave
<1>2. Sane(Now) /\ Now.dm = dm /\ Now.q = Tail(q) /\ Tail(q) \in Seq(Message) /\ dm.list \in Seq(Dev)
  <2>1. Sane(Now) /\ Now.dm = dm /\ Now.q = Tail(q) /\ Tail(q) \in Seq(Message)
    BY <1>1, NowSane
  <2> QED
    BY <2>1 DEF Sane, WellFormed
<1>3. ASSUME NEW err \in {"null", "dev_read"}, Finish({<<Now, err>>}), err # "null" => pl.dec \notin {"wait", "play"}
      PROVE  Tells(Now, Scanned')
  <2> DEFINE R == {<<Now, err>>}
  <2>1. Now.pl = pl
    BY DEF Now
  <2>2. Finish(R) /\ \A r \in R : Fine(r) /\ Tells(Now, r[1])
    BY <1>2, <1>3, <2>1, TellsOn DEF Fine, Errors
  <2> HIDE DEF R
  <2> QED
    BY <2>2, FinishTells
<1>4. ASSUME PlayHere(Now) PROVE Tells(Now, Scanned')
  BY <1>2, <1>4, PlayHereTells
<1>5. ASSUME Leave PROVE Tells(Now, Scanned')
  <2>1. SameEvents(Tail(q), q')
    <3>1. SameEvents(Tail(q), Tail(q))
      BY DEF SameEvents, LastKept
    <3> QED
      BY <1>2, <1>5, <3>1, DeviceEventsTell DEF Leave
  <2>2. Scanned'.dm = dm /\ Scanned'.q = q'
    BY <1>5 DEF Leave, Scanned
  <2> QED
    BY <1>2, <2>1, <2>2 DEF Tells, SameCards
<1>6. CASE Start
  <2> DEFINE logo == GetLogo(dm.list, FindActive(dm.list, TRUE))
  <2>1. \/ Finish({<<Now, "null">>}) \/ PlayHere(Now)
        \/ \E l \in logo : PlayOn(Now, FindSpec(dm.list, l, TRUE))
    BY <1>6 DEF Start
  <2> HIDE DEF logo
  <2>2. ASSUME NEW l \in logo, PlayOn(Now, FindSpec(dm.list, l, TRUE))
        PROVE  Tells(Now, Scanned')
    <3> DEFINE n == FindSpec(dm.list, l, TRUE)
    <3>1. FoundUsable(Now.dm.list, n, TRUE) /\ PlayOn(Now, n)
      BY <1>2, <2>2, FindSpecUsable
    <3> HIDE DEF n
    <3> QED
      BY <1>2, <3>1, PlayOnTells
  <2>3. Tells(Now, Scanned')
    BY <1>3, <1>4, <2>1, <2>2
  <2> QED
    BY <1>1, <2>3, TakenTold
<1>7. CASE NextFile
  <2>1. Tells(Now, Scanned')
    BY <1>4, <1>7 DEF NextFile
  <2> QED
    BY <1>1, <2>1, TakenTold
<1>8. CASE End
  <2>1. /\ IF Head(q)[2] THEN Finish({<<Now, IF Head(q)[3] THEN "dev_read" ELSE "null">>})
                         ELSE PlayHere(Now)
        /\ Head(q)[1] = "end"
    BY <1>8 DEF End, Takes
  <2>2. Sane(Scanned) /\ Scanned.pl = pl /\ Scanned.q = q
    BY DEF PlayerInv, Scanned
  <2>3. Head(q)[3] => pl.dec \notin {"wait", "play"}
    <3>1. q \in Seq(Message)
      BY <2>2, HandlerParts DEF Sane
    <3>2. 1 \in DOMAIN q /\ Head(q) = q[1]
      BY <1>1, <3>1
    <3> QED
      BY <2>1, <2>2, <3>2 DEF Sane, Playing, Late
  <2>4. CASE ~Head(q)[2]
    <3>1. PlayHere(Now)
      BY Zenon, <2>1, <2>4
    <3>2. Tells(Now, Scanned')
      BY <1>4, <3>1
    <3> QED
      BY <1>1, <3>2, TakenTold
  <2>5. CASE Head(q)[2]
    <3> DEFINE err == IF Head(q)[3] THEN "dev_read" ELSE "null"
    <3>1. Finish({<<Now, err>>})
      BY Zenon, <2>1, <2>5
    <3>2. err \in {"null", "dev_read"} /\ (err # "null" => pl.dec \notin {"wait", "play"})
      BY <2>3
    <3> HIDE DEF err
    <3>3. Tells(Now, Scanned')
      BY <1>3, <3>1, <3>2
    <3> QED
      BY <1>1, <3>3, TakenTold
  <2> QED
    BY <2>4, <2>5
<1>9. CASE ChangeDev
  <2> DEFINE n == FindNext(dm.list, pl.dev, TRUE)
  <2>1. Finish({<<Now, "null">>}) \/ PlayOn(Now, n)
    BY <1>9 DEF ChangeDev
  <2>2. FoundUsable(Now.dm.list, n, TRUE)
    BY <1>2, FindNextUsable
  <2> HIDE DEF n
  <2>3. Tells(Now, Scanned')
    BY <1>2, <1>3, <2>1, <2>2, PlayOnTells
  <2> QED
    BY <1>1, <2>3, TakenTold
<1>10. CASE Quit
  <2>1. Tells(Now, Scanned')
    BY <1>5, <1>10 DEF Quit
  <2> QED
    BY <1>1, <2>1, TakenTold
<1>11. CASE ModeKey
  <2>1. Become(Post(Now, "change_dev")) \/ Leave \/ Finish({<<Now, "null">>})
    BY <1>11 DEF ModeKey
  <2>2. ASSUME Become(Post(Now, "change_dev")) PROVE Tells(Now, Scanned')
    <3> DEFINE s == Post(Now, "change_dev")
    <3>1. Sane(s) /\ Tells(Now, s) /\ Become(s)
      BY <1>2, <2>2, PostSane, PostTells DEF Posted
    <3> HIDE DEF s
    <3>2. Tells(s, Scanned')
      BY <3>1, BecomeTells
    <3> QED
      BY Zenon, <3>1, <3>2, TellsOn
  <2>3. Tells(Now, Scanned')
    BY <1>3, <1>5, <2>1, <2>2
  <2> QED
    BY <1>1, <2>3, TakenTold
<1> QED
  BY <1>6, <1>7, <1>8, <1>9, <1>10, <1>11

(* The scan, the messages it lets in, and the lookup of a file. *)
LEMMA ScanTold ==
  ASSUME PlayerInv, Told(Scanned, socket, overtaken), ScanTakes \/ ScanFinds \/ ScanFails \/ LookedUp
  PROVE  Told(Scanned', socket', overtaken')
<1>1. /\ pc # "get" /\ socket' = socket /\ Sane(Scanned) /\ Parked(Scanned)
      /\ Scanned.dm = dm /\ Scanned.pl = pl /\ Scanned.q = q
  BY DEF ScanTakes, ScanFinds, ScanFails, LookedUp, Stays, PlayerInv, Scanned
<1>2. CASE ScanTakes
  <2> DEFINE m == Head(q)
  <2>1. q # <<>> /\ Sane(Now) /\ Now.pl = pl /\ Now.dm = dm /\ Now.q = Tail(q)
    BY <1>2, NowSane DEF ScanTakes
  <2>2. Parked(Now) /\ m \in Message /\ q \in Seq(Message)
    BY <1>1, <2>1, NowSane, HandlerParts DEF Sane
  <2> DEFINE late == {c \in Card : m \in EventOf(c) /\ \E i \in DOMAIN q \ {1} : q[i] \in EventOf(c)}
  <2>3. CASE /\ Become(ErrDeal([Now EXCEPT !.q = Append(@, m)], "broken"))
             /\ overtaken' = overtaken \cup late
    <3> DEFINE r == Append(Tail(q), m)
               s == [Now EXCEPT !.q = r]
               z == ErrDeal(s, "broken")
    <3>1. Now \in HandlerState /\ Now.pl.dec = "none" /\ Tail(q) \in Seq(Message)
      BY <2>1, <2>2 DEF Sane, Parked
    <3>2. r \in Seq(Message) /\ \A c \in Card \ late : LastKept(q, r, c)
      BY <2>1, <2>2, <3>1, AppendType, RotateTells
    <3>3. [Now EXCEPT !.q = Append(@, m)] = s
      BY <2>1
    <3> HIDE DEF r
    <3>4. Sane(s) /\ s.dm = dm /\ s.q = r /\ s.pl = pl
      BY <2>1, <3>1, <3>2, QueueSane DEF HandlerState
    <3> HIDE DEF s, late
    <3>5. Sane(z) /\ Tells(s, z)
      BY <3>4, ErrDealSane, ErrDealTells DEF Errors
    <3>6. Become(z)
      BY <2>3, <3>3
    <3> HIDE DEF z
    <3>7. Tells(z, Scanned')
      BY <3>5, <3>6, BecomeTells
    <3>8. Told(s, socket, overtaken')
      <4> SUFFICES ASSUME NEW c \in Card \ overtaken' PROVE ToldOf(s, socket[c], c)
        BY DEF Told
      <4>1. c \in Card \ overtaken /\ c \in Card \ late
        BY <2>3
      <4>2. ToldOf(Scanned, socket[c], c)
        BY <4>1 DEF Told
      <4> QED
        BY <1>1, <3>2, <3>4, <4>1, <4>2, ToldOfOn
    <3>9. Tells(s, Scanned')
      BY Zenon, <3>5, <3>7, TellsOn
    <3> QED
      BY <1>1, <3>8, <3>9, TellsOn
  <2>4. CASE m[1] = "out" /\ overtaken' = overtaken /\ \E s \in Filtered(Now, m) : Become(s)
    <3>1. PICK s \in Filtered(Now, m) : Become(s)
      BY <2>4
    <3>2. Sane(s)
      BY <2>1, <2>2, <2>4, <3>1, FilteredOut DEF Parked
    <3>3. Tells(Now, Now)
      BY TellsOn
    <3> QED
      BY <1>1, <2>1, <2>4, <3>1, <3>2, <3>3, EventStep
  <2>5. CASE ~Breaks(m) /\ m[1] # "out" /\ overtaken' = overtaken /\ Become(Now)
    <3>1. m[1] \notin {"in", "out"}
      BY <2>5 DEF Breaks
    <3>2. Tells(Now, Scanned')
      BY <2>1, <2>5, BecomeTells
    <3> QED
      BY <1>1, <2>1, <2>5, <3>1, <3>2, TakenTold
  <2> QED
    BY <1>2, <2>3, <2>4, <2>5 DEF ScanTakes
<1>3. CASE ScanFails
  <2> DEFINE s == Scanned
             R == {<<s, "fscan">>}
  <2>1. Finish(R) /\ overtaken' = overtaken
    BY <1>3 DEF ScanFails, Stays
  <2> HIDE DEF s
  <2>2. \A r \in R : Fine(r) /\ Tells(s, r[1])
    BY <1>1, TellsOn DEF Fine, Errors, Parked, s
  <2> HIDE DEF R
  <2>3. Tells(Scanned, Scanned')
    BY <2>1, <2>2, FinishTells DEF s
  <2> QED
    BY <1>1, <2>1, <2>3, TellsOn
<1>4. CASE ScanFinds
  <2> DEFINE s == Scanned
  <2>1. PICK c \in Card : CardLogo(c) \in DevCur(s) /\ Become([s EXCEPT !.pl.fsn = c])
    BY <1>4 DEF ScanFinds
  <2>2. Sane(s) /\ Parked(s) /\ overtaken' = overtaken
    BY <1>1, <1>4 DEF ScanFinds, Stays
  <2> DEFINE t == [s EXCEPT !.pl.fsn = c]
  <2> HIDE DEF s
  <2>3. Sane(t) /\ t.dm = s.dm /\ t.q = s.q /\ Become(t)
    BY <2>1, <2>2, ScanHandle
  <2> HIDE DEF t
  <2>4. Tells(s, t) /\ Tells(t, Scanned')
    BY <2>3, BecomeTells DEF Tells, SameCards, SameEvents, LastKept
  <2>5. Tells(Scanned, Scanned')
    BY Zenon, <2>4, TellsOn DEF s
  <2> QED
    BY <1>1, <2>2, <2>5, TellsOn
<1>5. CASE LookedUp
  <2> DEFINE s == Scanned
             miss == pc = "seek"
             R == SelectAndDecode(s, miss)
  <2>1. Finish(R) /\ overtaken' = overtaken /\ miss \in BOOLEAN /\ s.pl.fsn # NoCard
    BY <1>1, <1>5 DEF LookedUp, Stays, PlayerInv
  <2>2. Sane(s) /\ Parked(s)
    BY <1>1
  <2> HIDE DEF s, miss
  <2>3. \A r \in R : Fine(r) /\ Tells(s, r[1])
    BY <2>1, <2>2, SelectAndDecodeFine, SelectAndDecodeTells DEF Parked
  <2> HIDE DEF R
  <2>4. Tells(Scanned, Scanned')
    BY <2>1, <2>3, FinishTells DEF s
  <2> QED
    BY <1>1, <2>1, <2>4, TellsOn
<1> QED
  BY <1>2, <1>3, <1>4, <1>5

(* Device events in the mode, and what the other modes do with messages. *)
LEMMA EventsTold ==
  ASSUME PlayerInv, Told(Scanned, socket, overtaken), DeviceIn \/ DeviceOut \/ OtherMode
  PROVE  Told(Scanned', socket', overtaken')
<1>1. q # <<>> /\ socket' = socket /\ overtaken' = overtaken
  BY DEF DeviceIn, DeviceOut, OtherMode, Takes, Stays
<1>2. Sane(Now) /\ Now.pl = pl /\ Tells(Now, Now)
  BY <1>1, NowSane, TellsOn
<1>3. CASE DeviceIn
  <2> DEFINE a == Stop(Now, TRUE)
             b == Post(a, "start")
  <2>1. Head(q)[1] = "in"
    BY <1>3 DEF DeviceIn, Takes
  <2>2. PICK s \in Filtered(b, Head(q)) : Become(s)
    BY <1>3 DEF DeviceIn
  <2>3. Sane(a) /\ a.pl.dec = "none" /\ a.pl.fsn = NoCard /\ Tells(Now, a)
    BY <1>2, StopSane, StopTells
  <2> HIDE DEF a
  <2>4. Sane(b) /\ b.pl = a.pl /\ Tells(a, b)
    BY <2>3, PostSane, PostTells DEF Posted
  <2> HIDE DEF b
  <2>5. Sane(s)
    BY <2>1, <2>2, <2>3, <2>4, FilteredIn
  <2>6. Tells(Now, b)
    BY Zenon, <2>3, <2>4, TellsOn
  <2> QED
    BY <1>1, <2>1, <2>2, <2>4, <2>5, <2>6, EventStep
<1>4. CASE DeviceOut
  <2> DEFINE c == Head(q)[2]
             b == StopFor(Now, c)
             a == Stop(Now, TRUE)
  <2>1. Head(q)[1] = "out"
    BY <1>4 DEF DeviceOut, Takes
  <2>2. PICK s \in Filtered(b, Head(q)) : Become(s)
    BY <1>4 DEF DeviceOut
  <2>3. Sane(b) /\ (b.pl.dec \in {"wait", "play"} => b.pl.fsn # c)
    BY <1>2, StopForSane
  <2>4. Sane(a) /\ Tells(Now, a)
    BY <1>2, StopSane, StopTells
  <2>5. b = Now \/ b = Post(a, "start")
    BY DEF StopFor
  <2> HIDE DEF a, b
  <2>6. Tells(a, Post(a, "start"))
    BY <2>4, PostTells DEF Posted
  <2>7. Tells(Now, b)
    BY <1>2, <2>4, <2>5, <2>6, TellsOn
  <2>8. Sane(s)
    BY <2>1, <2>2, <2>3, FilteredOut
  <2> QED
    BY <1>1, <2>1, <2>2, <2>3, <2>7, <2>8, EventStep
<1>5. CASE OtherMode
  <2>1. pl = NoPlayer
    BY <1>5 DEF OtherMode, PlayerInv
  <2>2. CASE Head(q)[1] \in {"in", "out"}
    <3>1. PICK s \in Filtered(Now, Head(q)) : Become(s)
      BY <1>5, <2>2 DEF OtherMode
    <3>2. Now.pl.dec \notin {"wait", "play"} /\ Now.pl.fsn = NoCard
      BY <1>2, <2>1, NoPlayerType
    <3>3. Head(q)[1] = "out" => Sane(s)
      BY <1>2, <3>1, <3>2, FilteredOut
    <3>4. Head(q)[1] # "out" => Sane(s)
      BY <1>2, <3>1, <3>2, FilteredIn
    <3> QED
      BY <1>1, <1>2, <2>2, <3>1, <3>3, <3>4, EventStep
  <2>3. CASE Head(q)[1] \notin {"in", "out"}
    <3>1. Become(Now)
      BY <1>5, <2>3 DEF OtherMode
    <3>2. Tells(Now, Scanned')
      BY <1>2, <3>1, BecomeTells
    <3> QED
      BY <1>1, <2>3, <3>2, TakenTold
  <2> QED
    BY <2>2, <2>3
<1> QED
  BY <1>3, <1>4, <1>5

(* A card comes, or its removal is noticed: the event posted is its last. *)
LEMMA CardMoves ==
  ASSUME PlayerInv, Told(Scanned, socket, overtaken), NEW c \in Card,
         NEW v \in Plugged \cup {"out"}, dm' = dm, socket' = [socket EXCEPT ![c] = v],
         q' = Append(q, IF v = "out" THEN <<"out", c>> ELSE <<"in", c>>),
         overtaken' = overtaken \ {c}
  PROVE  Told(Scanned', socket', overtaken')
<1> DEFINE e == IF v = "out" THEN <<"out", c>> ELSE <<"in", c>>
           r == Append(q, e)
<1>1. /\ q \in Seq(Message) /\ Scanned.dm = dm /\ Scanned.q = q
      /\ Scanned'.dm = dm /\ Scanned'.q = r /\ socket \in [Card -> Plugged \cup Absent]
  <2>1. Scanned \in HandlerState /\ Scanned.q = q /\ Scanned.dm = dm
    BY DEF PlayerInv, Sane, Scanned
  <2> QED
    BY <2>1, HandlerParts DEF PlayerInv, Scanned
<1>2. socket'[c] = v /\ \A x \in Card \ {c} : socket'[x] = socket[x]
  BY <1>1
<1>3. e \in Message /\ e \in EventOf(c) /\ e[2] = c
  BY DEF Message, EventOf
<1>4. (e = <<"in", c>> => v # "out") /\ (e = <<"out", c>> => v = "out")
  <2>1. <<"in", c>> # <<"out", c>>
    <3>1. <<"in", c>>[1] # <<"out", c>>[1]
      OBVIOUS
    <3> QED
      BY <3>1
  <2> QED
    BY <2>1
<1> HIDE DEF e
<1>5. /\ DOMAIN r = 1..(Len(q) + 1) /\ DOMAIN q = 1..Len(q) /\ Len(q) \in Nat
      /\ (\A j \in 1..Len(q) : r[j] = q[j]) /\ r[Len(q) + 1] = e
  BY <1>1, <1>3, AppendEntries
<1> HIDE DEF r
<1>6. /\ \A j \in DOMAIN r : (j \in DOMAIN q /\ r[j] = q[j]) \/ r[j] = e
      /\ \A j \in DOMAIN q : j \in DOMAIN r /\ r[j] = q[j]
      /\ Len(q) + 1 \in DOMAIN r /\ \A j \in DOMAIN r : j \in Int /\ j <= Len(q) + 1
  BY <1>5
<1> SUFFICES ASSUME NEW x \in Card \ overtaken' PROVE ToldOf(Scanned', socket'[x], x)
  BY DEF Told
<1>7. CASE x = c
  <2>1. ~Quiet(r, c)
    BY <1>3, <1>5, <1>6 DEF Quiet
  <2>2. \A y : LastIs(r, y, c) => y = e
    <3> SUFFICES ASSUME NEW y, LastIs(r, y, c) PROVE y = e
      OBVIOUS
    <3>1. PICK i \in DOMAIN r : r[i] = y /\ \A j \in DOMAIN r : r[j] \in EventOf(c) => j <= i
      BY DEF LastIs
    <3>2. Len(q) + 1 <= i /\ i \in Int /\ i <= Len(q) + 1 /\ Len(q) \in Nat
      BY <1>3, <1>5, <1>6, <3>1
    <3>3. i = Len(q) + 1
      BY <3>2
    <3> QED
      BY <1>5, <3>1, <3>3
  <2> QED
    BY Zenon, <1>1, <1>2, <1>4, <1>7, <2>1, <2>2 DEF ToldOf
<1>8. CASE x # c
  <2>1. e \notin EventOf(x)
    <3>1. \A y \in EventOf(x) : y[2] = x
      BY DEF EventOf
    <3> QED
      BY <1>3, <1>8, <3>1
  <2>2. LastKept(q, r, x)
    <3>1. ASSUME NEW y \in EventOf(x), LastIs(r, y, x) PROVE LastIs(q, y, x)
      <4>1. PICK i \in DOMAIN r : r[i] = y /\ \A j \in DOMAIN r : r[j] \in EventOf(x) => j <= i
        BY <3>1 DEF LastIs
      <4>2. i \in DOMAIN q /\ q[i] = y
        BY <1>6, <2>1, <3>1, <4>1
      <4> QED
        BY <1>6, <4>1, <4>2 DEF LastIs
    <3>2. Quiet(r, x) => Quiet(q, x)
      BY <1>6 DEF Quiet
    <3> QED
      BY <3>1, <3>2 DEF LastKept
  <2>3. ToldOf(Scanned, socket[x], x)
    BY <1>8 DEF Told
  <2> QED
    BY <1>1, <1>2, <1>8, <2>2, <2>3, ToldOfOn
<1> QED
  BY <1>7, <1>8

(* Cards that are plugged in and pulled out. *)
LEMMA WorldTold ==
  ASSUME PlayerInv, Told(Scanned, socket, overtaken),
         \E c \in Card : Plug(c) \/ Unplug(c) \/ Noticed(c)
  PROVE  Told(Scanned', socket', overtaken')
<1>1. PICK c \in Card : Plug(c) \/ Unplug(c) \/ Noticed(c)
  OBVIOUS
<1>2. CASE Plug(c)
  <2>1. PICK v \in Plugged : socket' = [socket EXCEPT ![c] = v]
    BY <1>2 DEF Plug
  <2>2. q' = Append(q, <<"in", c>>) /\ dm' = dm /\ overtaken' = overtaken \ {c} /\ v # "out"
    BY <1>2 DEF Plug, Plugged
  <2> QED
    BY <2>1, <2>2, CardMoves
<1>3. CASE Noticed(c)
  <2>1. /\ socket' = [socket EXCEPT ![c] = "out"] /\ q' = Append(q, <<"out", c>>) /\ dm' = dm
        /\ overtaken' = overtaken \ {c}
    BY <1>3 DEF Noticed
  <2> QED
    BY <2>1, CardMoves
<1>4. CASE Unplug(c)
  <2>1. /\ socket' = [socket EXCEPT ![c] = "gone"] /\ Scanned' = Scanned /\ overtaken' = overtaken
        /\ socket[c] \in Plugged /\ socket \in [Card -> Plugged \cup Absent]
    BY <1>4 DEF Unplug, PlayerInv, Scanned
  <2> SUFFICES ASSUME NEW x \in Card \ overtaken PROVE ToldOf(Scanned, socket'[x], x)
    BY <2>1 DEF Told
  <2>2. ToldOf(Scanned, socket[x], x)
    BY DEF Told
  <2>3. CASE x = c
    <3>1. socket'[x] = "gone" /\ socket[x] # "out"
      BY <2>1, <2>3 DEF Plugged
    <3> QED
      BY <2>2, <3>1 DEF ToldOf
  <2>4. CASE x # c
    BY <2>1, <2>2, <2>4
  <2> QED
    BY <2>3, <2>4
<1> QED
  BY <1>1, <1>2, <1>3, <1>4

(* Entry into the mode, keys, and the ends of tracks, waits and the tone. *)
LEMMA OthersTold ==
  ASSUME PlayerInv, Told(Scanned, socket, overtaken),
         Enter \/ ToneEnds \/ TrackEnds \/ WaitEnds \/ \E k \in Keys : Key(k)
  PROVE  Told(Scanned', socket', overtaken')
<1>1. /\ q \in Seq(Message) /\ Scanned.dm = dm /\ Scanned.q = q /\ WellFormed(dm)
      /\ Scanned'.dm = dm' /\ Scanned'.q = q'
  <2>1. Scanned \in HandlerState /\ Scanned.q = q /\ Scanned.dm = dm
    BY DEF PlayerInv, Sane, Scanned
  <2> QED
    BY <2>1, HandlerParts DEF PlayerInv, Sane, Scanned
<1>2. socket' = socket /\ overtaken' = overtaken
  BY DEF Enter, ToneEnds, TrackEnds, WaitEnds, Key
<1>3. SameEvents(q, q')
  <2>1. q' = q \/ \E e \in Message : e[1] \notin {"in", "out"} /\ q' = Append(q, e)
    <3>1. <<"start">> \in Message /\ <<"start">>[1] \notin {"in", "out"}
      BY DEF Message, Posted
    <3>2. ASSUME NEW k \in Keys PROVE <<k>> \in Message /\ <<k>>[1] \notin {"in", "out"}
      <4>1. k \in {"next", "mode"}
        BY PlayerAssumption
      <4> QED
        BY <4>1 DEF Message, Posted
    <3> DEFINE x == socket[pl.fsn] \in Absent
               e == <<"end", x, TRUE>>
    <3>3. e \in Message /\ e[1] \notin {"in", "out"}
      <4>1. x \in BOOLEAN
        OBVIOUS
      <4> HIDE DEF x
      <4> QED
        BY <4>1 DEF Message
    <3>4. TrackEnds => q' = Append(q, e)
      BY DEF TrackEnds
    <3> HIDE DEF e
    <3> QED
      BY <3>1, <3>2, <3>3, <3>4 DEF Enter, ToneEnds, WaitEnds, Key
  <2>2. SameEvents(q, q)
    BY DEF SameEvents, LastKept
  <2> QED
    BY <1>1, <2>1, <2>2, AppendTells
<1>4. SameCards(dm.list, dm'.list)
  <2>1. CASE dm' = dm
    BY <2>1 DEF SameCards
  <2>2. CASE Enter
    <3> DEFINE first == FindSpec(dm.list, CardLogo(Preferred), FALSE)
               st == IF GetTotal(dm.list, TRUE) > 1 THEN SetActive(dm, first) ELSE dm
               d == Ranked(st)
    <3>1. dm' = d
      BY <2>2 DEF Enter
    <3>2. WellFormed(st) /\ SameCards(dm.list, st.list)
      <4> HIDE DEF first
      <4>1. SameCards(dm.list, SetActive(dm, first).list) /\ SameCards(dm.list, dm.list)
        BY <1>1, SetActiveTells DEF SameCards
      <4>2. WellFormed(SetActive(dm, first))
        <5>1. ~Check(dm.list, first) => SetActive(dm, first) = dm
          BY DEF SetActive
        <5> QED
          BY <1>1, <5>1, SetActiveStamps
      <4> QED
        BY <1>1, <4>1, <4>2
    <3> HIDE DEF st
    <3>3. DOMAIN d.list = DOMAIN st.list /\ \A i \in DOMAIN st.list : d.list[i].logo = st.list[i].logo
      BY <3>2, RankedEntries
    <3> HIDE DEF d
    <3>4. SameCards(st.list, d.list)
      BY <3>3, LogosTell
    <3> QED
      BY <3>1, <3>2, <3>4 DEF SameCards
  <2> QED
    BY <2>1, <2>2 DEF ToneEnds, TrackEnds, WaitEnds, Key
<1>5. Tells(Scanned, Scanned')
  BY <1>1, <1>3, <1>4 DEF Tells
<1> QED
  BY <1>2, <1>5, TellsOn

ToldInv == PlayerInv /\ Told(Scanned, socket, overtaken)

(* Every step keeps what the queue and the list tell of the sockets. *)
LEMMA ToldStep ==
  ASSUME ToldInv, [Next]_playerVars
  PROVE  ToldInv'
<1>1. PlayerInv /\ Told(Scanned, socket, overtaken)
  BY DEF ToldInv
<1>2. PlayerInv'
  BY <1>1, PlayerInvStep
<1>3. Told(Scanned', socket', overtaken')
  <2>1. CASE UNCHANGED playerVars
    <3>1. Scanned' = Scanned /\ socket' = socket /\ overtaken' = overtaken
      BY <2>1 DEF playerVars, Scanned
    <3> QED
      BY <1>1, <3>1
  <2>2. CASE CoreStep
    BY <1>1, <2>2, HandlersTold, ScanTold, EventsTold, OthersTold DEF CoreStep
  <2>3. CASE Enter \/ TrackEnds \/ WaitEnds \/ \E k \in Keys : Key(k)
    BY <1>1, <2>3, OthersTold
  <2>4. CASE \E c \in Card : Plug(c) \/ Unplug(c) \/ Noticed(c)
    BY <1>1, <2>4, WorldTold
  <2> QED
    BY <2>1, <2>2, <2>3, <2>4 DEF Next
<1> QED
  BY <1>2, <1>3 DEF ToldInv

(* Once the events of a card are handled it is in the list exactly when it *)
(* is plugged in, however fast it comes and goes and however scans, errors *)
(* and mode switches drop messages (music.c:113, dev_manager.c:1048),      *)
(* unless a scan has posted an event of it again behind a later one.       *)
THEOREM ListFollows == Spec => []ListFollowsSockets
<1>1. Init => ToldInv
  <2> SUFFICES ASSUME Init PROVE ToldInv
    OBVIOUS
  <2>1. PlayerInv
    BY PlayerInvInitially
  <2>2. /\ Scanned.q = <<>> /\ Scanned.dm.list = <<>> /\ DOMAIN Scanned.q = {}
        /\ DOMAIN Scanned.dm.list = {} /\ \A c \in Card : socket[c] = "out"
    BY DEF Init, Scanned
  <2>3. Told(Scanned, socket, overtaken)
    BY <2>2 DEF Told, ToldOf, LastIs, ListCheckByLogo, Places
  <2> QED
    BY <2>1, <2>3 DEF ToldInv
<1>2. ToldInv => ListFollowsSockets
  <2> SUFFICES ASSUME ToldInv, NEW c \in Card \ overtaken, ~Pending(c), socket[c] # "gone"
               PROVE  socket[c] \in Plugged <=> ListCheckByLogo(dm.list, CardLogo(c))
    BY DEF ListFollowsSockets, AsPlugged
  <2>1. Told(Scanned, socket, overtaken) /\ Scanned.dm = dm /\ Scanned.q = q
    BY DEF ToldInv, Scanned
  <2>2. Quiet(q, c)
    BY DEF Pending, Quiet
  <2>3. ListCheckByLogo(dm.list, CardLogo(c)) <=> socket[c] # "out"
    BY <2>1, <2>2 DEF Told, ToldOf
  <2>4. socket[c] \in Plugged \cup Absent
    BY DEF ToldInv, PlayerInv
  <2> QED
    BY <2>3, <2>4 DEF Plugged, Absent
<1> QED
  BY <1>1, <1>2, ToldStep, PTL DEF Spec

-----------------------------------------------------------------------------
(* What goes on after every error                                          *)

(* The handler of the message m, taken when the state is s, decodes, scans *)
(* or leaves another such message behind.  The messages for a device that  *)
(* is remembered need one; to change the device needs one that is lost.    *)
Drives(s, m) ==
  \/ m[1] \in {"start", "quit", "to_bt", "in"}
  \/ m[1] \in {"next", "first"} /\ s.pl.dev # NoNode
  \/ m[1] = "end" /\ s.pl.dev # NoNode /\ (m[2] => m[3])
  \/ m[1] = "change_dev" /\ s.pl.dev # NoNode /\ ~OnlineCheck(s.dm.list, s.pl.dev, TRUE)
  \/ m[1] = "out" /\ DevCur(s) = {CardLogo(m[2])}

(* There is nothing to play, or a message that goes on. *)
Over(s) ==
  Usable(s.dm.list, TRUE) = {} \/ \E i \in DOMAIN s.q : Drives(s, s.q[i])
GoesOn(s) == s.pl.dec = "none" => Over(s)

(* Only a remembered device is decoded. *)
Rooted(s) == s.pl.dec # "none" => s.pl.dev # NoNode

Owed ==
  /\ Rooted(Scanned)
  /\ mode = "music" /\ pc = "get" /\ ~tone /\ ~cut => GoesOn(Scanned)

OweInv == PlayerInv /\ Owed

(* Entries that differ in their stamps only. *)
SameEntries(L, K) ==
  /\ DOMAIN K = DOMAIN L
  /\ \A i \in DOMAIN L : /\ K[i].node = L[i].node /\ K[i].logo = L[i].logo
                         /\ K[i].fmnt = L[i].fmnt /\ K[i].valid = L[i].valid

(* What drives the mode still does when messages are added or stamps move. *)
LEMMA OverKept ==
  ASSUME NEW s, NEW t, SameEntries(s.dm.list, t.dm.list), t.pl.dev = s.pl.dev,
         \A i \in DOMAIN s.q : \E j \in DOMAIN t.q : t.q[j] = s.q[i]
  PROVE  /\ \A m : Drives(s, m) => Drives(t, m)
         /\ Over(s) => Over(t)
<1> DEFINE L == s.dm.list
           K == t.dm.list
<1>1. \A v \in BOOLEAN : Usable(K, v) = Usable(L, v)
  BY DEF SameEntries, Usable
<1>2. OnlineCheck(K, t.pl.dev, TRUE) <=> OnlineCheck(L, s.pl.dev, TRUE)
  BY <1>1 DEF SameEntries, OnlineCheck, Usable
<1>3. DevCur(t) = DevCur(s)
  <2> DEFINE I == {j \in Usable(L, FALSE) : L[j].node = s.pl.dev}
             J == {j \in Usable(K, FALSE) : K[j].node = t.pl.dev}
  <2>1. J = I /\ \A i \in I : K[i].logo = L[i].logo
    BY <1>1 DEF SameEntries, Usable
  <2>2. DevCur(s) = {L[i].logo : i \in I} /\ DevCur(t) = {K[i].logo : i \in J}
    BY DEF DevCur, GetLogo
  <2> HIDE DEF I, J, L, K
  <2> QED
    BY <2>1, <2>2
<1>4. ASSUME NEW m, Drives(s, m) PROVE Drives(t, m)
  BY Zenon, <1>2, <1>3, <1>4 DEF Drives
<1>5. Over(s) => Over(t)
  BY Zenon, <1>1, <1>4 DEF Over
<1> QED
  BY <1>4, <1>5

(* A message at the end of the queue. *)
LEMMA PostOver ==
  ASSUME NEW s, Sane(s), NEW k \in Posted
  PROVE  /\ Over(s) => Over(Post(s, k))
         /\ Drives(s, <<k>>) => Over(Post(s, k))
<1> DEFINE t == Post(s, k)
<1>1. s \in HandlerState /\ s.q \in Seq(Message)
  BY HandlerParts DEF Sane
<1>2. t.dm = s.dm /\ t.pl = s.pl /\ t.q = Append(s.q, <<k>>)
  BY <1>1 DEF Post, HandlerState
<1>3. <<k>> \in Message
  BY DEF Message, Posted
<1>4. /\ \A i \in DOMAIN s.q : i \in DOMAIN t.q /\ t.q[i] = s.q[i]
      /\ Len(s.q) + 1 \in DOMAIN t.q /\ t.q[Len(s.q) + 1] = <<k>>
  <2> DEFINE r == Append(s.q, <<k>>)
  <2>1. /\ DOMAIN r = 1..(Len(s.q) + 1) /\ DOMAIN s.q = 1..Len(s.q) /\ Len(s.q) \in Nat
        /\ (\A j \in 1..Len(s.q) : r[j] = s.q[j]) /\ r[Len(s.q) + 1] = <<k>>
    BY <1>1, <1>3, AppendEntries
  <2> HIDE DEF r, t
  <2> QED
    BY <1>2, <2>1 DEF r
<1> HIDE DEF t
<1>5. SameEntries(s.dm.list, t.dm.list)
  BY <1>2 DEF SameEntries
<1>6. (\A m : Drives(s, m) => Drives(t, m)) /\ (Over(s) => Over(t))
  <2>1. \A i \in DOMAIN s.q : \E j \in DOMAIN t.q : t.q[j] = s.q[i]
    BY <1>4
  <2> QED
    BY <1>2, <1>5, <2>1, OverKept
<1>7. Drives(s, <<k>>) => Over(t)
  BY <1>4, <1>6 DEF Over
<1> QED
  BY <1>6, <1>7 DEF t

(* dev_manager_get_total(1) counts none exactly when there is none. *)
LEMMA TotalZero ==
  ASSUME NEW s, Sane(s)
  PROVE  Total(s) = 0 <=> Usable(s.dm.list, TRUE) = {}
<1> DEFINE U == Usable(s.dm.list, TRUE)
<1>1. U \in SUBSET (1..Len(s.dm.list)) /\ Len(s.dm.list) \in Nat
  BY EntryTypes DEF Sane, WellFormed, Usable
<1>2. IsFiniteSet(U)
  <2>1. IsFiniteSet(1..Len(s.dm.list))
    BY <1>1, FS_Interval
  <2> HIDE DEF U
  <2> QED
    BY <1>1, <2>1, FS_Subset
<1>3. Total(s) = Cardinality(U)
  BY DEF Total, GetTotal
<1> HIDE DEF U
<1>4. Cardinality(U) = 0 <=> U = {}
  BY <1>2, FS_EmptySet
<1> QED
  BY <1>3, <1>4 DEF U

(* The device to change from is there, but not to be played. *)
Lost(s) == s.pl.dev # NoNode /\ ~OnlineCheck(s.dm.list, s.pl.dev, TRUE)

(* After a device was given up, the message posted by the count drives. *)
LEMMA PostByTotalOver ==
  ASSUME NEW s, Sane(s), NEW none \in {"quit", "to_bt"}, NEW some \in {"start", "change_dev"},
         some = "change_dev" => Lost(s)
  PROVE  Over(PostByTotal(s, none, some))
<1>1. Drives(s, <<none>>) /\ Drives(s, <<some>>)
  BY DEF Drives, Lost
<1>2. Over(Post(s, none)) /\ Over(Post(s, some))
  BY <1>1, PostOver DEF Posted
<1> QED
  BY <1>2 DEF PostByTotal

(* A device that is online is found by its logo. *)
LEMMA OnlineFound ==
  ASSUME NEW s, Sane(s), OnlineCheck(s.dm.list, s.pl.dev, TRUE)
  PROVE  CurOnline(s) /\ s.pl.dev # NoNode
<1> DEFINE L == s.dm.list
<1>1. L \in Seq(Dev)
  BY DEF Sane, WellFormed
<1>2. PICK i \in Usable(L, TRUE) : L[i].node = s.pl.dev
  BY DEF OnlineCheck
<1> DEFINE l == L[i].logo
           I == Usable(L, TRUE) \cap Places(L, l)
<1>3. i \in DOMAIN L /\ L[i].node \in Node
  BY <1>1, <1>2, EntryTypes DEF Usable
<1>4. l \in DevCur(s)
  BY <1>2 DEF DevCur, GetLogo, Usable
<1>5. I \in SUBSET (DOMAIN L) /\ i \in I
  BY <1>2 DEF Usable, Places
<1>6. FindSpec(L, l, TRUE) = NodeAtLeast(L, I)
  BY DEF FindSpec
<1> HIDE DEF I, L
<1>7. PICK j \in I : NodeAtLeast(L, I) = L[j].node
  BY <1>1, <1>5, NodeAtLeastFound
<1>8. FindSpec(L, l, TRUE) # NoNode
  BY <1>1, <1>5, <1>6, <1>7, EntryTypes, DevAssumption
<1> QED
  BY <1>2, <1>3, <1>4, <1>8, DevAssumption DEF CurOnline, L

(* And one that is found so is online. *)
LEMMA CurOnlineFound ==
  ASSUME NEW s, Sane(s), CurOnline(s)
  PROVE  OnlineCheck(s.dm.list, s.pl.dev, TRUE)
<1> DEFINE L == s.dm.list
<1>1. L \in Seq(Dev) /\ Once(L)
  BY DEF Sane, WellFormed
<1>2. PICK l \in DevCur(s) : FindSpec(L, l, TRUE) # NoNode
  BY DEF CurOnline
<1>3. PICK i \in Usable(L, FALSE) : L[i].node = s.pl.dev /\ L[i].logo = l
  BY <1>2 DEF DevCur, GetLogo
<1>4. PICK j \in Usable(L, TRUE) : L[j].logo = l
  <2>1. Usable(L, TRUE) \cap Places(L, l) # {}
    BY <1>2 DEF FindSpec, NodeAtLeast
  <2> QED
    BY <2>1 DEF Places
<1>5. i = j
  BY <1>1, <1>3, <1>4 DEF Once, Usable
<1> QED
  BY <1>3, <1>4, <1>5 DEF OnlineCheck

(* dev_manager_set_valid(0) and dev_manager_unmount take the device away. *)
LEMMA DevInvalidLost ==
  ASSUME NEW s, Sane(s)
  PROVE  DevInvalid(s).pl = s.pl /\ (s.pl.dev # NoNode => Lost(DevInvalid(s)))
<1> DEFINE L == s.dm.list
           K == SetValid(L, s.pl.dev, FALSE)
           t == [s EXCEPT !.dm.list = K]
<1>1. L \in Seq(Dev) /\ s \in HandlerState /\ \A i \in DOMAIN L : L[i] \in Dev
  BY HandlerParts, EntryTypes DEF Sane
<1>2. DevInvalid(s) = t
  BY DEF DevInvalid
<1>3. t.dm.list = K /\ t.pl = s.pl
  BY <1>1 DEF HandlerState
<1>4. DOMAIN K = DOMAIN L /\ \A i \in DOMAIN L : K[i] = IF L[i].node = s.pl.dev /\ L[i].fmnt
                                        THEN [L[i] EXCEPT !.valid = FALSE] ELSE L[i]
  BY DEF SetValid
<1> HIDE DEF K, t, L
<1>5. ASSUME NEW i \in DOMAIN K, K[i].node = s.pl.dev, K[i].fmnt PROVE ~K[i].valid
  <2>1. L[i] \in Dev /\ i \in DOMAIN L
    BY <1>1, <1>4
  <2> QED
    BY <1>4, <1>5, <2>1 DEF Dev
<1>6. ~OnlineCheck(K, s.pl.dev, TRUE)
  BY <1>5 DEF OnlineCheck, Usable
<1> QED
  BY <1>2, <1>3, <1>6 DEF Lost

(* An unmounted device that was online is one to change from. *)
LEMMA DevUnmountedLost ==
  ASSUME NEW s, Sane(s)
  PROVE  /\ DevUnmounted(s).pl = s.pl
         /\ OnlineCheck(s.dm.list, s.pl.dev, TRUE) => Lost(DevUnmounted(s))
<1> DEFINE L == s.dm.list
           x == (CHOOSE l \in DevCur(s) : TRUE)[1]
           K == UnmountDevice(L, x)
           t == [s EXCEPT !.dm.list = K]
<1>1. L \in Seq(Dev) /\ s \in HandlerState
  BY HandlerParts DEF Sane
<1>2. DevUnmounted(s) = t
  BY DEF DevUnmounted
<1>3. t.dm.list = K /\ t.pl = s.pl
  BY <1>1 DEF HandlerState
<1>4. ASSUME OnlineCheck(s.dm.list, s.pl.dev, TRUE) PROVE ~OnlineCheck(K, s.pl.dev, TRUE)
  <2>1. PICK i \in Usable(L, TRUE) : L[i].node = s.pl.dev
    BY <1>4 DEF OnlineCheck
  <2>2. i \in Usable(L, FALSE)
    BY <2>1 DEF Usable
  <2>3. PICK c \in Card : L[i].logo = CardLogo(c) /\ DevCur(s) = {CardLogo(c)}
    BY <2>1, <2>2, CurOne
  <2>4. x = c
    <3>1. (CHOOSE l \in {CardLogo(c)} : TRUE) = CardLogo(c)
      OBVIOUS
    <3> QED
      BY <2>3, <3>1 DEF CardLogo
  <2> HIDE DEF x
  <2> DEFINE M == IF RecFolder THEN UnmountOne(L, RecLogo(c)) ELSE L
             N == UnmountOne(M, CardLogo(c))
  <2>5. K = N
    BY <2>4 DEF UnmountDevice
  <2>6. Marks(L, M) /\ M \in Seq(Dev) /\ Mounted(M)
    <3>1. Marks(L, UnmountOne(L, RecLogo(c))) /\ Marks(L, L)
      <4>1. Mounted(L)
        BY DEF Sane, WellFormed
      <4> QED
        BY <1>1, <4>1, UnmountOneMarks DEF Marks
    <3> QED
      BY <3>1 DEF Marks
  <2>7. DOMAIN M = DOMAIN L /\ \A j \in DOMAIN M : /\ M[j] \in Dev /\ M[j].node = L[j].node
                                                  /\ M[j].logo = L[j].logo
    <3>1. DOMAIN M = 1..Len(M) /\ DOMAIN L = 1..Len(L) /\ \A j \in DOMAIN M : M[j] \in Dev
      BY <1>1, <2>6, EntryTypes
    <3> QED
      BY <2>6, <3>1 DEF Marks
  <2> HIDE DEF M
  <2>8. DOMAIN N = DOMAIN M /\ \A j \in DOMAIN M : N[j] = IF M[j].logo = CardLogo(c) /\ M[j].fmnt
             THEN [M[j] EXCEPT !.fmnt = FALSE, !.valid = FALSE] ELSE M[j]
    BY DEF UnmountOne
  <2> HIDE DEF N
  <2>9. ASSUME NEW j \in DOMAIN N, N[j].node = s.pl.dev PROVE ~N[j].fmnt
    <3>1. j \in DOMAIN L /\ M[j] \in Dev /\ N[j].node = M[j].node
      BY <2>7, <2>8 DEF Dev
    <3>2. j = i
      BY <2>1, <2>2, <2>7, <2>9, <3>1 DEF Sane, WellFormed, Once, Usable
    <3> QED
      BY <2>3, <2>7, <2>8, <3>1, <3>2 DEF Dev
  <2> QED
    BY <2>5, <2>9 DEF OnlineCheck, Usable
<1> HIDE DEF K, t
<1> QED
  BY <1>2, <1>3, <1>4, OnlineFound DEF Lost

(* The count of failed files and the file are no matter to what drives. *)
LEMMA ErrsKeeps ==
  ASSUME NEW s, Sane(s), NEW k \in 0..Files
  PROVE  LET u == [s EXCEPT !.pl.errs = k]
         IN  /\ Sane(u) /\ u.dm = s.dm /\ u.q = s.q /\ u.pl.dev = s.pl.dev /\ u.pl.dec = s.pl.dec
             /\ u.pl.fsn = s.pl.fsn /\ (Over(s) => Over(u))
<1> DEFINE u == [s EXCEPT !.pl.errs = k]
<1>1. Sane(u) /\ s \in HandlerState /\ s.pl \in Player
  BY ErrsSane, HandlerParts DEF Sane
<1>2. /\ u.dm = s.dm /\ u.q = s.q /\ u.pl.dev = s.pl.dev /\ u.pl.dec = s.pl.dec
      /\ u.pl.fsn = s.pl.fsn
  BY <1>1 DEF HandlerState, Player
<1> HIDE DEF u
<1>3. Over(s) => Over(u)
  BY <1>2, OverKept DEF SameEntries
<1> QED
  BY <1>1, <1>2, <1>3 DEF u

(* The same message after anything else adds to what drove. *)
LEMMA PostByTotalKeeps ==
  ASSUME NEW s, Sane(s), NEW none \in Posted, NEW some \in Posted
  PROVE  /\ PostByTotal(s, none, some).pl = s.pl
         /\ Over(s) => Over(PostByTotal(s, none, some))
  BY PostSane, PostOver DEF PostByTotal

(* A file that does not play: the next one, or the device is given up. *)
LEMMA DecodeFailedOver ==
  ASSUME NEW s, Sane(s), s.pl.dec \notin {"wait", "play"}
  PROVE  LET w == DecodeFailed(s)
         IN  /\ w.pl.dev = s.pl.dev /\ w.pl.dec = s.pl.dec
             /\ s.pl.dev # NoNode => Over(w)
<1>1. Files \in Nat /\ s.pl.errs \in 0..Files
  BY PlayerAssumption, HandlerParts DEF Sane
<1>2. CASE s.pl.errs < Files
  <2> DEFINE u == [s EXCEPT !.pl.errs = s.pl.errs + 1]
  <2>1. s.pl.errs + 1 \in 0..Files
    BY <1>1, <1>2
  <2>2. Sane(u) /\ u.pl.dev = s.pl.dev /\ u.pl.dec = s.pl.dec
    BY <2>1, ErrsKeeps
  <2>3. DecodeFailed(s) = Post(u, "next")
    BY <1>2 DEF DecodeFailed
  <2> HIDE DEF u
  <2>4. s.pl.dev # NoNode => Drives(u, <<"next">>)
    BY <2>2 DEF Drives
  <2> QED
    BY <2>2, <2>3, <2>4, PostOver, PostSane DEF Posted
<1>3. CASE ~(s.pl.errs < Files)
  <2> DEFINE u == [s EXCEPT !.pl.errs = 0]
             v == DevInvalid(u)
  <2>1. 0 \in 0..Files
    BY <1>1
  <2>2. Sane(u) /\ u.pl.dev = s.pl.dev /\ u.pl.dec = s.pl.dec
    BY <2>1, ErrsKeeps
  <2>3. DecodeFailed(s) = PostByTotal(v, "quit", "change_dev")
    BY <1>3 DEF DecodeFailed
  <2> HIDE DEF u
  <2>4. Sane(v) /\ v.pl = u.pl /\ (s.pl.dev # NoNode => Lost(v))
    BY <2>2, DevInvalidSane, DevInvalidLost
  <2> HIDE DEF v
  <2> QED
    BY <2>2, <2>3, <2>4, PostByTotalOver, PostByTotalKeeps DEF Posted
<1> QED
  BY <1>2, <1>3

(* A device that is lost: another one, or out of the mode.  When none was  *)
(* remembered the message adds to what was there.                          *)
LEMMA DeviceLostOver ==
  ASSUME NEW s, Sane(s), s.pl.dec \notin {"wait", "play"}, NEW isScan \in BOOLEAN
  PROVE  LET w == DeviceLost(s, isScan)
         IN  /\ s.pl.dev # NoNode \/ Over(s) => Over(w)
             /\ w.pl.dev = s.pl.dev /\ w.pl.dec = s.pl.dec
<1> DEFINE t == IF ~CurOnline(s) THEN s ELSE IF isScan THEN DevInvalid(s) ELSE DevUnmounted(s)
<1>1. DeviceLost(s, isScan) = PostByTotal(t, "to_bt", "change_dev")
  BY DEF DeviceLost
<1>2. Sane(t)
  BY DevInvalidSane, DevUnmountedSane
<1>3. CASE s.pl.dev # NoNode
  <2>1. CurOnline(s) => OnlineCheck(s.dm.list, s.pl.dev, TRUE)
    BY CurOnlineFound
  <2>2. Lost(t) /\ t.pl = s.pl
    BY <1>3, <2>1, OnlineFound, DevInvalidLost, DevUnmountedLost DEF Lost
  <2> HIDE DEF t
  <2> QED
    BY <1>1, <1>2, <2>2, PostByTotalOver, PostByTotalKeeps DEF Posted
<1>4. CASE s.pl.dev = NoNode
  <2>1. ~CurOnline(s)
    BY <1>4, CurOnlineFound, OnlineFound
  <2>2. t = s
    BY <2>1
  <2> HIDE DEF t
  <2> QED
    BY <1>1, <1>4, <2>2, PostByTotalKeeps DEF Posted
<1> QED
  BY <1>3, <1>4

(* music_player_err_deal: after an error there is a message that goes on.  *)
LEMMA ErrDealOver ==
  ASSUME NEW s, Sane(s), NEW err \in Errors,
         s.pl.dec \in {"wait", "play"} => err \in {"null", "succ", "broken"}
  PROVE  LET w == ErrDeal(s, err)
         IN  /\ w.pl.dev = s.pl.dev /\ w.pl.dec = s.pl.dec
             /\ (/\ err \notin {"null", "succ", "broken"}
                 /\ \/ s.pl.dev # NoNode \/ err = "dev_nofound"
                    \/ Over(s) /\ err \in {"dev_offline", "dev_read", "fscan"}
                 /\ err = "file_nofound" =>
                      OnlineCheck(s.dm.list, s.pl.dev, TRUE) /\ s.pl.fsn # NoCard)
                => Over(w)
<1> DEFINE z == [s EXCEPT !.pl.errs = 0]
           w == ErrDeal(s, err)
<1>1. /\ Sane(z) /\ z.dm = s.dm /\ z.pl.dev = s.pl.dev /\ z.pl.dec = s.pl.dec
      /\ z.pl.fsn = s.pl.fsn /\ (Over(s) => Over(z))
  <2>1. 0 \in 0..Files
    BY PlayerAssumption
  <2> QED
    BY <2>1, ErrsKeeps
<1>2. w =
        CASE err = "null" -> s
          [] err \in {"succ", "broken"} -> z
          [] err = "no_ram" -> Post(z, "quit")
          [] err = "decode_fail" -> DecodeFailed(s)
          [] err = "dev_nofound" -> PostByTotal(z, "quit", "start")
          [] err \in {"fscan", "dev_read", "dev_offline"} -> DeviceLost(z, err = "fscan")
          [] err = "file_nofound" ->
               IF CurOnline(z) /\ z.pl.fsn # NoCard THEN Post(z, "first")
               ELSE PostByTotal(z, "quit", "change_dev")
  BY DEF ErrDeal
<1> HIDE DEF z, w
<1> DEFINE Good == /\ \/ s.pl.dev # NoNode \/ err = "dev_nofound"
                      \/ Over(s) /\ err \in {"dev_offline", "dev_read", "fscan"}
                   /\ err = "file_nofound" =>
                        OnlineCheck(s.dm.list, s.pl.dev, TRUE) /\ s.pl.fsn # NoCard
           Done == w.pl.dev = s.pl.dev /\ w.pl.dec = s.pl.dec /\ (Good => Over(w))
<1>3. CASE err \in {"null", "succ", "broken"}
  <2>1. w = s \/ w = z
    BY <1>2, <1>3
  <2> QED
    BY <1>1, <1>3, <2>1 DEF w
<1>4. CASE err = "no_ram"
  <2>1. w = Post(z, "quit") /\ Drives(z, <<"quit">>)
    BY <1>2, <1>4 DEF Drives
  <2>2. Done
    BY <1>1, <2>1, PostOver, PostSane DEF Posted
  <2> QED
    BY <2>2 DEF w
<1>5. CASE err = "decode_fail"
  <2>1. w = DecodeFailed(s) /\ (Good => s.pl.dev # NoNode)
    BY <1>2, <1>5
  <2>2. Done
    <3> HIDE DEF Good
    <3> QED
      BY <1>5, <2>1, DecodeFailedOver
  <2> QED
    BY <2>2 DEF w
<1>6. CASE err = "dev_nofound"
  <2>1. w = PostByTotal(z, "quit", "start")
    BY <1>2, <1>6
  <2>2. Done
    BY <1>1, <2>1, PostByTotalOver, PostByTotalKeeps DEF Posted
  <2> QED
    BY <2>2 DEF w
<1>7. CASE err \in {"fscan", "dev_read", "dev_offline"}
  <2> DEFINE b == (err = "fscan")
  <2>1. w = DeviceLost(z, b) /\ b \in BOOLEAN
    BY <1>2, <1>7
  <2> HIDE DEF b
  <2>2. Good => z.pl.dev # NoNode \/ Over(z)
    BY <1>1, <1>7
  <2>3. Done
    <3> HIDE DEF Good
    <3>1. z.pl.dec \notin {"wait", "play"}
      BY <1>1, <1>7
    <3> QED
      BY <1>1, <2>1, <2>2, <3>1, DeviceLostOver
  <2> QED
    BY <2>3 DEF w
<1>8. CASE err = "file_nofound"
  <2>1. \/ w = Post(z, "first") /\ CurOnline(z) /\ z.pl.fsn # NoCard
        \/ w = PostByTotal(z, "quit", "change_dev") /\ ~(CurOnline(z) /\ z.pl.fsn # NoCard)
    BY <1>2, <1>8
  <2>2. Good => CurOnline(z) /\ z.pl.fsn # NoCard /\ Drives(z, <<"first">>)
    <3>1. Good => OnlineCheck(z.dm.list, z.pl.dev, TRUE) /\ z.pl.fsn # NoCard
      BY <1>1, <1>8
    <3> HIDE DEF Good
    <3> QED
      BY <1>1, <3>1, OnlineFound DEF Drives
  <2>3. Done
    <3> HIDE DEF Good
    <3>1. CASE w = Post(z, "first")
      <4>1. Post(z, "first").pl = z.pl /\ (Drives(z, <<"first">>) => Over(Post(z, "first")))
        BY <1>1, PostOver, PostSane DEF Posted
      <4> QED
        BY <1>1, <2>2, <3>1, <4>1
    <3>2. CASE w = PostByTotal(z, "quit", "change_dev") /\ ~Good
      <4>1. PostByTotal(z, "quit", "change_dev").pl = z.pl
        BY <1>1, PostByTotalKeeps DEF Posted
      <4> QED
        BY <1>1, <3>2, <4>1
    <3> QED
      BY <2>1, <2>2, <3>1, <3>2
  <2> QED
    BY <2>3 DEF w
<1> QED
  BY <1>3, <1>4, <1>5, <1>6, <1>7, <1>8 DEF Errors

-----------------------------------------------------------------------------
(* The play functions owe nothing                                          *)

(* What becomes of a result of a play function. *)
Settled(r) == LET w == ErrDeal(r[1], r[2]) IN Rooted(w) /\ GoesOn(w)

(* An error with a device remembered leaves a message that goes on. *)
LEMMA ErrorSettled ==
  ASSUME NEW s, Sane(s), s.pl.dec \notin {"wait", "play"}, s.pl.dev # NoNode,
         NEW err \in Errors \ {"null", "succ", "broken"},
         err = "file_nofound" =>
           OnlineCheck(s.dm.list, s.pl.dev, TRUE) /\ s.pl.fsn # NoCard
  PROVE  Settled(<<s, err>>)
<1> DEFINE w == ErrDeal(s, err)
<1>1. Over(w) /\ w.pl.dev = s.pl.dev
  BY ErrDealOver DEF Errors
<1> HIDE DEF w
<1>2. Rooted(w) /\ GoesOn(w)
  BY <1>1 DEF Rooted, GoesOn
<1> QED
  BY <1>2 DEF Settled, w

(* Whatever becomes of a file selection, it plays or goes on. *)
LEMMA SelectAndDecodeSettled ==
  ASSUME NEW s, Sane(s), s.pl.fsn # NoCard, s.pl.dec \notin {"wait", "play"},
         OnlineCheck(s.dm.list, s.pl.dev, TRUE), NEW miss \in BOOLEAN,
         NEW r \in SelectAndDecode(s, miss)
  PROVE  Settled(r) /\ Rooted(r[1])
<1> DEFINE p == [s.pl EXCEPT !.file = TRUE]
           t == [s EXCEPT !.pl = p]
           open == [s EXCEPT !.pl.file = TRUE]
           A == Aged(open)
           D(how) == Decodes(open, how)
<1>1. s \in HandlerState /\ s.pl \in Player /\ s.pl.dev # NoNode
  BY HandlerParts, OnlineFound DEF Sane
<1>2. p \in Player /\ p.dec = s.pl.dec /\ p.fsn = s.pl.fsn /\ p.dev = s.pl.dev
  BY <1>1 DEF Player
<1>3. open = t
  BY <1>1 DEF HandlerState, Player
<1>4. r \in {<<s, "file_nofound">>, <<open, "no_ram">>, <<A, "decode_fail">>,
             <<D("play"), "succ">>, <<D("wait"), "succ">>}
  BY Zenon DEF SelectAndDecode
<1> HIDE DEF p, open
<1>5. t.dm = s.dm /\ t.pl = p
  BY <1>1 DEF HandlerState
<1>6. Sane(t)
  BY <1>2, PlayerSane
<1> HIDE DEF t
<1>7. /\ Sane(open) /\ open.pl.fsn # NoCard /\ open.pl.dec \notin {"wait", "play"}
      /\ OnlineCheck(open.dm.list, open.pl.dev, TRUE) /\ open.pl.dev # NoNode
  BY <1>1, <1>2, <1>3, <1>5, <1>6
<1>8. Sane(A) /\ A.pl = open.pl
  BY <1>7, AgedSane
<1>9. ASSUME NEW how \in {"wait", "play"}
      PROVE  Sane(D(how)) /\ D(how).pl.dec = how /\ D(how).pl.dev = open.pl.dev
  <2>1. A \in HandlerState /\ A.pl \in Player
    BY <1>8, HandlerParts DEF Sane
  <2>2. D(how) = [A EXCEPT !.pl.dec = how, !.dm = SetActive(A.dm, open.pl.dev)] /\ Sane(D(how))
    BY <1>7, DecodesSane DEF Decodes
  <2> HIDE DEF A, D
  <2>3. D(how).pl = [A.pl EXCEPT !.dec = how]
    BY <2>1, <2>2 DEF HandlerState
  <2> QED
    BY <1>8, <2>1, <2>2, <2>3 DEF Player
<1> HIDE DEF A, D
<1>10. ASSUME NEW how \in {"wait", "play"}
       PROVE  Settled(<<D(how), "succ">>) /\ Rooted(D(how))
  <2> DEFINE S == D(how)
             w == ErrDeal(S, "succ")
  <2>1. Sane(S) /\ S.pl.dec \in {"wait", "play"} /\ S.pl.dev # NoNode
    BY <1>7, <1>9
  <2> HIDE DEF S
  <2>2. w.pl.dec \in {"wait", "play"} /\ w.pl.dev # NoNode
    BY <2>1, ErrDealOver DEF Errors
  <2> HIDE DEF w
  <2>3. Rooted(w) /\ GoesOn(w) /\ Rooted(S)
    BY <2>1, <2>2 DEF Rooted, GoesOn
  <2>4. Settled(<<S, "succ">>)
    BY <2>3 DEF Settled, w
  <2> QED
    BY <2>3, <2>4 DEF S
<1>11. Settled(<<s, "file_nofound">>)
  BY <1>1, ErrorSettled DEF Errors
<1>12. Settled(<<open, "no_ram">>)
  BY <1>7, ErrorSettled DEF Errors
<1>13. Settled(<<A, "decode_fail">>)
  BY <1>7, <1>8, ErrorSettled DEF Errors
<1>14. Rooted(s) /\ Rooted(open) /\ Rooted(A)
  BY <1>1, <1>7, <1>8 DEF Rooted
<1> DEFINE P == D("play")
           W == D("wait")
<1>15. Settled(<<P, "succ">>) /\ Rooted(P) /\ Settled(<<W, "succ">>) /\ Rooted(W)
  BY <1>10
<1>16. r \in {<<s, "file_nofound">>, <<open, "no_ram">>, <<A, "decode_fail">>,
              <<P, "succ">>, <<W, "succ">>}
  BY <1>4
<1> HIDE DEF P, W
<1>17. Settled(r)
  BY Zenon, <1>11, <1>12, <1>13, <1>15, <1>16
<1>18. r[1] \in {s, open, A, P, W}
  BY <1>16
<1> QED
  BY <1>14, <1>15, <1>17, <1>18

-----------------------------------------------------------------------------
(* The steps                                                               *)

(* The ranking of the stamps changes nothing of this. *)
LEMMA BecomeOwed ==
  ASSUME NEW s, Sane(s), Become(s)
  PROVE  /\ Rooted(s) => Rooted(Scanned')
         /\ GoesOn(s) => GoesOn(Scanned')
<1> DEFINE d == Ranked(s.dm)
<1>1. WellFormed(s.dm) /\ dm' = d /\ pl' = s.pl /\ q' = s.q
  BY DEF Sane, Become
<1>2. Scanned'.dm = dm' /\ Scanned'.pl = s.pl /\ Scanned'.q = s.q
  BY <1>1 DEF Scanned
<1>3. SameEntries(s.dm.list, d.list)
  <2>1. /\ DOMAIN d.list = DOMAIN s.dm.list
        /\ \A i \in DOMAIN s.dm.list :
             /\ d.list[i].node = s.dm.list[i].node /\ d.list[i].logo = s.dm.list[i].logo
             /\ d.list[i].fmnt = s.dm.list[i].fmnt /\ d.list[i].valid = s.dm.list[i].valid
    BY <1>1, RankedEntries
  <2> HIDE DEF d
  <2> QED
    BY <2>1 DEF SameEntries
<1> HIDE DEF d
<1> DEFINE t == Scanned'
<1>4. t.dm.list = d.list /\ t.pl = s.pl /\ t.q = s.q
  BY <1>1, <1>2
<1> HIDE DEF t
<1>5. Over(s) => Over(t)
  BY <1>3, <1>4, OverKept
<1>6. (Rooted(s) => Rooted(t)) /\ (GoesOn(s) => GoesOn(t))
  BY <1>4, <1>5 DEF Rooted, GoesOn
<1> QED
  BY <1>6 DEF t

(* A handler that ends with one of some results; a mode key that broke off *)
(* a scan (cut) owes nothing until something is played again.              *)
LEMMA FinishOwed ==
  ASSUME NEW results, \A r \in results : Fine(r) /\ Rooted(r[1]),
         ~tone /\ ~cut => \A r \in results : Settled(r),
         Finish(results), Stays
  PROVE  Owed'
<1>1. PICK r \in results : Become(ErrDeal(r[1], r[2]))
  BY DEF Finish
<1> DEFINE w == ErrDeal(r[1], r[2])
<1>2. Sane(w) /\ Rooted(w)
  <2> DEFINE s == r[1]
             err == r[2]
  <2>1. /\ Sane(s) /\ err \in Errors /\ (s.pl.dec \in {"wait", "play"} => err \in {"null", "succ", "broken"})
        /\ Rooted(s)
    BY <1>1 DEF Fine
  <2> HIDE DEF s, err
  <2>2. Sane(ErrDeal(s, err)) /\ Rooted(ErrDeal(s, err))
    BY <2>1, ErrDealSane, ErrDealOver DEF Rooted
  <2> QED
    BY <2>2 DEF s, err
<1>3. Become(w) /\ (~tone /\ ~cut => GoesOn(w))
  BY <1>1 DEF Settled
<1> HIDE DEF w
<1>4. Rooted(Scanned') /\ (GoesOn(w) => GoesOn(Scanned')) /\ Scanned'.pl = pl'
  BY <1>2, <1>3, BecomeOwed DEF Scanned
<1>5. pc' = "get" /\ tone' = tone /\ cut' = (cut /\ pl'.dec = "none")
  BY DEF Finish, Stays
<1>6. ~cut' /\ ~tone' => GoesOn(Scanned')
  <2>1. CASE cut
    BY <1>4, <1>5, <2>1 DEF GoesOn
  <2>2. CASE ~cut
    BY <1>3, <1>4, <1>5, <2>2
  <2> QED
    BY <2>1, <2>2
<1> QED
  BY <1>4, <1>5, <1>6 DEF Owed

(* A device found by a search is scanned; without one there is a message. *)
LEMMA PlayOnOwed ==
  ASSUME NEW s0, Sane(s0), NEW n, FoundUsable(s0.dm.list, n, TRUE), PlayOn(s0, n), Stays
  PROVE  Owed'
<1> DEFINE a == Stop(s0, TRUE)
           p == [a.pl EXCEPT !.dev = n]
           s == [a EXCEPT !.pl = p]
           L == s0.dm.list
<1>1. Sane(a) /\ a.dm = s0.dm /\ a.q = s0.q /\ a.pl.dec = "none" /\ a.pl.fsn = NoCard
  BY StopSane
<1>2. a \in HandlerState /\ a.pl \in Player /\ L \in Seq(Dev)
  BY <1>1, HandlerParts DEF Sane, WellFormed
<1>3. n \in Node \cup {NoNode}
  <2>1. n # NoNode => \E i \in Usable(L, TRUE) : L[i].node = n
    BY DEF FoundUsable
  <2>2. \A i \in DOMAIN L : L[i].node \in Node
    BY <1>2, EntryTypes
  <2> QED
    BY <2>1, <2>2 DEF Usable
<1>4. [a EXCEPT !.pl.dev = n] = s
  BY <1>2 DEF HandlerState, Player
<1>5. IF n = NoNode THEN Finish({<<s, "dev_nofound">>}) ELSE Become(s) /\ pc' = "scan" /\ cut' = FALSE
  <2> HIDE DEF a, s
  <2>1. LET t == [a EXCEPT !.pl.dev = n]
        IN  IF n = NoNode THEN Finish({<<t, "dev_nofound">>})
            ELSE Become(t) /\ pc' = "scan" /\ cut' = FALSE
    BY Zenon DEF PlayOn, a
  <2> QED
    BY Zenon, <1>4, <2>1
<1> HIDE DEF a
<1>6. p \in Player /\ p.dec = "none" /\ p.fsn = NoCard /\ p.dev = n
  BY <1>1, <1>2, <1>3 DEF Player
<1> HIDE DEF p
<1>7. Sane(s) /\ s.dm = s0.dm /\ s.pl = p /\ s.q = s0.q
  <2>1. Sane(s)
    BY <1>1, <1>6, PlayerSane
  <2> QED
    BY <1>1, <1>2, <2>1 DEF HandlerState
<1> HIDE DEF s
<1>8. Rooted(s)
  BY <1>6, <1>7 DEF Rooted
<1>9. CASE n = NoNode
  <2> DEFINE R == {<<s, "dev_nofound">>}
             w == ErrDeal(s, "dev_nofound")
  <2>1. Over(w) /\ w.pl.dec = "none"
    BY <1>6, <1>7, ErrDealOver DEF Errors
  <2> HIDE DEF w
  <2>2. Settled(<<s, "dev_nofound">>)
    <3>1. Rooted(w) /\ GoesOn(w)
      BY <2>1 DEF Rooted, GoesOn
    <3> QED
      BY <3>1 DEF Settled, w
  <2>3. Finish(R) /\ \A r \in R : Fine(r) /\ Rooted(r[1]) /\ Settled(r)
    BY <1>5, <1>6, <1>7, <1>8, <1>9, <2>2 DEF Fine, Errors
  <2> HIDE DEF R
  <2> QED
    BY <2>3, FinishOwed
<1>10. CASE n # NoNode
  <2>1. Become(s) /\ pc' = "scan"
    BY <1>5, <1>10
  <2>2. Rooted(Scanned')
    BY <1>7, <1>8, <2>1, BecomeOwed
  <2> QED
    BY <2>1, <2>2 DEF Owed
<1> QED
  BY <1>9, <1>10

(* The head message is taken: if it drove nothing, what did is still there. *)
LEMMA NowOver ==
  ASSUME PlayerInv, q # <<>>, Over(Scanned), ~Drives(Scanned, Head(q))
  PROVE  Over(Now)
<1> DEFINE s == Scanned
           m == Tail(q)
<1>1. q \in Seq(Message) /\ s.q = q /\ s.dm = dm /\ s.pl = pl
  <2>1. s \in HandlerState /\ s.q = q /\ s.dm = dm /\ s.pl = pl
    BY DEF PlayerInv, Sane, Scanned
  <2> HIDE DEF s
  <2> QED
    BY <2>1, HandlerParts
<1>2. Now.dm = dm /\ Now.pl = pl /\ Now.q = m
  BY DEF Now
<1>3. CASE Usable(s.dm.list, TRUE) = {}
  BY <1>1, <1>2, <1>3 DEF Over
<1>4. CASE \E i \in DOMAIN s.q : Drives(s, s.q[i])
  <2> HIDE DEF s
  <2>1. PICK i \in DOMAIN q : Drives(s, q[i])
    BY <1>1, <1>4
  <2>2. i - 1 \in DOMAIN m /\ m[i - 1] = q[i]
    <3>1. q[1] = Head(q) /\ DOMAIN q = 1..Len(q)
      BY <1>1
    <3>2. i # 1
      BY <2>1, <3>1 DEF s
    <3> QED
      BY <1>1, <3>2
  <2>3. Drives(Now, q[i])
    BY <1>1, <1>2, <2>1 DEF Drives, DevCur
  <2> QED
    BY <1>2, <2>2, <2>3 DEF Over
<1> QED
  BY <1>3, <1>4 DEF Over

(* What the state was before a handler. *)
LEMMA TakenOwed ==
  ASSUME OweInv, q # <<>>, mode = "music", pc = "get"
  PROVE  /\ Sane(Now) /\ Now.dm = dm /\ Now.pl = pl /\ Rooted(Now)
         /\ Head(q) \in Message /\ q \in Seq(Message) /\ dm.list \in Seq(Dev) /\ WellFormed(dm)
         /\ pl \in Player
         /\ ~tone /\ ~cut /\ ~Drives(Scanned, Head(q)) => GoesOn(Now)
<1>1. /\ PlayerInv /\ Sane(Now) /\ Now.dm = dm /\ Now.pl = pl /\ Head(q) \in Message
  BY NowSane DEF OweInv
<1>2. Scanned.pl = pl /\ Rooted(Scanned) /\ (~tone /\ ~cut => GoesOn(Scanned))
  BY DEF OweInv, Owed, Scanned
<1>3. Sane(Scanned) /\ Scanned.q = q
  BY <1>1 DEF PlayerInv, Scanned
<1>4. q \in Seq(Message)
  BY <1>3, HandlerParts DEF Sane
<1>5. Rooted(Now)
  BY <1>1, <1>2 DEF Rooted
<1>6. ~tone /\ ~cut /\ ~Drives(Scanned, Head(q)) => GoesOn(Now)
  BY <1>1, <1>2, NowOver DEF GoesOn
<1>7. dm.list \in Seq(Dev) /\ WellFormed(dm) /\ pl \in Player
  BY <1>1, HandlerParts DEF Sane, WellFormed
<1> QED
  BY <1>1, <1>4, <1>5, <1>6, <1>7

(* A handler that does nothing, when its message drove nothing. *)
LEMMA NullOwed ==
  ASSUME Sane(Now), Rooted(Now), ~tone /\ ~cut => GoesOn(Now), Finish({<<Now, "null">>}), Stays
  PROVE  Owed'
<1> DEFINE R == {<<Now, "null">>}
           w == ErrDeal(Now, "null")
<1>1. w = Now
  BY DEF ErrDeal
<1>2. ~tone /\ ~cut => Settled(<<Now, "null">>)
  <2>1. ~tone /\ ~cut => Rooted(w) /\ GoesOn(w)
    BY <1>1
  <2> HIDE DEF w
  <2> QED
    BY <2>1 DEF Settled, w
<1>3. /\ \A r \in R : Fine(r) /\ Rooted(r[1])
      /\ ~tone /\ ~cut => \A r \in R : Settled(r)
      /\ Finish(R)
  BY <1>2 DEF Fine, Errors
<1> HIDE DEF R
<1> QED
  BY <1>3, FinishOwed

(* A handler that plays another file of the device: it looks the file up,  *)
(* or there is an error, which without a device leaves things as they are. *)
LEMMA PlayHereOwed ==
  ASSUME Sane(Now), ~tone /\ ~cut /\ Now.pl.dev = NoNode => Over(Now), PlayHere(Now), Stays
  PROVE  Owed'
<1> DEFINE s == Stop(Now, FALSE)
<1>1. /\ Sane(s) /\ s.pl.dec = "none" /\ s.dm = Now.dm /\ s.q = Now.q /\ s.pl.dev = Now.pl.dev
  BY StopSane
<1>2. \/ \E err \in {"dev_offline", "fscan"} : Finish({<<s, err>>})
      \/ Become(s) /\ pc' = "look"
  BY DEF PlayHere
<1> HIDE DEF s
<1>3. Rooted(s)
  BY <1>1 DEF Rooted
<1>4. ASSUME NEW err \in {"dev_offline", "fscan"}, Finish({<<s, err>>}) PROVE Owed'
  <2> DEFINE w == ErrDeal(s, err)
             R == {<<s, err>>}
  <2>1. Over(Now) => Over(s)
    BY <1>1, OverKept DEF SameEntries
  <2>2. w.pl.dec = "none" /\ (~tone /\ ~cut => Over(w))
    BY <1>1, <2>1, ErrDealOver DEF Errors
  <2> HIDE DEF w
  <2>3. ~tone /\ ~cut => Settled(<<s, err>>)
    <3>1. ~tone /\ ~cut => Rooted(w) /\ GoesOn(w)
      BY <2>2 DEF Rooted, GoesOn
    <3> QED
      BY <3>1 DEF Settled, w
  <2>4. /\ \A r \in R : Fine(r) /\ Rooted(r[1])
        /\ ~tone /\ ~cut => \A r \in R : Settled(r)
        /\ Finish(R)
    BY <1>1, <1>3, <1>4, <2>3 DEF Fine, Errors
  <2> HIDE DEF R
  <2> QED
    BY <2>4, FinishOwed
<1>5. CASE Become(s) /\ pc' = "look"
  <2>1. Rooted(Scanned')
    BY <1>1, <1>3, <1>5, BecomeOwed
  <2> QED
    BY <1>5, <2>1 DEF Owed
<1> QED
  BY <1>2, <1>4, <1>5

(* A node that a search finds has a logo. *)
LEMMA FoundLogo ==
  ASSUME NEW s, NEW n, FoundUsable(s, n, TRUE), n # NoNode
  PROVE  GetLogo(s, n) # {}
<1>1. PICK i \in Usable(s, TRUE) : s[i].node = n
  BY DEF FoundUsable
<1>2. i \in {j \in Usable(s, FALSE) : s[j].node = n}
  BY <1>1 DEF Usable
<1>3. s[i].logo \in GetLogo(s, n)
  BY <1>2 DEF GetLogo
<1> QED
  BY <1>3

(* Start: what plays goes on, what can be played is scanned, or there is   *)
(* nothing to play.                                                        *)
LEMMA StartOwed == ASSUME OweInv, Start PROVE Owed'
<1> DEFINE n == FindActive(dm.list, TRUE)
           logo == GetLogo(dm.list, n)
<1>1. mode = "music" /\ pc = "get" /\ q # <<>> /\ Stays
  BY DEF Start, Takes
<1>2. Sane(Now) /\ Now.dm = dm /\ Now.pl = pl /\ Rooted(Now) /\ dm.list \in Seq(Dev) /\ WellFormed(dm)
  BY <1>1, TakenOwed
<1>3. \/ pl.dec # "none" /\ Finish({<<Now, "null">>})
      \/ logo = {} /\ PlayHere(Now)
      \/ \E l \in logo : PlayOn(Now, FindSpec(dm.list, l, TRUE))
  BY DEF Start
<1>4. logo = {} => Usable(dm.list, TRUE) = {}
  <2>1. FoundUsable(dm.list, n, TRUE) /\ (Usable(dm.list, TRUE) # {} => n # NoNode)
    BY <1>2, FindActiveUsable, FindActiveSome
  <2> HIDE DEF n
  <2> QED
    BY <2>1, FoundLogo
<1> HIDE DEF logo
<1>5. CASE pl.dec # "none" /\ Finish({<<Now, "null">>})
  BY <1>1, <1>2, <1>5, NullOwed DEF GoesOn
<1>6. CASE logo = {} /\ PlayHere(Now)
  <2>1. Over(Now)
    BY <1>2, <1>4, <1>6 DEF Over
  <2> QED
    BY <1>1, <1>2, <1>6, <2>1, PlayHereOwed
<1>7. CASE \E l \in logo : PlayOn(Now, FindSpec(dm.list, l, TRUE))
  <2>1. PICK l \in logo : PlayOn(Now, FindSpec(dm.list, l, TRUE))
    BY <1>7
  <2> DEFINE x == FindSpec(dm.list, l, TRUE)
  <2>2. FoundUsable(Now.dm.list, x, TRUE) /\ PlayOn(Now, x)
    BY <1>2, <2>1, FindSpecUsable
  <2> HIDE DEF x
  <2> QED
    BY <1>1, <1>2, <2>2, PlayOnOwed
<1> QED
  BY <1>3, <1>5, <1>6, <1>7

(* Another file, by message or at the end of a track. *)
LEMMA FileOwed == ASSUME OweInv, NextFile \/ End PROVE Owed'
<1> DEFINE m == Head(q)
<1>1. mode = "music" /\ pc = "get" /\ q # <<>> /\ Stays /\ m[1] \in {"next", "first", "end"}
  BY DEF NextFile, End, Takes
<1>2. Sane(Now) /\ Now.dm = dm /\ Now.pl = pl /\ Rooted(Now) /\ q \in Seq(Message)
  BY <1>1, TakenOwed
<1>3. Scanned.pl = pl
  BY DEF Scanned
<1>4. ~tone /\ ~cut /\ Now.pl.dev = NoNode => Over(Now)
  <2>1. Now.pl.dev = NoNode => ~Drives(Scanned, m)
    BY <1>1, <1>2, <1>3 DEF Drives
  <2>2. Now.pl.dev = NoNode => Now.pl.dec = "none"
    BY <1>2 DEF Rooted
  <2> QED
    BY <1>1, <2>1, <2>2, TakenOwed DEF GoesOn
<1>5. CASE PlayHere(Now)
  BY <1>1, <1>2, <1>4, <1>5, PlayHereOwed
<1>6. CASE End /\ m[2] /\ m[3]
  <2> DEFINE R == {<<Now, "dev_read">>}
             w == ErrDeal(Now, "dev_read")
  <2>1. Finish(R)
    <3>1. Finish({<<Now, IF m[3] THEN "dev_read" ELSE "null">>})
      BY <1>6 DEF End
    <3> QED
      BY Zenon, <1>6, <3>1
  <2>2. Now.pl.dec \notin {"wait", "play"}
    <3>1. Sane(Scanned) /\ Scanned.q = q
      BY DEF OweInv, PlayerInv, Scanned
    <3>2. 1 \in DOMAIN q /\ m = q[1] /\ m[1] = "end"
      BY <1>1, <1>2, <1>6 DEF End, Takes
    <3> QED
      BY <1>2, <1>3, <1>6, <3>1, <3>2 DEF Sane, Playing, Late
  <2>3. /\ w.pl.dev = Now.pl.dev /\ w.pl.dec = Now.pl.dec
        /\ (Now.pl.dev # NoNode \/ Over(Now) => Over(w))
    BY <1>2, <2>2, ErrDealOver DEF Errors
  <2> HIDE DEF w
  <2>4. ~tone /\ ~cut => Settled(<<Now, "dev_read">>)
    <3>1. ~tone /\ ~cut => Rooted(w) /\ GoesOn(w)
      BY <1>2, <1>4, <2>3 DEF Rooted, GoesOn
    <3> QED
      BY <3>1 DEF Settled, w
  <2>5. /\ \A r \in R : Fine(r) /\ Rooted(r[1])
        /\ ~tone /\ ~cut => \A r \in R : Settled(r)
    BY <1>2, <2>2, <2>4 DEF Fine, Errors
  <2> HIDE DEF R
  <2> QED
    BY <1>1, <2>1, <2>5, FinishOwed
<1>7. CASE End /\ m[2] /\ ~m[3]
  <2>1. Finish({<<Now, "null">>})
    <3>1. Finish({<<Now, IF m[3] THEN "dev_read" ELSE "null">>})
      BY <1>7 DEF End
    <3> QED
      BY Zenon, <1>7, <3>1
  <2>2. ~Drives(Scanned, m)
    <3>1. m[1] = "end"
      BY <1>7 DEF End, Takes
    <3> QED
      BY <1>7, <3>1 DEF Drives
  <2>3. ~tone /\ ~cut => GoesOn(Now)
    BY <1>1, <2>2, TakenOwed
  <2> QED
    BY <1>1, <1>2, <2>1, <2>3, NullOwed
<1>8. CASE End /\ ~m[2]
  <2>1. PlayHere(Now)
    BY <1>8 DEF End
  <2> QED
    BY <1>5, <2>1
<1> QED
  BY <1>5, <1>6, <1>7, <1>8 DEF NextFile

(* The change to another device, which is there when there is a lost one   *)
(* to change from and any to play.                                         *)
LEMMA ChangeDevOwed == ASSUME OweInv, ChangeDev PROVE Owed'
<1> DEFINE n == FindNext(dm.list, pl.dev, TRUE)
<1>1. mode = "music" /\ pc = "get" /\ q # <<>> /\ Stays /\ Head(q)[1] = "change_dev"
  BY DEF ChangeDev, Takes
<1>2. /\ Sane(Now) /\ Now.dm = dm /\ Now.pl = pl /\ Rooted(Now) /\ dm.list \in Seq(Dev)
      /\ WellFormed(dm)
  BY <1>1, TakenOwed
<1>3. \/ GetLogo(dm.list, n) = {} /\ Finish({<<Now, "null">>})
      \/ PlayOn(Now, n)
  BY DEF ChangeDev
<1>4. FoundUsable(Now.dm.list, n, TRUE)
  BY <1>2, FindNextUsable
<1>5. Lost(Now) /\ n = NoNode => Usable(dm.list, TRUE) = {}
  BY <1>2, FindNextSome DEF Lost
<1> HIDE DEF n
<1>6. CASE PlayOn(Now, n)
  BY <1>1, <1>2, <1>4, <1>6, PlayOnOwed
<1>7. CASE GetLogo(dm.list, n) = {} /\ Finish({<<Now, "null">>})
  <2>1. n = NoNode
    BY <1>2, <1>4, <1>7, FoundLogo
  <2>2. CASE Lost(Now)
    <3>1. GoesOn(Now)
      BY <1>2, <1>5, <2>1, <2>2 DEF GoesOn, Over
    <3> QED
      BY <1>1, <1>2, <1>7, <3>1, NullOwed
  <2>3. CASE ~Lost(Now)
    <3>1. Scanned.pl = pl /\ Scanned.dm = dm
      BY DEF Scanned
    <3>2. ~Drives(Scanned, Head(q))
      BY <1>1, <1>2, <2>3, <3>1 DEF Drives, Lost
    <3>3. ~tone /\ ~cut => GoesOn(Now)
      BY <1>1, <3>2, TakenOwed
    <3> QED
      BY <1>1, <1>2, <1>7, <3>3, NullOwed
  <2> QED
    BY <2>2, <2>3
<1> QED
  BY <1>3, <1>6, <1>7

(* Outside of the mode nothing is owed. *)
LEMMA OtherOwed == ASSUME PlayerInv', mode' = "other" PROVE Owed'
<1>1. pl' = NoPlayer /\ pc' = "get"
  BY DEF PlayerInv
<1>2. Scanned'.pl = NoPlayer
  BY <1>1 DEF Scanned
<1> QED
  BY <1>1, <1>2, NoPlayerType DEF Owed, Rooted

(* The mode key: another device, another mode, or nothing. *)
LEMMA ModeKeyOwed == ASSUME OweInv, ModeKey, PlayerInv' PROVE Owed'
<1>1. mode = "music" /\ pc = "get" /\ q # <<>> /\ Head(q)[1] = "mode"
  BY DEF ModeKey, Takes
<1>2. Sane(Now) /\ Rooted(Now) /\ (~tone /\ ~cut => GoesOn(Now))
  <2>1. ~Drives(Scanned, Head(q))
    BY <1>1 DEF Drives
  <2> QED
    BY <1>1, <2>1, TakenOwed
<1>3. CASE Become(Post(Now, "change_dev")) /\ UNCHANGED <<pc, cut>> /\ Stays
  <2> DEFINE s == Post(Now, "change_dev")
  <2>1. Sane(s) /\ s.pl = Now.pl /\ Become(s) /\ (Over(Now) => Over(s))
    BY <1>2, <1>3, PostSane, PostOver DEF Posted
  <2> HIDE DEF s
  <2>2. Rooted(s) /\ (~tone /\ ~cut => GoesOn(s))
    BY <1>2, <2>1 DEF Rooted, GoesOn
  <2>3. Rooted(Scanned') /\ (GoesOn(s) => GoesOn(Scanned'))
    BY <2>1, <2>2, BecomeOwed
  <2> QED
    BY <1>1, <1>3, <2>2, <2>3 DEF Owed, Stays
<1>4. CASE Leave
  BY <1>4, OtherOwed DEF Leave
<1>5. CASE Finish({<<Now, "null">>}) /\ Stays
  BY <1>2, <1>5, NullOwed
<1> QED
  BY <1>3, <1>4, <1>5 DEF ModeKey

(* dev_status_event_filter leaves the queue alone. *)
LEMMA FilteredQueue ==
  ASSUME NEW s, Sane(s), NEW m, NEW r \in Filtered(s, m)
  PROVE  r.q = s.q
<1>1. r = s \/ \E d : r = [s EXCEPT !.dm = d]
  BY DEF Filtered
<1>2. \A d : [s EXCEPT !.dm = d].q = s.q
  BY DEF Sane, HandlerState
<1> QED
  BY <1>1, <1>2

(* A removal of another card than the current one. *)
LEMMA DelDeviceOver ==
  ASSUME NEW s, Sane(s), NEW c, DevCur(s) # {CardLogo(c)}, Over(s), NEW t, Sane(t),
         t.dm = DelDevice(s.dm, c), t.pl = s.pl, t.q = s.q
  PROVE  Over(t)
<1> DEFINE L == s.dm.list
           K == t.dm.list
<1>1. Thinned(L, K, {CardLogo(c), RecLogo(c)})
  <2>1. WellFormed(s.dm)
    BY DEF Sane
  <2>2. Follows(L, s.dm.counter, s.dm) /\ s.dm.counter \in Nat
    BY <2>1, FollowsItself DEF WellFormed
  <2> QED
    BY <2>2, DelDeviceFollows
<1> HIDE DEF K, L
<1>2. \A j \in DOMAIN K : \E i \in DOMAIN L : K[j] = L[i]
  BY <1>1 DEF Thinned
<1>3. Usable(L, TRUE) = {} => Usable(K, TRUE) = {}
  BY <1>2 DEF Usable
<1>4. OnlineCheck(K, t.pl.dev, TRUE) => OnlineCheck(L, s.pl.dev, TRUE)
  BY <1>2 DEF OnlineCheck, Usable
<1>5. ASSUME NEW x, DevCur(s) = {CardLogo(x)} PROVE DevCur(t) = {CardLogo(x)}
  <2>1. x # c
    BY <1>5
  <2>2. PICK i \in Usable(L, FALSE) : L[i].node = s.pl.dev /\ L[i].logo = CardLogo(x)
    <3> DEFINE I == {j \in Usable(L, FALSE) : L[j].node = s.pl.dev}
    <3>1. DevCur(s) = {L[j].logo : j \in I}
      BY DEF DevCur, GetLogo, L
    <3>2. CardLogo(x) \in DevCur(s)
      BY <1>5
    <3> HIDE DEF I
    <3>3. \E j \in I : L[j].logo = CardLogo(x)
      BY <3>1, <3>2
    <3> QED
      BY <3>3 DEF I
  <2>3. L[i].logo \notin {CardLogo(c), RecLogo(c)} /\ i \in DOMAIN L
    BY <2>1, <2>2 DEF CardLogo, RecLogo, Usable
  <2>4. PICK j \in DOMAIN K : K[j] = L[i]
    BY <1>1, <2>3 DEF Thinned
  <2>5. j \in Usable(K, FALSE) /\ K[j].node = t.pl.dev
    BY <2>2, <2>4 DEF Usable
  <2>6. DevCur(t) = {K[j].logo}
    BY <2>5, CurOne DEF K
  <2> QED
    BY <2>2, <2>4, <2>6
<1>6. CASE Usable(L, TRUE) = {}
  BY <1>3, <1>6 DEF Over, K
<1>7. CASE \E i \in DOMAIN s.q : Drives(s, s.q[i])
  <2>1. PICK i \in DOMAIN s.q : Drives(s, s.q[i])
    BY <1>7
  <2>2. Drives(t, s.q[i])
    BY Zenon, <1>4, <1>5, <2>1 DEF Drives, K, L
  <2> QED
    BY <2>1, <2>2 DEF Over
<1> QED
  BY <1>6, <1>7 DEF Over, L

(* Another device in, another out. *)
LEMMA DeviceOwed == ASSUME OweInv, DeviceIn \/ DeviceOut PROVE Owed'
<1> DEFINE m == Head(q)
           a == Stop(Now, TRUE)
           b == Post(a, "start")
<1>1. mode = "music" /\ pc = "get" /\ q # <<>> /\ UNCHANGED <<pc, cut>> /\ Stays
  BY DEF DeviceIn, DeviceOut, Takes
<1>2. Sane(Now) /\ Now.dm = dm /\ Now.pl = pl /\ Rooted(Now) /\ m \in Message
  BY <1>1, TakenOwed
<1>3. Sane(a) /\ a.pl.dec = "none" /\ a.pl.fsn = NoCard
  BY <1>2, StopSane
<1> HIDE DEF a
<1>4. Sane(b) /\ b.pl = a.pl
  BY <1>3, PostSane DEF Posted
<1>5. \E i \in DOMAIN b.q : b.q[i] = <<"start">>
  <2> DEFINE r == Append(a.q, <<"start">>)
  <2>1. a.q \in Seq(Message) /\ <<"start">> \in Message /\ a \in HandlerState
    BY <1>3, HandlerParts DEF Sane, Message, Posted
  <2>2. DOMAIN r = 1..(Len(a.q) + 1) /\ r[Len(a.q) + 1] = <<"start">>
    BY <2>1, AppendEntries
  <2>3. Len(a.q) \in Nat /\ b.q = r
    BY <2>1 DEF Post, HandlerState
  <2> DEFINE k == Len(a.q) + 1
  <2>4. k \in DOMAIN r /\ r[k] = <<"start">>
    BY <2>2, <2>3
  <2> HIDE DEF r, b, k
  <2>5. k \in DOMAIN b.q /\ b.q[k] = <<"start">>
    BY <2>3, <2>4
  <2> QED
    BY <2>5
<1> HIDE DEF b
<1>6. ASSUME NEW s \in Filtered(b, m), Sane(s), s.pl = b.pl, Become(s) PROVE Owed'
  <2>1. s.q = b.q
    BY <1>4, <1>6, FilteredQueue
  <2>2. Over(s)
    <3>1. PICK i \in DOMAIN s.q : s.q[i] = <<"start">>
      BY <1>5, <2>1
    <3>2. Drives(s, s.q[i])
      BY <3>1 DEF Drives
    <3> QED
      BY <3>2 DEF Over
  <2>3. Rooted(s) /\ GoesOn(s)
    BY <1>3, <1>4, <1>6, <2>2 DEF Rooted, GoesOn
  <2>4. Rooted(Scanned') /\ GoesOn(Scanned')
    BY <1>6, <2>3, BecomeOwed
  <2> QED
    BY <1>1, <2>4 DEF Owed
<1>7. CASE DeviceIn
  <2>1. m[1] = "in"
    BY <1>7 DEF DeviceIn, Takes
  <2>2. PICK s \in Filtered(b, m) : Become(s)
    BY <1>7 DEF DeviceIn, a, b
  <2>3. Sane(s) /\ s.pl = b.pl
    BY <1>3, <1>4, <2>1, <2>2, FilteredIn
  <2> QED
    BY <1>6, <2>2, <2>3
<1>8. CASE DeviceOut
  <2> DEFINE c == m[2]
             f == StopFor(Now, c)
  <2>1. m[1] = "out"
    BY <1>8 DEF DeviceOut, Takes
  <2>2. PICK s \in Filtered(f, m) : Become(s)
    BY <1>8 DEF DeviceOut
  <2>3. Sane(f) /\ (f.pl.dec \in {"wait", "play"} => f.pl.fsn # c)
    BY <1>2, StopForSane
  <2>4. CASE DevCur(Now) = {CardLogo(c)}
    <3>1. f = b
      BY <2>4 DEF StopFor, a, b
    <3> HIDE DEF f
    <3>2. Sane(s) /\ s.pl = b.pl
      BY <2>1, <2>2, <2>3, <3>1, FilteredOut
    <3> QED
      BY <1>6, <2>2, <3>1, <3>2
  <2>5. CASE DevCur(Now) # {CardLogo(c)}
    <3>1. f = Now
      BY <2>5 DEF StopFor
    <3> HIDE DEF f
    <3>2. Sane(s) /\ s.pl = Now.pl
      BY <2>1, <2>2, <2>3, <3>1, FilteredOut
    <3>3. s.q = Now.q /\ s.dm = DelDevice(Now.dm, c)
      <4>1. s = [Now EXCEPT !.dm = DelDevice(@, c)]
        BY <2>1, <2>2, <3>1 DEF Filtered
      <4>2. Now = [dm |-> dm, pl |-> pl, q |-> Tail(q)]
        BY DEF Now
      <4> QED
        BY <4>1, <4>2
    <3>4. ~tone /\ ~cut => GoesOn(Now)
      <4>1. DevCur(Scanned) = DevCur(Now)
        BY DEF DevCur, Scanned, Now
      <4>2. ~Drives(Scanned, m)
        BY <2>1, <2>5, <4>1 DEF Drives
      <4> QED
        BY <1>1, <4>2, TakenOwed
    <3>5. ~tone /\ ~cut => GoesOn(s)
      BY <1>2, <2>5, <3>2, <3>3, <3>4, DelDeviceOver DEF GoesOn
    <3>6. Rooted(s)
      BY <1>2, <3>2 DEF Rooted
    <3>7. Rooted(Scanned') /\ (GoesOn(s) => GoesOn(Scanned'))
      BY <2>2, <3>2, <3>6, BecomeOwed
    <3> QED
      BY <1>1, <3>5, <3>7 DEF Owed, Stays
  <2> QED
    BY <2>4, <2>5
<1> QED
  BY <1>7, <1>8

-----------------------------------------------------------------------------
(* The scan                                                                *)

(* Any message at the end of the queue. *)
LEMMA ComesOver ==
  ASSUME NEW s, NEW t, s.q \in Seq(Message), NEW e \in Message, t.q = Append(s.q, e),
         t.dm = s.dm, t.pl.dev = s.pl.dev
  PROVE  /\ Over(s) => Over(t)
         /\ Drives(s, e) => Over(t)
<1> DEFINE r == Append(s.q, e)
           k == Len(s.q) + 1
<1>1. /\ DOMAIN r = 1..k /\ DOMAIN s.q = 1..Len(s.q) /\ Len(s.q) \in Nat
      /\ (\A j \in 1..Len(s.q) : r[j] = s.q[j]) /\ r[k] = e
  BY AppendEntries
<1>2. k \in DOMAIN r /\ r[k] = e /\ \A i \in DOMAIN s.q : i \in DOMAIN r /\ r[i] = s.q[i]
  BY <1>1
<1> HIDE DEF r, k
<1>3. t.q = r /\ SameEntries(s.dm.list, t.dm.list)
  BY DEF r, SameEntries
<1>4. \A i \in DOMAIN s.q : \E j \in DOMAIN t.q : t.q[j] = s.q[i]
  BY <1>2, <1>3
<1>5. (Drives(s, e) => Drives(t, e)) /\ (Over(s) => Over(t))
  BY <1>3, <1>4, OverKept
<1>6. Drives(t, e) => Over(t)
  <2>1. k \in DOMAIN t.q /\ t.q[k] = e
    BY <1>2, <1>3
  <2> QED
    BY <2>1 DEF Over
<1> QED
  BY <1>5, <1>6

(* A message taken in a scan: one that breaks it off is put back and       *)
(* drives the mode, unless it is the mode key; the scan goes on after any  *)
(* other.                                                                  *)
LEMMA ScanTakesOwed == ASSUME OweInv, ScanTakes PROVE Owed'
<1> DEFINE m == Head(q)
<1>1. pc # "get" /\ q # <<>>
  BY DEF ScanTakes
<1>2. /\ Sane(Now) /\ Parked(Now) /\ Now.dm = dm /\ Now.pl = pl /\ Now.q = Tail(q)
      /\ m \in Message /\ Tail(q) \in Seq(Message)
  BY <1>1, NowSane DEF OweInv, PlayerInv
<1>3. Rooted(Now)
  BY <1>2 DEF Parked, Rooted
<1>4. Now.pl.dev # NoNode /\ \E c \in Card : DevCur(Now) = {CardLogo(c)}
  BY <1>2, ScanOne
<1>5. ScanCard \in Card /\ DevCur(Now) = {CardLogo(ScanCard)}
  <2>1. PICK c \in Card : DevCur(Now) = {CardLogo(c)}
    BY <1>4
  <2> HIDE DEF m
  <2>2. ScanCard \in Card /\ CardLogo(ScanCard) \in DevCur(Now)
    BY <2>1 DEF ScanCard
  <2> QED
    BY <2>1, <2>2
<1>6. CASE /\ Breaks(m) /\ Become(ErrDeal([Now EXCEPT !.q = Append(@, m)], "broken"))
           /\ pc' = "get" /\ cut' = (m[1] = "mode")
  <2> DEFINE r == Append(Tail(q), m)
             s == [Now EXCEPT !.q = r]
             w == [s EXCEPT !.pl.errs = 0]
  <2>1. Now \in HandlerState /\ Now.pl.dec = "none" /\ r \in Seq(Message)
    BY <1>2, AppendType DEF Sane, Parked
  <2>2. [Now EXCEPT !.q = Append(@, m)] = s
    BY <1>2
  <2> HIDE DEF r
  <2>3. Sane(s) /\ s.dm = dm /\ s.q = r /\ s.pl = pl
    BY <1>2, <2>1, QueueSane DEF HandlerState
  <2> HIDE DEF s
  <2>4. m[1] # "mode" => Over(s)
    <3>1. ASSUME m[1] # "mode" PROVE Drives(Now, m)
      <4>1. m[1] = "in" \/ m = <<"out", ScanCard>>
        BY <1>6, <3>1 DEF Breaks
      <4> HIDE DEF m
      <4>2. CASE m[1] = "in"
        BY <4>2 DEF Drives
      <4>3. CASE m = <<"out", ScanCard>>
        <5>1. m[1] = "out" /\ m[2] = ScanCard
          BY <4>3
        <5> QED
          BY <1>5, <5>1 DEF Drives
      <4> QED
        BY <4>1, <4>2, <4>3
    <3> QED
      BY <1>2, <2>3, <3>1, ComesOver DEF r
  <2>5. Sane(w) /\ w.pl.dev = pl.dev /\ w.pl.dec = "none" /\ (Over(s) => Over(w))
    <3>1. 0 \in 0..Files
      BY PlayerAssumption
    <3>2. Sane(w) /\ w.pl.dev = s.pl.dev /\ w.pl.dec = s.pl.dec /\ (Over(s) => Over(w))
      BY <2>3, <3>1, ErrsKeeps
    <3> HIDE DEF w
    <3> QED
      BY <1>2, <2>1, <2>3, <3>2
  <2>6. Become(w)
    <3>1. ErrDeal(s, "broken") = w
      BY DEF ErrDeal
    <3> QED
      BY <1>6, <2>2, <3>1
  <2> HIDE DEF w
  <2>7. Rooted(w) /\ (m[1] # "mode" => GoesOn(w))
    BY <2>4, <2>5 DEF Rooted, GoesOn
  <2>8. Rooted(Scanned') /\ (m[1] # "mode" => GoesOn(Scanned'))
    BY <2>5, <2>6, <2>7, BecomeOwed
  <2> QED
    BY <1>6, <2>8 DEF Owed
<1>7. CASE m[1] = "out" /\ (\E s \in Filtered(Now, m) : Become(s)) /\ pc' = pc
  <2>1. PICK s \in Filtered(Now, m) : Become(s)
    BY <1>7
  <2>2. Sane(s) /\ s.pl = Now.pl
    BY <1>2, <1>7, <2>1, FilteredOut DEF Parked
  <2>3. Rooted(s)
    BY <1>3, <2>2 DEF Rooted
  <2>4. Rooted(Scanned')
    BY <2>1, <2>2, <2>3, BecomeOwed
  <2> QED
    BY <1>1, <1>7, <2>4 DEF Owed
<1>8. CASE Become(Now) /\ pc' = pc
  <2>1. Rooted(Scanned')
    BY <1>2, <1>3, <1>8, BecomeOwed
  <2> QED
    BY <1>1, <1>8, <2>1 DEF Owed
<1> QED
  BY <1>6, <1>7, <1>8 DEF ScanTakes

(* The end of a scan: a file is looked up, or the device is given up. *)
LEMMA ScanEndsOwed == ASSUME OweInv, ScanFinds \/ ScanFails PROVE Owed'
<1> DEFINE s == Scanned
<1>1. /\ pc = "scan" /\ Stays /\ Sane(s) /\ Parked(s) /\ Rooted(s)
  BY DEF ScanFinds, ScanFails, OweInv, PlayerInv, Owed
<1>2. s.pl.dev # NoNode /\ s.pl.dec = "none"
  BY <1>1, ScanOne DEF Parked
<1>3. CASE ScanFails
  <2> DEFINE R == {<<s, "fscan">>}
  <2>1. Finish(R)
    BY <1>3 DEF ScanFails
  <2> HIDE DEF s
  <2>2. Settled(<<s, "fscan">>)
    BY <1>1, <1>2, ErrorSettled DEF Errors
  <2>3. \A r \in R : Fine(r) /\ Rooted(r[1]) /\ Settled(r)
    BY <1>1, <1>2, <2>2 DEF Fine, Errors
  <2> HIDE DEF R
  <2> QED
    BY <1>1, <2>1, <2>3, FinishOwed
<1>4. CASE ScanFinds
  <2>1. PICK c \in Card : CardLogo(c) \in DevCur(s) /\ Become([s EXCEPT !.pl.fsn = c]) /\ pc' = "seek"
    BY <1>4 DEF ScanFinds
  <2> DEFINE t == [s EXCEPT !.pl.fsn = c]
  <2> HIDE DEF s
  <2>2. Sane(t) /\ Parked(t) /\ Become(t)
    BY <1>1, <2>1, ScanHandle
  <2> HIDE DEF t
  <2>3. Rooted(t)
    BY <2>2 DEF Parked, Rooted
  <2>4. Rooted(Scanned')
    BY <2>2, <2>3, BecomeOwed
  <2> QED
    BY <2>1, <2>4 DEF Owed
<1> QED
  BY <1>3, <1>4

(* The file is decoded, or there is a message that goes on. *)
LEMMA LookedUpOwed == ASSUME OweInv, LookedUp PROVE Owed'
<1> DEFINE s == Scanned
           miss == pc = "seek"
           R == SelectAndDecode(s, miss)
<1>1. /\ Stays /\ Sane(s) /\ Parked(s) /\ s.pl.fsn # NoCard /\ Finish(R) /\ miss \in BOOLEAN
  BY DEF LookedUp, OweInv, PlayerInv, Scanned
<1> HIDE DEF s, miss
<1>2. \A r \in R : Fine(r) /\ Rooted(r[1]) /\ Settled(r)
  BY <1>1, SelectAndDecodeFine, SelectAndDecodeSettled DEF Parked
<1> HIDE DEF R
<1> QED
  BY <1>1, <1>2, FinishOwed

-----------------------------------------------------------------------------
(* The world, and the theorem                                              *)

(* Entering the mode posts the start, or the end of the tone will. *)
LEMMA EnterOwed == ASSUME OweInv, Enter PROVE Owed'
<1>1. q \in Seq(Message) /\ pc = "get" /\ pc' = pc /\ pl' = NoPlayer
  BY HandlerParts DEF OweInv, PlayerInv, Sane, Scanned, Enter
<1>2. Scanned'.pl = NoPlayer /\ Scanned'.q = q'
  BY <1>1 DEF Scanned
<1>3. Rooted(Scanned')
  BY <1>2, NoPlayerType DEF Rooted
<1>4. ~tone' => Over(Scanned')
  <2> DEFINE r == Append(q, <<"start">>)
             k == Len(q) + 1
  <2>1. <<"start">> \in Message
    BY DEF Message, Posted
  <2>2. k \in DOMAIN r /\ r[k] = <<"start">>
    BY <1>1, <2>1, AppendEntries
  <2>3. ~tone' => q' = r
    BY DEF Enter
  <2> HIDE DEF r, k
  <2>4. Drives(Scanned', <<"start">>)
    BY DEF Drives
  <2> QED
    BY <1>2, <2>2, <2>3, <2>4 DEF Over
<1> QED
  BY <1>1, <1>3, <1>4 DEF Owed, GoesOn

(* A message that is posted while the mode does nothing; the tone may end  *)
(* with it, when it is the start.                                          *)
LEMMA MessageOwed ==
  ASSUME OweInv, NEW e \in Message, q' = Append(q, e), UNCHANGED <<dm, pl, pc, mode, cut>>,
         tone' = tone \/ e = <<"start">>
  PROVE  Owed'
<1> DEFINE s == Scanned
           t == Scanned'
<1>1. s.dm = dm /\ s.pl = pl /\ s.q = q /\ t.dm = dm /\ t.pl = pl /\ t.q = Append(q, e)
  BY DEF Scanned
<1>2. s \in HandlerState /\ s.q \in Seq(Message) /\ Owed
  BY HandlerParts DEF OweInv, PlayerInv, Sane
<1>3. Rooted(s) /\ (mode = "music" /\ pc = "get" /\ ~tone /\ ~cut => GoesOn(s))
  BY <1>2 DEF Owed
<1> HIDE DEF s, t
<1>4. (Over(s) => Over(t)) /\ (Drives(s, e) => Over(t))
  BY <1>1, <1>2, ComesOver
<1>5. e = <<"start">> => Drives(s, e)
  BY DEF Drives
<1>6. (Rooted(s) => Rooted(t)) /\ (GoesOn(s) => GoesOn(t)) /\ (Over(t) => GoesOn(t))
  BY <1>1, <1>4 DEF Rooted, GoesOn
<1> QED
  BY <1>3, <1>4, <1>5, <1>6 DEF Owed, t

(* The end of a track leaves the player to be restarted by its message,    *)
(* and a decoder that fails after its wait goes unheard.                   *)
LEMMA DecoderOwed == ASSUME OweInv, TrackEnds \/ WaitEnds PROVE Owed'
<1>1. /\ Decoding(pl) /\ pc' = pc
      /\ \E how \in {"play", "ended", "none"} :
           pl' = [pl EXCEPT !.dec = how] /\ (how = "none" => cut')
  BY DEF TrackEnds, WaitEnds, Decoding
<1>2. pl \in Player /\ Rooted(Scanned) /\ Scanned.pl = pl
  BY HandlerParts DEF OweInv, PlayerInv, Owed, Sane, Scanned
<1>3. pl'.dev = pl.dev /\ pl.dev # NoNode /\ (pl'.dec = "none" => cut')
  BY <1>1, <1>2 DEF Player, Rooted, Decoding
<1>4. Scanned'.pl = pl'
  BY DEF Scanned
<1> QED
  BY <1>3, <1>4 DEF Owed, Rooted, GoesOn

(* The whole of it. *)
LEMMA OweStep == OweInv /\ [Next]_playerVars => OweInv'
<1> SUFFICES ASSUME OweInv, [Next]_playerVars PROVE OweInv'
  OBVIOUS
<1>1. PlayerInv'
  BY PlayerInvStep DEF OweInv
<1>2. <<"start">> \in Message
  BY DEF Message, Posted
<1>3. ASSUME ToneEnds PROVE Owed'
  BY <1>2, <1>3, MessageOwed DEF ToneEnds
<1>4. ASSUME NEW c \in Card, Plug(c) \/ Noticed(c) PROVE Owed'
  <2>1. <<"in", c>> \in Message /\ <<"out", c>> \in Message
    BY DEF Message
  <2> QED
    BY <1>4, <2>1, MessageOwed DEF Plug, Noticed
<1>5. ASSUME NEW k \in Keys, Key(k) PROVE Owed'
  <2>1. <<k>> \in Message
    <3>1. k \in {"next", "mode"}
      BY PlayerAssumption
    <3> QED
      BY <3>1 DEF Message, Posted
  <2> QED
    BY <1>5, <2>1, MessageOwed DEF Key
<1>6. ASSUME UNCHANGED <<dm, pl, q, pc, mode, tone, cut>> PROVE Owed'
  <2>1. Scanned' = Scanned
    BY <1>6 DEF Scanned
  <2> QED
    BY <1>6, <2>1 DEF OweInv, Owed
<1>7. ASSUME NEW c \in Card, Unplug(c) PROVE Owed'
  BY <1>6, <1>7 DEF Unplug
<1>8. ASSUME OtherMode \/ Quit PROVE Owed'
  BY <1>1, <1>8, OtherOwed DEF OtherMode, Quit, Leave
<1>9. ASSUME CoreStep PROVE Owed'
  BY <1>1, <1>3, <1>8, <1>9, StartOwed, FileOwed, ChangeDevOwed, ModeKeyOwed, DeviceOwed,
     ScanTakesOwed, ScanEndsOwed, LookedUpOwed DEF CoreStep
<1>10. ASSUME UNCHANGED playerVars PROVE Owed'
  BY <1>6, <1>10 DEF playerVars
<1>11. Owed'
  BY <1>4, <1>5, <1>7, <1>9, <1>10, EnterOwed, DecoderOwed DEF Next
<1> QED
  BY <1>1, <1>11 DEF OweInv

(* The music mode does not sit there silent with a valid device in the     *)
(* list (music.c:228): after every error there is a message that decodes,  *)
(* scans, leaves or ends in another such message.                          *)
THEOREM NeverSilent == Spec => []PlaysWhatThereIs
<1>1. Init => OweInv
  <2> SUFFICES ASSUME Init PROVE OweInv
    OBVIOUS
  <2>1. PlayerInv /\ pc = "get" /\ mode = "other" /\ Scanned.pl = NoPlayer
    BY PlayerInvInitially DEF Init, Scanned
  <2> QED
    BY <2>1, NoPlayerType DEF OweInv, Owed, Rooted
<1>2. OweInv => PlaysWhatThereIs
  <2> SUFFICES ASSUME OweInv, Silent, ~cut PROVE GetTotal(dm.list, TRUE) = 0
    BY DEF PlaysWhatThereIs
  <2>1. Scanned.dm = dm /\ Scanned.pl = pl /\ Scanned.q = <<>> /\ Sane(Scanned)
    BY DEF OweInv, PlayerInv, Scanned, Silent
  <2>2. Over(Scanned)
    BY <2>1 DEF OweInv, Owed, GoesOn, Silent
  <2>3. Usable(Scanned.dm.list, TRUE) = {}
    <3>1. DOMAIN Scanned.q = {}
      BY <2>1
    <3> QED
      BY <2>2, <3>1 DEF Over
  <2>4. Total(Scanned) = 0
    BY <2>1, <2>3, TotalZero
  <2> QED
    BY <2>1, <2>4 DEF Total
<1> QED
  BY <1>1, <1>2, OweStep, PTL DEF Spec

=============================================================================
