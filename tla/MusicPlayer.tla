---------------------------- MODULE MusicPlayer ----------------------------
(***************************************************************************)
(* The music mode on top of the device manager: music.c and                *)
(* music_player.c, with the devices of module DevList                      *)
(*                                                                         *)
(* app_core takes one message at a time from a FIFO: device events, keys,  *)
(* and the messages the mode posts to itself, which is how it goes on      *)
(* after an error.  Scanning a disk, which looking up a file may do again, *)
(* is the one thing that lets others in: music_player_scandisk_break takes *)
(* messages from the queue meanwhile, drops most of them, and breaks the   *)
(* scan off for some, which it posts again.  Cards come and go, and tracks *)
(* end, at any time.                                                       *)
(*                                                                         *)
(* The node the player remembers (dev) is never forgotten: it may be freed *)
(* and its address given to another device.  The magic of a start is kept  *)
(* as a mark on the end messages: whether they are of the current start.   *)
(***************************************************************************)
EXTENDS DevList

CONSTANTS
  Preferred,    \* USER_USB_OR_SD, the device that comes first on entry
  NoCard,
  Files,        \* music_player_get_file_total of a card that has files
  QMax,         \* bound: the user and the world wait while the queue is this long
  Usb,          \* the cards behind usb_host_mount
  Keys          \* the keys the user presses

ASSUME PlayerAssumption ==
  /\ Preferred \in Card /\ NoCard \notin Card /\ Usb \subseteq Card
  /\ Files \in Nat /\ QMax \in Nat
  /\ Keys \subseteq {"next", "mode"}

VARIABLES
  dm,      \* [list, counter]: the device manager, stamps counted from 0
  pl,      \* [dev, fsn, file, dec, errs]: the player and music_hdl
  q,       \* the messages of app_core
  pc,      \* "get": waiting for a message, "scan": in dev_manager_scan_disk,
           \* "look", "seek": looking up a file, any one or that of a break point
  mode,    \* "music", or "other" for any other mode
  tone,    \* whether the tone of the music mode plays
  socket,  \* what is plugged in for each card
  cut,     \* history: a mode key broke off the last scan, or a decoder went unheard
  overtaken  \* history: the cards with an event re-posted behind a later one

playerVars == <<dm, pl, q, pc, mode, tone, socket, cut, overtaken>>

(* A card with playable files, unplayable ones or none; pulled out, first  *)
(* unnoticed, then with its event posted.                                  *)
Plugged == {"good", "bad", "empty"}
Absent == {"gone", "out"}
Posted == {"start", "quit", "to_bt", "next", "first", "change_dev", "mode"}
Message ==
  ({"in", "out"} \X Card) \cup {<<k>> : k \in Posted}
    \cup ({"end"} \X BOOLEAN \X BOOLEAN)   \* <<"end", read_err, and of the current start>>

Player == [dev : Node \cup {NoNode}, fsn : Card \cup {NoCard}, file : BOOLEAN,
           dec : {"none", "wait", "play", "ended"}, errs : 0..Files]

(* The decoder has a file, if only to wait for another sound to end. *)
Decoding(p) == p.dec \in {"wait", "play"}

TypeOK ==
  /\ dm.list \in Seq(Dev) /\ dm.counter = Len(dm.list)
  /\ pl \in Player
  /\ q \in Seq(Message)
  /\ pc \in {"get", "scan", "look", "seek"} /\ mode \in {"music", "other"} /\ tone \in BOOLEAN
  /\ socket \in [Card -> Plugged \cup Absent] /\ cut \in BOOLEAN /\ overtaken \subseteq Card

(* __this->dev = NULL ..., as zalloc leaves it. *)
NoPlayer == [dev |-> NoNode, fsn |-> NoCard, file |-> FALSE, dec |-> "none", errs |-> 0]

Init ==
  /\ dm = [list |-> <<>>, counter |-> 0] /\ pl = NoPlayer /\ q = <<>>
  /\ pc = "get" /\ mode = "other" /\ tone = FALSE
  /\ socket = [c \in Card |-> "out"] /\ cut = FALSE /\ overtaken = {}

-----------------------------------------------------------------------------
(* Operators on the state s = [dm, pl, q] of the handlers                  *)

Now == [dm |-> dm, pl |-> pl, q |-> Tail(q)]   \* the head message is taken

(* Stamps matter by their order only. *)
Ranked(st) ==
  [list |-> [i \in DOMAIN st.list |-> [st.list[i] EXCEPT !.stamp =
               Cardinality({j \in DOMAIN st.list : st.list[j].stamp < @})]],
   counter |-> Len(st.list)]

Become(s) == dm' = Ranked(s.dm) /\ pl' = s.pl /\ q' = s.q

Post(s, k) == [s EXCEPT !.q = Append(@, <<k>>)]
DevCur(s) == GetLogo(s.dm.list, s.pl.dev)        \* music_player_get_dev_cur
Total(s) == GetTotal(s.dm.list, TRUE)            \* dev_manager_get_total(1)

(* Mutant: the scan handle is never released. *)
StopKeepsHandle(s, release) == [s EXCEPT !.pl.dec = "none", !.pl.file = FALSE]

(* music_player_stop *)
Stop(s, release) ==
  [s EXCEPT !.pl.dec = "none", !.pl.file = FALSE, !.pl.fsn = IF release THEN NoCard ELSE @]

(* The end messages in the queue carry the magic of an older start now. *)
Aged(s) ==
  [s EXCEPT !.q = [i \in DOMAIN @ |-> IF @[i][1] = "end" THEN <<"end", @[i][2], FALSE>> ELSE @[i]]]

-----------------------------------------------------------------------------
(* music_player_err_deal: what the mode does after a play function         *)

DevInvalid(s) == [s EXCEPT !.dm.list = SetValid(@, s.pl.dev, FALSE)]
DevUnmounted(s) ==
  [s EXCEPT !.dm.list = UnmountDevice(@, (CHOOSE l \in DevCur(s) : TRUE)[1])]
CurOnline(s) == \E l \in DevCur(s) : FindSpec(s.dm.list, l, TRUE) # NoNode

(* Posts one message when no valid device is left, another when there is.  *)
PostByTotal(s, none, some) == Post(s, IF Total(s) = 0 THEN none ELSE some)

(* Mutant: a device whose files all fail stays valid. *)
DecodeFailedKeepsValid(s) ==
  IF s.pl.errs < Files THEN Post([s EXCEPT !.pl.errs = @ + 1], "next")
  ELSE PostByTotal([s EXCEPT !.pl.errs = 0], "quit", "change_dev")

(* Mutant: one failing file more than there are files. *)
DecodeFailedOneMore(s) ==
  IF s.pl.errs <= Files THEN Post([s EXCEPT !.pl.errs = @ + 1], "next")
  ELSE PostByTotal(DevInvalid([s EXCEPT !.pl.errs = 0]), "quit", "change_dev")

(* MUSIC_PLAYER_ERR_DECODE_FAIL *)
DecodeFailed(s) ==
  IF s.pl.errs < Files THEN Post([s EXCEPT !.pl.errs = @ + 1], "next")
  ELSE PostByTotal(DevInvalid([s EXCEPT !.pl.errs = 0]), "quit", "change_dev")

(* Mutant: the mode is left when nothing remains, but no other device tried. *)
DeviceLostNoChange(s, isScan) ==
  LET t == IF ~CurOnline(s) THEN s ELSE IF isScan THEN DevInvalid(s) ELSE DevUnmounted(s)
  IN  IF Total(t) = 0 THEN Post(t, "to_bt") ELSE t

(* MUSIC_PLAYER_ERR_FSCAN, _DEV_READ, _DEV_OFFLINE *)
DeviceLost(s, isScan) ==
  LET t == IF ~CurOnline(s) THEN s ELSE IF isScan THEN DevInvalid(s) ELSE DevUnmounted(s)
  IN  PostByTotal(t, "to_bt", "change_dev")

(* "broken" is MUSIC_PLAYER_ERR_FSCAN with scandisk_break set. *)
ErrDeal(s, err) ==
  LET z == [s EXCEPT !.pl.errs = 0]
  IN  CASE err = "null" -> s
        [] err \in {"succ", "broken"} -> z
        [] err = "no_ram" -> Post(z, "quit")
        [] err = "decode_fail" -> DecodeFailed(s)
        [] err = "dev_nofound" -> PostByTotal(z, "quit", "start")
        [] err \in {"fscan", "dev_read", "dev_offline"} -> DeviceLost(z, err = "fscan")
        [] err = "file_nofound" ->
             IF CurOnline(z) /\ z.pl.fsn # NoCard THEN Post(z, "first")
             ELSE PostByTotal(z, "quit", "change_dev")

-----------------------------------------------------------------------------
(* The play functions of music_player.c: sets of <<state, error>>          *)

(* Mutant: the device that plays is not made the active one. *)
DecodesNoActive(s, how) == [Aged(s) EXCEPT !.pl.dec = how]

(* music_player_decode_start says that the decoder has started, and        *)
(* dev_manager_set_active makes its device the active one.                 *)
Decodes(s, how) == [Aged(s) EXCEPT !.pl.dec = how, !.dm = SetActive(@, s.pl.dev)]

(* file_manager_select and music_player_decode_start on the scanned card.  *)
(* A file looked up by a break point may be missing (miss); what is read   *)
(* from a card that has been pulled out may or may not still be there.  A  *)
(* decoder that has to wait for another sound counts as started.           *)
SelectAndDecode(s, miss) ==
  LET c == s.pl.fsn
      open == [s EXCEPT !.pl.file = TRUE]
  IN  (IF miss \/ socket[c] \in Absent THEN {<<s, "file_nofound">>} ELSE {})
      \cup {<<open, "no_ram">>}
      \cup (IF socket[c] # "good" THEN {<<Aged(open), "decode_fail">>} ELSE {})
      \cup (IF socket[c] \in {"good"} \cup Absent THEN {<<Decodes(open, "play"), "succ">>} ELSE {})
      \cup {<<Decodes(open, "wait"), "succ">>}

Finish(results) ==
  /\ \E r \in results : Become(ErrDeal(r[1], r[2]))
  /\ pc' = "get" /\ cut' = (cut /\ pl'.dec = "none")

(* Another file of the current device: play_next, play_auto_next,          *)
(* play_first_file(NULL) and the others without a logo.                    *)
PlayHere(s0) ==
  LET s == Stop(s0, FALSE)
  IN  IF ~OnlineCheck(s.dm.list, s.pl.dev, TRUE) THEN Finish({<<s, "dev_offline">>})
      ELSE IF s.pl.fsn = NoCard THEN Finish({<<s, "fscan">>})
      ELSE Become(s) /\ pc' = "look" /\ cut' = FALSE

(* A device found by its logo or as the next one: the scan comes first.    *)
PlayOn(s0, n) ==
  LET s == [Stop(s0, TRUE) EXCEPT !.pl.dev = n]
  IN  IF n = NoNode THEN Finish({<<s, "dev_nofound">>})
      ELSE Become(s) /\ pc' = "scan" /\ cut' = FALSE

-----------------------------------------------------------------------------
(* The handlers of the music mode                                          *)

Takes(k) == mode = "music" /\ pc = "get" /\ q # <<>> /\ Head(q)[1] = k
Stays == UNCHANGED <<mode, tone, socket, overtaken>>

Start ==
  /\ Takes("start") /\ Stays
  /\ LET logo == GetLogo(dm.list, FindActive(dm.list, TRUE))
     IN  IF pl.dec \in {"play", "ended"} /\ logo # {} /\ DevCur(Now) = logo
         THEN Finish({<<Now, "null">>})
         ELSE IF logo = {} THEN PlayHere(Now)
         ELSE \E l \in logo : PlayOn(Now, FindSpec(dm.list, l, TRUE))

NextFile == (Takes("next") \/ Takes("first")) /\ PlayHere(Now) /\ Stays

(* KEY_MUSIC_PLAYER_END: only read errors are compared with the magic. *)
End ==
  /\ Takes("end") /\ Stays
  /\ LET read_err == Head(q)[2]
         cur == Head(q)[3]
     IN  IF read_err THEN Finish({<<Now, IF cur THEN "dev_read" ELSE "null">>})
         ELSE PlayHere(Now)

ChangeDev ==
  /\ Takes("change_dev") /\ Stays
  /\ LET n == FindNext(dm.list, pl.dev, TRUE)
     IN  IF GetLogo(dm.list, n) = {} THEN Finish({<<Now, "null">>}) ELSE PlayOn(Now, n)

(* The device events among the messages m, in their order. *)
DeviceEvents(m) ==
  LET I == {i \in DOMAIN m : m[i][1] \in {"in", "out"}}
  IN  [k \in 1..Cardinality(I) |-> m[CHOOSE i \in I : Cardinality({j \in I : j <= i}) = k]]

(* music_task_close; the commit of the switch clears the key events, which *)
(* the messages the mode posts to itself may or may not be.                *)
Leave ==
  /\ mode' = "other" /\ tone' = FALSE /\ pl' = NoPlayer /\ pc' = "get" /\ cut' = FALSE
  /\ q' \in {Tail(q), DeviceEvents(Tail(q))}
  /\ UNCHANGED <<dm, socket, overtaken>>

(* app_task_switch_next and user_app_goto_bt: FM and BT can always be entered. *)
Quit == (Takes("quit") \/ Takes("to_bt")) /\ Leave

PreferredPlays == Total(Now) > 1 /\ DevCur(Now) = {CardLogo(Preferred)}

ModeKey ==
  /\ Takes("mode")
  /\ \/ PreferredPlays /\ Become(Post(Now, "change_dev")) /\ UNCHANGED <<pc, cut>> /\ Stays
     \/ ~PreferredPlays /\ Leave
     \/ ~PreferredPlays /\ Finish({<<Now, "null">>}) /\ Stays

(* What the mount of a card finds: nothing once it has been pulled out. *)
MountOf(c) == IF socket[c] \in Absent THEN "no_fs" ELSE "mounted"

(* dev_status_event_filter in any mode; what is in the list is not added   *)
(* again, and usb_host_mount fails when nothing is plugged in.             *)
Filtered(s, m) ==
  IF m[1] = "out" THEN {[s EXCEPT !.dm = DelDevice(@, m[2])]}
  ELSE IF \/ ListCheckByLogo(s.dm.list, CardLogo(m[2]))
          \/ m[2] \in Usb /\ socket[m[2]] \in Absent
  THEN {s}
  ELSE {[s EXCEPT !.dm = AddDevice(@, m[2], n, NoNode, MountOf(m[2]), "no_mem")] :
          n \in Node \ Nodes(s.dm.list)}

(* music_sys_event_handler, then app_default_event_deal. *)
DeviceIn ==
  /\ Takes("in") /\ Stays /\ UNCHANGED <<pc, cut>>
  /\ \E s \in Filtered(Post(Stop(Now, TRUE), "start"), Head(q)) : Become(s)

(* Mutant: the player goes on decoding from the device that is removed. *)
StopForNoStop(s, c) == IF DevCur(s) = {CardLogo(c)} THEN Post(s, "start") ELSE s

StopFor(s, c) == IF DevCur(s) = {CardLogo(c)} THEN Post(Stop(s, TRUE), "start") ELSE s

DeviceOut ==
  /\ Takes("out") /\ Stays /\ UNCHANGED <<pc, cut>>
  /\ \E s \in Filtered(StopFor(Now, Head(q)[2]), Head(q)) : Become(s)

-----------------------------------------------------------------------------
(* The scan of a disk, and the one that looking up a file may start       *)

EventOf(c) == {<<"in", c>>, <<"out", c>>}

ScanCard == CHOOSE c \in Card : CardLogo(c) \in DevCur(Now)

(* Mutant: a device that comes online does not break the scan off. *)
BreaksNotIn(m) == m[1] = "mode" \/ m = <<"out", ScanCard>>

Breaks(m) == m[1] \in {"in", "mode"} \/ m = <<"out", ScanCard>>

(* music_player_scandisk_break *)
ScanTakes ==
  /\ pc # "get" /\ q # <<>> /\ UNCHANGED <<mode, tone, socket>>
  /\ LET m == Head(q)
     IN  \/ /\ Breaks(m)
            /\ Become(ErrDeal([Now EXCEPT !.q = Append(@, m)], "broken"))
            /\ pc' = "get" /\ cut' = (m[1] = "mode")
            /\ overtaken' = overtaken \cup
                 {c \in Card : m \in EventOf(c) /\ \E i \in DOMAIN q \ {1} : q[i] \in EventOf(c)}
         \/ /\ ~Breaks(m) /\ m[1] = "out"
            /\ \E s \in Filtered(Now, m) : Become(s)
            /\ UNCHANGED <<pc, cut, overtaken>>
         \/ /\ ~Breaks(m) /\ m[1] # "out"
            /\ Become(Now) /\ UNCHANGED <<pc, cut, overtaken>>

Scanned == [dm |-> dm, pl |-> pl, q |-> q]
ScanFinds ==
  /\ pc = "scan" /\ Stays
  /\ \E c \in Card :
       /\ CardLogo(c) \in DevCur(Scanned) /\ socket[c] # "empty"
       /\ Become([Scanned EXCEPT !.pl.fsn = c])
  /\ pc' = "seek" /\ UNCHANGED cut
ScanFails ==
  /\ pc = "scan" /\ Stays
  /\ \E c \in Card : CardLogo(c) \in DevCur(Scanned) /\ socket[c] \in {"empty"} \cup Absent
  /\ Finish({<<Scanned, "fscan">>})

(* The file has been looked up, or is not there. *)
LookedUp ==
  /\ pc \in {"look", "seek"} /\ Stays
  /\ Finish(SelectAndDecode(Scanned, pc = "seek"))

-----------------------------------------------------------------------------
(* Other modes, entry, and the world                                       *)

(* app_music_task; the check that admitted it may be out of date. *)
Enter ==
  /\ mode = "other" /\ Len(q) < QMax
  /\ LET first == FindSpec(dm.list, CardLogo(Preferred), FALSE)
         st == IF GetTotal(dm.list, TRUE) > 1 THEN SetActive(dm, first) ELSE dm
     IN  dm' = Ranked(st)
  /\ mode' = "music" /\ pl' = NoPlayer
  /\ \/ tone' = TRUE /\ UNCHANGED q
     \/ tone' = FALSE /\ q' = Append(q, <<"start">>)
  /\ UNCHANGED <<pc, socket, cut, overtaken>>

ToneEnds ==
  /\ tone /\ tone' = FALSE /\ q' = Append(q, <<"start">>)
  /\ UNCHANGED <<dm, pl, pc, mode, socket, cut, overtaken>>

OtherMode ==
  /\ mode = "other" /\ q # <<>> /\ UNCHANGED <<pc, mode, tone, socket, cut, overtaken>>
  /\ IF Head(q)[1] \in {"in", "out"} THEN \E s \in Filtered(Now, Head(q)) : Become(s)
     ELSE Become(Now)

(* A card may move again before its last event has been handled. *)
Plug(c) ==
  /\ socket[c] = "out" /\ Len(q) < QMax
  /\ \E k \in Plugged : socket' = [socket EXCEPT ![c] = k]
  /\ q' = Append(q, <<"in", c>>) /\ overtaken' = overtaken \ {c}
  /\ UNCHANGED <<dm, pl, pc, mode, tone, cut>>

Unplug(c) ==
  /\ socket[c] \in Plugged /\ socket' = [socket EXCEPT ![c] = "gone"]
  /\ UNCHANGED <<dm, pl, q, pc, mode, tone, cut, overtaken>>

Noticed(c) ==
  /\ socket[c] = "gone" /\ socket' = [socket EXCEPT ![c] = "out"]
  /\ q' = Append(q, <<"out", c>>) /\ overtaken' = overtaken \ {c}
  /\ UNCHANGED <<dm, pl, pc, mode, tone, cut>>

TrackEnds ==
  /\ pl.dec = "play" /\ Len(q) < QMax
  /\ q' = Append(q, <<"end", socket[pl.fsn] \in Absent, TRUE>>)
  /\ pl' = [pl EXCEPT !.dec = "ended"]
  /\ UNCHANGED <<dm, pc, mode, tone, socket, cut, overtaken>>

(* file_wait_res_handler, when the other sound has ended: file_dec_start   *)
(* goes well, or it releases the decoder and posts nothing.                *)
WaitEnds ==
  /\ pl.dec = "wait"
  /\ \/ /\ socket[pl.fsn] \in {"good"} \cup Absent
        /\ pl' = [pl EXCEPT !.dec = "play"] /\ UNCHANGED cut
     \/ /\ socket[pl.fsn] # "good"
        /\ pl' = [pl EXCEPT !.dec = "none"] /\ cut' = TRUE
  /\ UNCHANGED <<dm, q, pc, mode, tone, socket, overtaken>>

Key(k) ==
  /\ mode = "music" /\ Len(q) < QMax
  /\ q' = Append(q, <<k>>) /\ UNCHANGED <<dm, pl, pc, mode, tone, socket, cut, overtaken>>

(* What app_core and the decoder of the tone do by themselves. *)
CoreStep ==
  \/ Start \/ NextFile \/ End \/ ChangeDev \/ Quit \/ ModeKey \/ DeviceIn \/ DeviceOut
  \/ ScanTakes \/ ScanFinds \/ ScanFails \/ LookedUp
  \/ ToneEnds \/ OtherMode

Next ==
  \/ CoreStep
  \/ Enter
  \/ \E c \in Card : Plug(c) \/ Unplug(c) \/ Noticed(c)
  \/ TrackEnds \/ WaitEnds
  \/ \E k \in Keys : Key(k)

Spec == Init /\ [][Next]_playerVars

(* Messages are taken as they come, a scan gets to its end, and a card     *)
(* that has been pulled out is noticed.                                    *)
FairSpec ==
  /\ Spec /\ WF_playerVars(CoreStep)
  /\ \A c \in Card : WF_playerVars(Noticed(c))

-----------------------------------------------------------------------------
(* Properties                                                              *)

(* What is decoded comes from a device that is online and valid at the     *)
(* node the player remembers, through removals, scans and error handling   *)
(* (music.c:601 stops the decoder before the device goes).                 *)
DecodesWhatIsMounted == Decoding(pl) => OnlineCheck(dm.list, pl.dev, TRUE)

(* A scan handle is only used for the device it was made for: as long as   *)
(* the remembered node is online, even at an address in use again, the     *)
(* handle is of that card (music_player.c:690 checks dev and uses fsn).    *)
HandleOfDevice ==
  pl.fsn # NoCard /\ OnlineCheck(dm.list, pl.dev, TRUE) =>
    GetLogo(dm.list, pl.dev) = {CardLogo(pl.fsn)}

(* The device that plays is the one a restart would choose, so START finds *)
(* the same device and leaves it alone (music.c:393, dev_manager.c:654).   *)
PlayedIsActive == Decoding(pl) => FindActive(dm.list, TRUE) = pl.dev

Pending(c) == \E i \in DOMAIN q : q[i] \in EventOf(c)

(* Once the events of a card are handled, it is in the list exactly when   *)
(* it is plugged in.                                                       *)
AsPlugged(c) ==
  ~Pending(c) /\ socket[c] # "gone" =>
    (socket[c] \in Plugged <=> ListCheckByLogo(dm.list, CardLogo(c)))

(* No device event gets lost in a scan, and the list follows each card     *)
(* however fast it comes and goes, unless a scan has put an event of it    *)
(* behind a later one (music.c:113, :181).                                 *)
ListFollowsSockets == \A c \in Card \ overtaken : AsPlugged(c)

(* music.c:180 posts the event that breaks a scan again for the main loop  *)
(* to handle it: the list then follows the card as without the scan.       *)
RepostHarmless == \A c \in Card : AsPlugged(c)

(* The music mode does not sit there silent with a valid device in the     *)
(* list: every error leaves a message behind that goes on (music.c:228).   *)
(* A mode key that breaks off a scan is left out, as what it is turned     *)
(* into may find no other device, and so is a decoder that fails after its *)
(* wait, of which nobody is told.                                          *)
Silent == mode = "music" /\ pc = "get" /\ q = <<>> /\ ~tone /\ pl.dec = "none"
PlaysWhatThereIs == Silent /\ ~cut => GetTotal(dm.list, TRUE) = 0

(* When cards, tracks and the user are quiet, the messages the mode posts  *)
(* to itself come to an end: no endless round of errors (music.c:228).     *)
Settles == <>[][CoreStep]_playerVars => <>[](q = <<>> /\ pc = "get")

(* A playable card that is plugged in and whose events are handled is      *)
(* mounted: a read error of another one does not take it away              *)
(* (music_player.c:127 says the magic keeps late errors out).              *)
HealthyMounted ==
  \A c \in Card \ overtaken : ~Pending(c) /\ socket[c] = "good" =>
     \E i \in Usable(dm.list, FALSE) : dm.list[i].logo = CardLogo(c)
=============================================================================
