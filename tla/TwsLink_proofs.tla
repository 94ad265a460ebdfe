--------------------------- MODULE TwsLink_proofs ---------------------------
(***************************************************************************)
(* Theorems about TwsLink, for any number of pages, phones and events: the *)
(* types, that the scheduler's timer is never overwritten, and that with   *)
(* no event waiting app_core knows the truth about the sibling.  Every     *)
(* handler is a composition of a few operators on the record gtws; each of *)
(* them keeps it sound, which is proved once and cited by name.            *)
(***************************************************************************)
EXTENDS TwsLink, TLAPS

(* The values gtws may have. *)
State ==
  [pair : {"none", "paired", "unpaired"}, sibling : BOOLEAN,
   power_on : BOOLEAN, timeout : BOOLEAN,
   timer : 0..2 \cup {NoTimer}, stray : BOOLEAN,
   counter : 0..LongPages, connect_time : 0..LongPages,
   memory : 0..Phones, stored : BOOLEAN, ops : SUBSET Operation]

(* What the handlers keep: a pairing that is known, and one timer.          *)
Sound(s) == s \in State /\ ~s.stray /\ s.pair # "none"

(* And what most of them leave alone besides. *)
Kept(s, t) ==
  /\ Sound(t)
  /\ t.pair = s.pair /\ t.sibling = s.sibling /\ t.stored = s.stored

(* What the handlers of the link events do to the same fields.             *)
NowLinked(e, s, t) ==
  /\ t.sibling /\ t.stored
  /\ t.pair = IF e.why = "other" \/ ~s.stored THEN "paired" ELSE s.pair

NowApart(e, s, t) ==
  /\ ~t.sibling /\ t.stored = s.stored
  /\ t.pair = IF e.why = "removed" THEN "unpaired" ELSE s.pair

NowUnpaired(s, t) == ~t.stored /\ t.pair = s.pair /\ t.sibling = s.sibling

LibType ==
  [linked : BOOLEAN, role : {"MASTER", "SLAVE"},
   phone : {"none", "link", "ready"}, esco : BOOLEAN]

(* The timer is armed, or something is open that a phone answers or that   *)
(* ends in an event (a page does too, but never keeps a speaker awake that *)
(* nothing else does).                                                     *)
Busy(s) == s.timer # NoTimer \/ s.ops \cap {"createFor", "search", "phoneScan"} # {}

LEMMA OperationSets ==
  /\ Scans \subseteq Operation /\ Creates \subseteq Operation
  /\ "phoneScan" \in Operation /\ "page" \in Operation
BY DEF Operation, Scans, Creates

(* Opening and closing operations, and the timer.                          *)
LEMMA CancelSound ==
  ASSUME NEW s, Sound(s)
  PROVE  Kept(s, CancelTimer(s)) /\ CancelTimer(s).timer = NoTimer
BY DEF Kept, Sound, State, CancelTimer

LEMMA ArmSound ==
  ASSUME NEW s, Sound(s), NEW sw \in 0..2
  PROVE  Kept(s, Arm(s, sw)) /\ Arm(s, sw).timer # NoTimer
BY TwsAssumption DEF Kept, Sound, State, Arm

LEMMA CounterSound ==
  ASSUME NEW s, Sound(s), NEW n \in 0..LongPages
  PROVE  Kept(s, [s EXCEPT !.counter = n])
BY DEF Kept, Sound, State

LEMMA ForgetSound ==
  ASSUME NEW s, Sound(s)
  PROVE  LET z == [s EXCEPT !.stored = FALSE] IN Sound(z) /\ NowUnpaired(s, z)
BY DEF Sound, State, NowUnpaired

LEMMA OpenSound ==
  ASSUME NEW s, Sound(s), NEW O \in SUBSET Operation
  PROVE  Kept(s, Open(s, O)) /\ Open(s, O).timer = s.timer
BY DEF Kept, Sound, State, Open

LEMMA ShutSound ==
  ASSUME NEW s, Sound(s), NEW O
  PROVE  Kept(s, Shut(s, O)) /\ Shut(s, O).timer = s.timer
BY DEF Kept, Sound, State, Shut

LEMMA OpensSound ==
  ASSUME NEW s, Sound(s)
  PROVE  /\ Kept(s, OpenWaitPair(s)) /\ Kept(s, OpenWaitConn(s))
         /\ Kept(s, OpenConn(s)) /\ Kept(s, OpenPhoneScan(s))
<1>1. {"waitPair"} \subseteq Operation /\ {"waitConn"} \subseteq Operation
      /\ {"create"} \subseteq Operation /\ {"phoneScan"} \subseteq Operation
  BY DEF Operation, Scans, Creates
<1>2. Kept(s, CancelTimer(s))
  BY CancelSound DEF Kept
<1>3. Kept(s, OpenWaitPair(s)) /\ Kept(s, OpenWaitConn(s))
  BY <1>1, <1>2, OpenSound DEF Kept, OpenWaitPair, OpenWaitConn
<1> QED
  BY <1>1, <1>3, OpenSound DEF Kept, OpenConn, OpenPhoneScan

(* Waiting to be paired closes nothing. *)
LEMMA OpenWaitPairOps ==
  ASSUME NEW s, Sound(s)
  PROVE  /\ s.ops \subseteq OpenWaitPair(s).ops
         /\ s.timer = NoTimer => OpenWaitPair(s).timer = NoTimer
BY DEF Sound, State, OpenWaitPair, Open, CancelTimer

(* One turn of the scheduler, which is what would lose a timer: it may be  *)
(* taken only when none is armed.                                          *)
LEMMA PageSound ==
  ASSUME NEW s, Sound(s), HasPage(s)
  PROVE  Kept(s, Page(s))
<1> DEFINE z == [s EXCEPT !.counter = (IF s.counter > 0 THEN @ ELSE ShortPages) - 1,
                          !.memory = IF s.counter > 0 THEN @ ELSE @ - 1]
<1> DEFINE c == (IF s.counter > 0 THEN s.counter ELSE ShortPages) - 1
           r == IF s.counter > 0 THEN s.memory ELSE s.memory - 1
<1>1. c \in 0..LongPages
  BY TwsAssumption DEF Kept, Sound, State
<1>2. r \in 0..Phones
  BY TwsAssumption DEF Kept, Sound, State, HasPage
<1>3. z = [s EXCEPT !.counter = c, !.memory = r]
  OBVIOUS
<1> HIDE DEF c, r
<1>4. Kept(s, z)
  BY <1>1, <1>2, <1>3 DEF Kept, Sound, State
<1>5. Page(s) = Open(Shut(z, Scans \cup Creates \cup {"phoneScan"}), {"page"})
  BY DEF Page
<1> HIDE DEF z
<1> QED
  BY <1>4, <1>5, OperationSets, OpenSound, ShutSound DEF Kept

LEMMA BeFoundSound ==
  ASSUME NEW s, Sound(s)
  PROVE  Kept(s, BeFound(s))
<1>1. Kept(s, Shut(CancelTimer(s), {"waitConn", "phoneScan"}))
  BY CancelSound, ShutSound DEF Kept
<1>2. {"waitPair"} \subseteq Operation
  BY DEF Operation, Scans
<1> QED
  BY <1>1, <1>2, OpenSound, OpensSound DEF Kept, BeFound

LEMMA SwitchTurnSound ==
  ASSUME NEW s, Sound(s), s.timer = NoTimer, NEW sw \in 0..2
  PROVE  Kept(s, SwitchTurn(s, sw)) /\ SwitchTurn(s, sw).timer # NoTimer
<1> DEFINE z == [s EXCEPT !.timer = NoTimer, !.stray = @ \/ s.timer # NoTimer]
           end == IF s.pair = "unpaired" THEN 1 ELSE IF s.pair = "paired" THEN 2 ELSE 3
           next(k) == IF k + 1 > end THEN 0 ELSE k + 1
           y == [z EXCEPT !.counter = 0, !.power_on = FALSE]
<1>1. Kept(s, z)
  BY DEF Kept, Sound, State
<1>2. Kept(s, y)
  <2> HIDE DEF z
  <2>1. 0 \in 0..LongPages
    BY TwsAssumption
  <2> QED
    BY <1>1, <2>1 DEF Kept, Sound, State
<1>3. next(0) \in 0..2 /\ next(1) \in 0..2 /\ next(2) \in 0..2
  BY DEF Kept, Sound, State
<1>4. SwitchTurn(s, sw) =
        IF sw = 0 /\ HasPage(z) THEN Arm(Page(z), next(0))
        ELSE IF sw = 0 THEN Arm(BeFound(y), next(1))
        ELSE IF sw = 1 THEN Arm(BeFound(z), next(1))
        ELSE Arm(OpenConn(z), next(2))
  BY DEF SwitchTurn
<1> HIDE DEF z, y, next
<1>5. CASE sw = 0 /\ HasPage(z)
  BY <1>1, <1>3, <1>4, <1>5, PageSound, ArmSound DEF Kept
<1>6. CASE sw # 0 \/ ~HasPage(z)
  BY <1>1, <1>2, <1>3, <1>4, <1>6, BeFoundSound, OpensSound, ArmSound DEF Kept
<1> QED
  BY <1>5, <1>6

LEMMA RestartSound ==
  ASSUME NEW s, Sound(s)
  PROVE  Kept(s, Restart(s)) /\ (lib.role = "MASTER" => Restart(s).timer # NoTimer)
BY CancelSound, SwitchTurnSound DEF Kept, Restart

LEMMA ConnectSound ==
  ASSUME NEW s, Sound(s), NEW failed \in BOOLEAN
  PROVE  /\ Kept(s, ConnectSibling(s, failed)) /\ Kept(s, WaitSibling(s))
         /\ lib.role = "MASTER" => Busy(ConnectSibling(s, failed))
<1>1. {"createFor"} \subseteq Operation
  BY DEF Operation, Creates
<1>2. Kept(s, ConnectSibling(s, failed)) /\ Kept(s, WaitSibling(s))
  BY <1>1, CancelSound, RestartSound, OpenSound, OpensSound
  DEF Kept, ConnectSibling, WaitSibling
<1>3. "createFor" \in Open(CancelTimer(s), {"createFor"}).ops
  BY CancelSound DEF Kept, Sound, State, Open
<1>4. lib.role = "MASTER" => Restart(CancelTimer(s)).timer # NoTimer
  BY CancelSound, RestartSound DEF Kept
<1> QED
  BY <1>2, <1>3, <1>4 DEF ConnectSibling, Busy

(* The record with some of its flags and counters changed.                 *)
LEMMA PhoneHandlersSound ==
  ASSUME NEW s, Sound(s), NEW failed \in BOOLEAN
  PROVE  /\ Kept(s, PhoneDisconnected(s)) /\ Kept(s, PhoneConnectTimeout(s, failed))
         /\ Kept(s, KeepPages(s)) /\ Kept(s, PhoneConnected(s))
<1> DEFINE z == [s EXCEPT !.counter = 0]
<1>1. 0 \in 0..LongPages
  BY TwsAssumption
<1>2. Kept(s, z) /\ Kept(s, KeepPages(s)) /\ z.sibling = s.sibling
  BY <1>1 DEF Kept, Sound, State, KeepPages
<1> HIDE DEF z
<1>3. Kept(s, Restart(s)) /\ Kept(s, Restart(z))
  BY <1>2, RestartSound DEF Kept
<1>4. Kept(s, PhoneDisconnected(s))
  BY <1>2, <1>3 DEF PhoneDisconnected, z
<1>5. Kept(s, PhoneConnectTimeout(s, failed))
  BY <1>3, ConnectSound DEF PhoneConnectTimeout
<1>6. Kept(s, PhoneConnected(s))
  BY ConnectSound, OpensSound DEF Kept, PhoneConnected
<1> QED
  BY <1>2, <1>4, <1>5, <1>6

LEMMA ConnectedSound ==
  ASSUME NEW s, Sound(s), NEW e
  PROVE  /\ Sound(Connected(s, e)) /\ NowLinked(e, s, Connected(s, e))
         /\ lib.role = "MASTER" /\ e.role = "MASTER" /\ ~e.phone => Busy(Connected(s, e))
<1> DEFINE new == e.why = "other" \/ ~s.stored
           y == CancelTimer(s)
           z == [y EXCEPT
                   !.pair = IF new THEN "paired" ELSE @, !.stored = TRUE,
                   !.power_on = @ /\ ~new, !.timeout = FALSE, !.sibling = TRUE,
                   !.counter = IF s.connect_time > 0 /\ e.role = "MASTER"
                               THEN s.connect_time ELSE @,
                   !.connect_time = 0]
<1>1. Kept(s, y) /\ Sound(y)
  BY CancelSound DEF Kept
<1>2. s.connect_time \in 0..LongPages /\ 0 \in 0..LongPages
  BY TwsAssumption DEF Sound, State
<1>3. Sound(z) /\ z.pair = (IF new THEN "paired" ELSE s.pair) /\ z.stored /\ z.sibling
  <2> DEFINE p == IF new THEN "paired" ELSE y.pair
             w == y.power_on /\ ~new
             d == IF s.connect_time > 0 /\ e.role = "MASTER"
                  THEN s.connect_time ELSE y.counter
  <2> HIDE DEF y, new
  <2>1. p \in {"paired", "unpaired"} /\ w \in BOOLEAN /\ d \in 0..LongPages
    BY <1>1, <1>2 DEF Sound, State
  <2>2. z = [y EXCEPT !.pair = p, !.stored = TRUE, !.power_on = w, !.timeout = FALSE,
                      !.sibling = TRUE, !.counter = d, !.connect_time = 0]
    OBVIOUS
  <2>3. p = IF new THEN "paired" ELSE s.pair
    BY <1>1 DEF Kept
  <2> HIDE DEF p, w, d, z
  <2> QED
    BY <1>1, <1>2, <2>1, <2>2, <2>3 DEF Sound, State
<1>4. Connected(s, e) =
        IF e.phone THEN z
        ELSE IF e.role = "MASTER" THEN Restart(z)
        ELSE Shut(z, Scans \cup {"phoneScan"})
  BY DEF Connected
<1> HIDE DEF z, y
<1> QED
  BY <1>3, <1>4, RestartSound, ShutSound DEF Kept, NowLinked, Busy

LEMMA ConnectionTimeoutSound ==
  ASSUME NEW s, Sound(s), NEW e
  PROVE  /\ Kept(s, ConnectionTimeout(s, e))
         /\ lib.role = "MASTER" /\ ~e.phone => Busy(ConnectionTimeout(s, e))
<1>1. Kept(s, KeepPages(s))
  BY PhoneHandlersSound DEF Kept
<1>2. Kept(s, [KeepPages(s) EXCEPT !.timeout = FALSE])
  BY <1>1 DEF Kept, Sound, State
<1> QED
  BY <1>2, RestartSound, ConnectSound DEF Kept, ConnectionTimeout, Busy

LEMMA DetachSound ==
  ASSUME NEW s, Sound(s), NEW e, NEW failed \in BOOLEAN
  PROVE  /\ Sound(Detach(s, e, failed)) /\ NowApart(e, s, Detach(s, e, failed))
         /\ lib.role = "MASTER" /\ lib.esco = FALSE /\ ~e.phone /\ e.why # "removed" =>
              Busy(Detach(s, e, failed))
         /\ e.why = "removed" /\ "phoneScan" \in s.ops =>
              "phoneScan" \in Detach(s, e, failed).ops
<1> DEFINE z == [s EXCEPT !.sibling = FALSE]
           kept == IF e.role = "SLAVE" THEN [KeepPages(z) EXCEPT !.timeout = TRUE] ELSE z
           free == [z EXCEPT !.pair = "unpaired", !.power_on = FALSE, !.timeout = FALSE]
<1>1. /\ Sound(z) /\ z.pair = s.pair /\ z.stored = s.stored /\ ~z.sibling
      /\ Sound(free) /\ free.pair = "unpaired" /\ free.stored = s.stored /\ ~free.sibling
  BY DEF Sound, State
<1>2. Kept(z, kept)
  <2> HIDE DEF z
  <2>1. Kept(z, KeepPages(z))
    BY <1>1, PhoneHandlersSound
  <2>2. Kept(z, [KeepPages(z) EXCEPT !.timeout = TRUE])
    BY <2>1 DEF Kept, Sound, State
  <2> QED
    BY <1>1, <2>2 DEF Kept
<1>3. Detach(s, e, failed) =
        IF e.why = "removed" THEN OpenWaitPair(free)
        ELSE IF lib.esco THEN z
        ELSE IF e.phone THEN WaitSibling(z)
        ELSE IF e.why = "lost" THEN ConnectSibling(kept, failed)
        ELSE Restart(z)
  BY DEF Detach
<1>4. free.ops = s.ops
  BY DEF Sound, State
<1> HIDE DEF z, kept, free
<1>5. Kept(free, OpenWaitPair(free)) /\ Kept(z, WaitSibling(z)) /\ Kept(z, Restart(z))
  BY <1>1, OpensSound, ConnectSound, RestartSound
<1>6. Kept(z, ConnectSibling(kept, failed))
  BY <1>2, ConnectSound DEF Kept
<1>7. lib.role = "MASTER" => Busy(ConnectSibling(kept, failed)) /\ Busy(Restart(z))
  BY <1>1, <1>2, ConnectSound, RestartSound DEF Kept, Busy
<1>8. "phoneScan" \in s.ops => "phoneScan" \in OpenWaitPair(free).ops
  BY <1>1, <1>4, OpenWaitPairOps
<1>9. Sound(Detach(s, e, failed)) /\ NowApart(e, s, Detach(s, e, failed))
  BY <1>1, <1>3, <1>5, <1>6 DEF Kept, NowApart
<1> QED
  BY <1>3, <1>7, <1>8, <1>9

-----------------------------------------------------------------------------
(* The steps.                                                              *)

(* Before the first power-on nothing is known and nothing is open.         *)
Fresh == stack = "off" /\ gtws \in State /\ ~gtws.stray /\ gtws.timer = NoTimer

Kind ==
  {"CONNECTED", "SEARCH_TIMEOUT", "CONNECTION_TIMEOUT", "DETACH", "PHONE_LINK_DETACH",
   "REMOVE_PAIRS", "CONNECTION", "PHONE", "DISCONNECT", "PAGE_TIMEOUT", "TIMEOUT",
   "EXISTS", "SCO_BEGIN", "SCO_END"}
Why == {"none", "other", "lost", "exists", "removed"}
Event == [kind : Kind, role : {"MASTER", "SLAVE"}, phone : BOOLEAN, why : Why]

LinkInv ==
  /\ Sound(gtws) \/ Fresh
  /\ lib \in LibType
  /\ Len(queue) <= QMax
  /\ stack \in {"off", "on", "exiting"}
  /\ stack = "off" => queue = <<>>
  /\ queue \in Seq(Event)

LEMMA LinkInvInitially ==
  TwsInit => LinkInv
<1> SUFFICES ASSUME TwsInit PROVE LinkInv
  OBVIOUS
<1>1. Fresh
  BY TwsAssumption DEF TwsInit, Fresh, State
<1>2. lib \in LibType
  BY DEF TwsInit, Unlinked, LibType
<1> QED
  BY <1>1, <1>2, TwsAssumption DEF TwsInit, LinkInv

LEMMA PostKeepsQueue ==
  ASSUME queue \in Seq(Event), NEW events \in Seq(Event), Post(events)
  PROVE  /\ queue' \in Seq(Event) /\ Len(queue') <= QMax
         /\ stack' = stack /\ stack # "off"
<1>1. queue' = queue \o events /\ Len(queue) + Len(events) <= QMax
  BY DEF Post
<1>2. Len(queue \o events) = Len(queue) + Len(events)
  OBVIOUS
<1> QED
  BY <1>1, <1>2 DEF Post

LEMMA EventsTyped ==
  ASSUME lib \in LibType, NEW kind \in Kind, NEW why \in Why
  PROVE  /\ Ev(kind) \in Event /\ TwsEv(kind, why) \in Event
         /\ LinkEv(kind, why) \in Event
<1> DEFINE r == lib.phone = "ready"
<1>1. lib.role \in {"MASTER", "SLAVE"} /\ r \in BOOLEAN /\ "none" \in Why
  BY DEF LibType, Why
<1>2. /\ Ev(kind) = [kind |-> kind, role |-> lib.role, phone |-> FALSE, why |-> "none"]
      /\ TwsEv(kind, why) = [kind |-> kind, role |-> lib.role, phone |-> r, why |-> why]
      /\ LinkEv(kind, why) =
           [kind |-> kind, role |-> lib.role, phone |-> FALSE, why |-> why]
  BY DEF Ev, LinkEv, TwsEv
<1> HIDE DEF r
<1> QED
  BY <1>1, <1>2 DEF Event

(* bt_tws_poweron starts with what the VM says. *)
LEMMA PowerOnSound ==
  ASSUME LinkInv, PowerOn
  PROVE  /\ Sound(gtws') /\ ~gtws'.sibling
         /\ gtws'.pair = IF gtws'.stored THEN "paired" ELSE "unpaired"
         /\ lib.role = "MASTER" => Busy(gtws')
<1> USE DEF LinkInv
<1>1. PICK memory \in 0..Phones, failed \in BOOLEAN :
        LET first == gtws.counter = 0 /\ memory > 0
            z == [gtws EXCEPT !.pair = IF gtws.stored THEN "paired" ELSE "unpaired",
                   !.sibling = FALSE, !.power_on = TRUE, !.timeout = FALSE,
                   !.connect_time = 0,
                   !.memory = IF first THEN memory - 1 ELSE memory,
                   !.counter = IF first THEN ShortPages ELSE @]
        IN  gtws' = IF gtws.stored THEN ConnectSibling(z, failed) ELSE Restart(z)
  BY DEF PowerOn
<1> DEFINE first == gtws.counter = 0 /\ memory > 0
           p == IF gtws.stored THEN "paired" ELSE "unpaired"
           r == IF first THEN memory - 1 ELSE memory
           c == IF first THEN ShortPages ELSE gtws.counter
           z == [gtws EXCEPT !.pair = p, !.sibling = FALSE, !.power_on = TRUE,
                  !.timeout = FALSE, !.connect_time = 0, !.memory = r, !.counter = c]
<1>2. gtws \in State /\ ~gtws.stray
  BY DEF Sound, Fresh
<1>3. /\ p \in {"paired", "unpaired"} /\ r \in 0..Phones
      /\ c \in 0..LongPages /\ 0 \in 0..LongPages
  BY <1>2, TwsAssumption DEF State
<1>4. gtws' = IF gtws.stored THEN ConnectSibling(z, failed) ELSE Restart(z)
  BY <1>1
<1>5. Sound(z) /\ ~z.sibling /\ z.pair = p /\ z.stored = gtws.stored
  <2> HIDE DEF p, r, c
  <2> QED
    BY <1>2, <1>3 DEF Sound, State
<1> HIDE DEF z
<1>6. Kept(z, gtws') /\ (lib.role = "MASTER" => Busy(gtws'))
  BY <1>4, <1>5, ConnectSound, RestartSound DEF Busy
<1> QED
  BY <1>5, <1>6 DEF Kept

(* The stack, the timer and the keys. *)
LEMMA OwnStepsKeep ==
  ASSUME LinkInv, PowerOn \/ PowerOff \/ StackOff \/ TimerFires \/ SearchKey \/ ConnKey
  PROVE  LinkInv'
<1> USE DEF LinkInv
<1>1. CASE PowerOn
  BY <1>1, PowerOnSound DEF PowerOn
<1>2. CASE PowerOff
  <2>1. Sound(gtws)
    BY <1>2 DEF PowerOff, Fresh
  <2> DEFINE z == CancelTimer(gtws)
  <2>2. Sound(z) /\ gtws' = [z EXCEPT !.ops = {}]
    BY <1>2, <2>1, CancelSound DEF Kept, PowerOff
  <2> HIDE DEF z
  <2>3. Sound(gtws')
    BY <2>2 DEF Sound, State
  <2> QED
    BY <1>2, <2>3 DEF PowerOff
<1>3. CASE StackOff
  <2>1. Sound(gtws)
    BY <1>3 DEF StackOff, Fresh
  <2>2. Sound(gtws')
    BY <1>3, <2>1 DEF StackOff, Sound, State
  <2>3. Unlinked \in LibType
    BY DEF Unlinked, LibType
  <2> QED
    BY <1>3, <2>2, <2>3, TwsAssumption DEF StackOff
<1>4. CASE TimerFires
  <2>1. Sound(gtws) /\ gtws.timer \in 0..2
    BY <1>4 DEF TimerFires, Fresh, Sound, State
  <2> DEFINE z == SwitchTurn(CancelTimer(gtws), gtws.timer)
  <2>2. Sound(z)
    BY <2>1, CancelSound, SwitchTurnSound DEF Kept
  <2>3. gtws' = IF stack = "off" THEN [z EXCEPT !.ops = {}] ELSE z
    BY <1>4 DEF TimerFires
  <2> HIDE DEF z
  <2>4. Sound(gtws')
    BY <2>2, <2>3 DEF Sound, State
  <2> QED
    BY <1>4, <2>4 DEF TimerFires
<1>5. CASE SearchKey
  <2>1. Sound(gtws) /\ {"search"} \subseteq Operation
    BY <1>5 DEF SearchKey, Fresh, Operation, Scans
  <2> QED
    BY <1>5, <2>1, CancelSound, OpenSound DEF Kept, SearchKey
<1>6. CASE ConnKey
  <2>1. Sound(gtws)
    BY <1>6 DEF ConnKey, Fresh
  <2> QED
    BY <1>6, <2>1, OpensSound DEF Kept, ConnKey
<1> QED
  BY <1>1, <1>2, <1>3, <1>4, <1>5, <1>6

(* The links, the phone and what runs out. *)
LEMMA LibraryKeeps ==
  ASSUME LinkInv, Library
  PROVE  LinkInv'
<1> USE DEF LinkInv
<1>1. stack # "off" => Sound(gtws)
  BY DEF Fresh
<1>2. ASSUME NEW kind \in Kind
      PROVE  <<Ev(kind)>> \in Seq(Event) /\ <<TwsEv(kind, "none")>> \in Seq(Event)
  <2>1. "none" \in Why
    BY DEF Why
  <2>2. Ev(kind) \in Event /\ TwsEv(kind, "none") \in Event
    BY <2>1, EventsTyped
  <2> QED
    BY <2>2
<1>3. ASSUME NEW events \in Seq(Event), Post(events), Sound(gtws'), lib' \in LibType
      PROVE  LinkInv'
  BY <1>3, PostKeepsQueue
<1>4. CASE SiblingLinks
  <2>1. PICK role \in {"MASTER", "SLAVE"}, other \in BOOLEAN, phone \in {"none", "ready"} :
          /\ lib' = [lib EXCEPT !.linked = TRUE, !.role = role,
                                !.phone = IF role = "SLAVE" THEN phone ELSE @]
          /\ Post(<<[kind |-> "CONNECTED", role |-> role, phone |-> lib'.phone = "ready",
                     why |-> IF other THEN "other" ELSE "none"]>>)
    BY <1>4 DEF SiblingLinks
  <2>2. lib' \in LibType
    BY <2>1 DEF LibType
  <2> DEFINE r == lib'.phone = "ready"
             w == IF other THEN "other" ELSE "none"
             ev == [kind |-> "CONNECTED", role |-> role, phone |-> r, why |-> w]
  <2>3. r \in BOOLEAN /\ w \in Why /\ "CONNECTED" \in Kind
    BY DEF Why, Kind
  <2>4. ev \in Event
    <3> HIDE DEF r, w
    <3> QED
      BY <2>3 DEF Event
  <2>5. Post(<<ev>>)
    BY <2>1
  <2> HIDE DEF ev
  <2>6. <<ev>> \in Seq(Event)
    BY <2>4
  <2>7. stack # "off"
    BY <2>5 DEF Post
  <2>8. Sound(gtws')
    BY <1>1, <1>4, <2>7, ShutSound DEF Kept, SiblingLinks
  <2> QED
    BY <1>3, <2>2, <2>5, <2>6, <2>8
<1>5. CASE \E why \in {"lost", "removed", "other"} : SiblingLeaves(why)
  <2>1. PICK why \in {"lost", "removed", "other"} : SiblingLeaves(why)
    BY <1>5
  <2> DEFINE r == lib'.phone = "ready"
             detach == [kind |-> "DETACH", role |-> lib.role, phone |-> r, why |-> why]
             remove == Ev("REMOVE_PAIRS")
  <2>2. lib' \in LibType /\ gtws' = gtws
    BY <2>1 DEF SiblingLeaves, Unlinked, LibType
  <2>3. r \in BOOLEAN /\ why \in Why /\ "DETACH" \in Kind /\ "REMOVE_PAIRS" \in Kind
        /\ "none" \in Why /\ lib.role \in {"MASTER", "SLAVE"}
    BY DEF Why, Kind, LibType
  <2>4. detach \in Event
    <3> HIDE DEF r
    <3> QED
      BY <2>3 DEF Event
  <2>5. remove \in Event
    BY <2>3, EventsTyped
  <2>6. Post(<<detach>>) \/ Post(<<detach, remove>>) \/ Post(<<remove, detach>>)
    BY <2>1 DEF SiblingLeaves
  <2> HIDE DEF detach, remove
  <2>7. /\ <<detach>> \in Seq(Event) /\ <<detach, remove>> \in Seq(Event)
        /\ <<remove, detach>> \in Seq(Event)
    BY <2>4, <2>5
  <2>8. Sound(gtws')
    BY <1>1, <2>2, <2>6 DEF Post
  <2> QED
    BY <1>3, <2>2, <2>6, <2>7, <2>8
<1>6. CASE PhoneLinks
  <2>1. lib' \in LibType /\ "CONNECTION" \in Kind
    BY <1>6 DEF PhoneLinks, LibType, Kind
  <2>2. Post(<<Ev("CONNECTION")>>) /\ Sound(gtws')
    BY <1>1, <1>6, ShutSound DEF Kept, PhoneLinks, Post
  <2> QED
    BY <1>2, <1>3, <2>1, <2>2
<1>7. CASE PhoneReady
  <2>1. lib' \in LibType /\ "PHONE" \in Kind
    BY <1>7 DEF PhoneReady, LibType, Kind
  <2>2. Post(<<Ev("PHONE")>>) /\ Sound(gtws')
    BY <1>1, <1>7 DEF PhoneReady, Post
  <2> QED
    BY <1>2, <1>3, <2>1, <2>2
<1>8. CASE \E kind \in {"TIMEOUT", "DISCONNECT"}, why \in Reason : PhoneLeaves(kind, why)
  <2>1. PICK kind \in {"TIMEOUT", "DISCONNECT"}, why \in Reason : PhoneLeaves(kind, why)
    BY <1>8
  <2> DEFINE hci == LinkEv(kind, why)
             tws == TwsEv("PHONE_LINK_DETACH", why)
  <2>2. lib' \in LibType /\ gtws' = gtws
    BY <2>1 DEF PhoneLeaves, LibType
  <2>3. hci \in Event /\ tws \in Event
    BY EventsTyped DEF Kind, Why, Reason
  <2>4. Post(<<hci, tws>>) \/ Post(<<hci>>)
    BY <2>1 DEF PhoneLeaves
  <2> HIDE DEF hci, tws
  <2>5. <<hci, tws>> \in Seq(Event) /\ <<hci>> \in Seq(Event)
    BY <2>3
  <2>6. Sound(gtws')
    BY <1>1, <2>2, <2>4 DEF Post
  <2> QED
    BY <1>3, <2>2, <2>4, <2>5, <2>6
<1>9. CASE \E why \in Reason : SiblingsPhone(why)
  <2> PICK why \in Reason : SiblingsPhone(why)
    BY <1>9
  <2>1. lib' \in LibType /\ gtws' = gtws
    BY DEF SiblingsPhone, LibType
  <2> DEFINE tws == TwsEv("PHONE_LINK_DETACH", why)
  <2>2. tws \in Event
    BY EventsTyped DEF Kind, Why, Reason
  <2>3. Post(<<>>) \/ Post(<<tws>>)
    BY DEF SiblingsPhone
  <2> HIDE DEF tws
  <2>4. <<>> \in Seq(Event) /\ <<tws>> \in Seq(Event)
    BY <2>2
  <2>5. Sound(gtws')
    BY <1>1, <2>1, <2>3 DEF Post
  <2> QED
    BY <1>3, <2>1, <2>3, <2>4, <2>5
<1>10. CASE Call
  <2> DEFINE kind == IF lib.esco THEN "SCO_END" ELSE "SCO_BEGIN"
  <2>1. lib' \in LibType /\ kind \in Kind
    BY <1>10 DEF Call, LibType, Kind
  <2>2. Post(<<Ev(kind)>>) /\ Sound(gtws')
    BY <1>1, <1>10 DEF Call, Post
  <2> HIDE DEF kind
  <2> QED
    BY <1>2, <1>3, <2>1, <2>2
<1>11. ASSUME NEW op, NEW kind \in Kind, Expires(op, kind)
       PROVE  LinkInv'
  <2>1. Post(<<TwsEv(kind, "none")>>) /\ Sound(gtws') /\ lib' = lib
    BY <1>1, <1>11, ShutSound DEF Kept, Expires, Post
  <2> QED
    BY <1>2, <1>3, <2>1
<1>12. CASE RunsOut \/ PageExists
  BY <1>11, <1>12 DEF RunsOut, PageExists, Kind
<1> QED
  BY <1>4, <1>5, <1>6, <1>7, <1>8, <1>9, <1>10, <1>12 DEF Library

(* The handlers: the flags change with the events of the sibling only.     *)
Effect(e, s, t) ==
  CASE e.kind = "CONNECTED" -> NowLinked(e, s, t)
    [] e.kind = "DETACH" -> NowApart(e, s, t)
    [] e.kind = "REMOVE_PAIRS" -> NowUnpaired(s, t)
    [] OTHER -> Kept(s, t)

Handled ==
  /\ Sound(gtws') /\ Effect(Head(queue), gtws, gtws')
  /\ stack # "off" /\ queue # <<>>
  /\ stack' = stack /\ lib' = lib /\ queue' = Tail(queue)

LEMMA HandlersEffect ==
  ASSUME LinkInv, Handler
  PROVE  Handled
<1> USE DEF LinkInv
<1> DEFINE e == Head(queue)
           linkKinds == {"CONNECTED", "DETACH", "REMOVE_PAIRS"}
<1>1. ASSUME NEW kinds, Take(kinds)
      PROVE  /\ Sound(gtws) /\ stack # "off" /\ queue # <<>> /\ e.kind \in kinds
             /\ stack' = stack /\ lib' = lib /\ queue' = Tail(queue)
  BY <1>1 DEF Fresh, Take
<1>2. ASSUME NEW kinds, Take(kinds), kinds \cap linkKinds = {}, Kept(gtws, gtws')
      PROVE  Handled
  <2>1. e.kind \notin linkKinds
    BY <1>1, <1>2
  <2>2. Effect(e, gtws, gtws')
    BY <1>2, <2>1 DEF Effect
  <2> QED
    BY <1>1, <1>2, <2>2 DEF Handled, Kept
<1>3. CASE OnConnected
  <2>1. Take({"CONNECTED"}) /\ gtws' = Connected(gtws, e)
    BY <1>3 DEF OnConnected
  <2>2. e.kind = "CONNECTED" /\ Sound(gtws') /\ NowLinked(e, gtws, gtws')
    BY <1>1, <2>1, ConnectedSound
  <2> QED
    BY <1>1, <2>1, <2>2 DEF Handled, Effect
<1>4. CASE OnDetach
  <2>1. PICK failed \in BOOLEAN : Take({"DETACH"}) /\ gtws' = Detach(gtws, e, failed)
    BY <1>4 DEF OnDetach
  <2>2. e.kind = "DETACH" /\ Sound(gtws)
    BY <1>1, <2>1
  <2> HIDE DEF e
  <2>3. e.kind = "DETACH" /\ Sound(gtws') /\ NowApart(e, gtws, gtws')
    BY <2>1, <2>2, DetachSound
  <2> USE DEF e
  <2> QED
    BY <1>1, <2>1, <2>3 DEF Handled, Effect
<1>5. CASE OnRemovePairs
  <2> DEFINE z == [gtws EXCEPT !.stored = FALSE]
  <2>1. Take({"REMOVE_PAIRS"}) /\ gtws' = OpenPhoneScan(OpenWaitPair(CancelTimer(z)))
    BY <1>5 DEF OnRemovePairs
  <2>2. Sound(z) /\ NowUnpaired(gtws, z) /\ e.kind = "REMOVE_PAIRS"
    BY <1>1, <2>1, ForgetSound
  <2> HIDE DEF z
  <2>3. Kept(z, gtws')
    BY <2>1, <2>2, CancelSound, OpensSound DEF Kept
  <2>4. NowUnpaired(gtws, gtws') /\ Sound(gtws')
    BY <2>2, <2>3 DEF NowUnpaired, Kept
  <2> QED
    BY <1>1, <2>1, <2>2, <2>4 DEF Handled, Effect
<1>6. CASE OnSearchTimeout
  <2>1. Take({"SEARCH_TIMEOUT"}) /\ gtws' = Restart(gtws)
    BY <1>6 DEF OnSearchTimeout
  <2> QED
    BY <1>1, <1>2, <2>1, RestartSound
<1>7. CASE OnConnectionTimeout
  <2>1. Take({"CONNECTION_TIMEOUT"}) /\ gtws' = ConnectionTimeout(gtws, e)
    BY <1>7 DEF OnConnectionTimeout
  <2> QED
    BY <1>1, <1>2, <2>1, ConnectionTimeoutSound
<1>8. CASE OnPhoneLinkDetach
  <2> DEFINE n == CASE e.why = "lost" -> gtws.counter
                    [] e.why = "exists" -> ShortPages
                    [] OTHER -> 0
             z == [gtws EXCEPT !.counter = n]
  <2>1. Take({"PHONE_LINK_DETACH"}) /\ gtws' = Restart(z)
    BY <1>8 DEF OnPhoneLinkDetach, PhoneLinkDetach
  <2>2. n \in 0..LongPages /\ Sound(gtws)
    BY <1>1, <2>1, TwsAssumption DEF Sound, State
  <2> HIDE DEF n
  <2>4. Kept(gtws, z)
    BY <2>2, CounterSound
  <2> HIDE DEF z
  <2>3. Kept(gtws, gtws')
    BY <2>1, <2>4, RestartSound DEF Kept
  <2> QED
    BY <1>2, <2>1, <2>3
<1>9. CASE OnConnection
  <2> DEFINE z == CancelTimer(gtws)
  <2>1. Take({"CONNECTION"}) /\ gtws' = [z EXCEPT !.power_on = FALSE, !.counter = 0]
    BY <1>9 DEF OnConnection
  <2>2. Kept(gtws, z) /\ 0 \in 0..LongPages
    BY <1>1, <2>1, CancelSound, TwsAssumption
  <2> HIDE DEF z
  <2>3. Kept(gtws, gtws')
    BY <2>1, <2>2 DEF Kept, Sound, State
  <2> QED
    BY <1>2, <2>1, <2>3
<1>10. CASE OnPhone
  <2>1. Take({"PHONE"}) /\ gtws' = PhoneConnected(gtws)
    BY <1>10 DEF OnPhone
  <2> QED
    BY <1>1, <1>2, <2>1, PhoneHandlersSound
<1>11. CASE OnDisconnect
  <2>1. PICK failed \in BOOLEAN :
          /\ Take({"DISCONNECT"})
          /\ gtws' \in {gtws, PhoneDisconnected(gtws), PhoneConnectTimeout(gtws, failed)}
    BY <1>11 DEF OnDisconnect
  <2>2. Kept(gtws, gtws')
    BY <1>1, <2>1, PhoneHandlersSound DEF Kept
  <2> QED
    BY <1>2, <2>1, <2>2
<1>12. CASE OnPageTimeout
  <2>1. Take({"PAGE_TIMEOUT"}) /\ gtws' = PhoneDisconnected(gtws)
    BY <1>12 DEF OnPageTimeout
  <2> QED
    BY <1>1, <1>2, <2>1, PhoneHandlersSound
<1>13. CASE OnLinkLost
  <2> DEFINE c == IF e.kind = "TIMEOUT" THEN LongPages ELSE ShortPages
             z == [gtws EXCEPT !.counter = c]
  <2>1. PICK failed \in BOOLEAN :
          gtws' = IF lib.esco THEN PhoneDisconnected(gtws) ELSE PhoneConnectTimeout(z, failed)
    BY <1>13 DEF OnLinkLost
  <2>2. Take({"TIMEOUT", "EXISTS"}) /\ Sound(gtws)
    BY <1>1, <1>13 DEF OnLinkLost
  <2>3. c \in 0..LongPages
    BY TwsAssumption
  <2>4. Kept(gtws, z)
    <3> HIDE DEF c
    <3> QED
      BY <2>2, <2>3 DEF Kept, Sound, State
  <2> HIDE DEF c, z
  <2>5. Kept(gtws, gtws')
    BY <2>1, <2>2, <2>4, PhoneHandlersSound DEF Kept
  <2> QED
    BY <1>2, <2>2, <2>5
<1>14. CASE OnScoBegin
  <2>1. /\ Take({"SCO_BEGIN"})
        /\ gtws' = Shut(CancelTimer(gtws), IF gtws.pair = "unpaired" THEN Scans ELSE Creates)
    BY <1>14 DEF OnScoBegin
  <2>2. Kept(gtws, gtws')
    BY <1>1, <2>1, CancelSound, ShutSound DEF Kept
  <2> QED
    BY <1>2, <2>1, <2>2
<1>15. CASE OnScoEnd
  <2>1. Take({"SCO_END"}) /\ gtws' \in {OpenWaitPair(gtws), OpenConn(gtws)}
    BY <1>15 DEF OnScoEnd
  <2>2. Kept(gtws, gtws')
    BY <1>1, <2>1, OpensSound
  <2> QED
    BY <1>2, <2>1, <2>2
<1> QED
  BY <1>3, <1>4, <1>5, <1>6, <1>7, <1>8, <1>9, <1>10, <1>11, <1>12, <1>13, <1>14, <1>15
  DEF Handler

LEMMA HandlersKeep ==
  ASSUME LinkInv, Handler
  PROVE  LinkInv'
<1>1. Handled
  BY HandlersEffect
<1>2. Tail(queue) \in Seq(Event) /\ Len(Tail(queue)) <= QMax
  <2>1. queue \in Seq(Event) /\ queue # <<>> /\ Len(queue) <= QMax
    BY <1>1 DEF LinkInv, Handled
  <2>2. Tail(queue) \in Seq(Event) /\ Len(Tail(queue)) = Len(queue) - 1 /\ Len(queue) \in Nat
    BY <2>1
  <2> QED
    BY <2>1, <2>2, TwsAssumption
<1> QED
  BY <1>1, <1>2 DEF LinkInv, Handled

(* Behind both: what holds of gtws, the links and the queue after every     *)
(* step of app_core, the timer and the library.                            *)
THEOREM LinkInvHolds == TwsSpec => []LinkInv
<1>1. TwsInit => LinkInv
  BY LinkInvInitially
<1>2. LinkInv /\ [TwsNext]_twsVars => LinkInv'
  <2> SUFFICES ASSUME LinkInv, [TwsNext]_twsVars PROVE LinkInv'
    OBVIOUS
  <2>1. CASE TwsNext
    BY <2>1, OwnStepsKeep, LibraryKeeps, HandlersKeep DEF TwsNext
  <2>2. CASE UNCHANGED twsVars
    BY <2>2 DEF LinkInv, Fresh, twsVars
  <2> QED
    BY <2>1, <2>2
<1> QED
  BY <1>1, <1>2, PTL DEF TwsSpec

(* The types of the state, for any number of pages, phones and events.     *)
THEOREM TwsTypeCorrect == TwsSpec => []TwsTypeOK
<1>1. LinkInv => TwsTypeOK
  BY DEF LinkInv, Sound, Fresh, State, LibType, TwsTypeOK
<1> QED
  BY <1>1, LinkInvHolds, PTL

(* However handlers and the timer follow one another, none overwrites a    *)
(* timer that is armed.                                                    *)
THEOREM TimerIsOne == TwsSpec => []OneTimer
<1>1. LinkInv => OneTimer
  BY DEF LinkInv, Sound, Fresh, OneTimer
<1> QED
  BY <1>1, LinkInvHolds, PTL

-----------------------------------------------------------------------------
(* What app_core knows of the sibling.  The flag lags behind the library:  *)
(* the last link event that waits tells the truth, and when none waits the *)
(* flag does.  A removal is two events; between their handlers pair and    *)
(* the VM may disagree, and the other half is then the head of the queue.  *)

IsLink(e) == e.kind \in {"CONNECTED", "DETACH"}

LinkTruth(q, sibling, linked) ==
  LET L == {i \in DOMAIN q : IsLink(q[i])}
  IN  /\ L = {} => (sibling <=> linked)
      /\ \A i \in L : (\A j \in L : j <= i) => (q[i].kind = "CONNECTED" <=> linked)

Removed(e) == e.kind = "DETACH" /\ e.why = "removed"
Unpair(e) == e.kind = "REMOVE_PAIRS"
TwoHalves(e, f) == (Removed(e) /\ Unpair(f)) \/ (Unpair(e) /\ Removed(f))
Agree(pair, stored) == pair = "paired" <=> stored

(* P is the set of places where the two events of a removal start, 0 when   *)
(* the first of them has just been handled.                                *)
Halves(q, P, pair, stored) ==
  /\ \A i \in P : /\ i \in 0..Len(q) /\ i + 1 \in DOMAIN q /\ i + 1 \notin P
                  /\ i # 0 => TwoHalves(q[i], q[i + 1])
  /\ \A i \in DOMAIN q : Removed(q[i]) \/ Unpair(q[i]) => i \in P \/ i - 1 \in P
  /\ IF 0 \in P THEN (Unpair(q[1]) /\ pair = "unpaired") \/ (Removed(q[1]) /\ ~stored)
     ELSE Agree(pair, stored)

LEMMA LinkTruthAppend ==
  ASSUME NEW q \in Seq(Event), NEW e \in Event, NEW sibling \in BOOLEAN, NEW linked \in BOOLEAN
  PROVE  /\ ~IsLink(e) /\ LinkTruth(q, sibling, linked) =>
              LinkTruth(Append(q, e), sibling, linked)
         /\ IsLink(e) => LinkTruth(Append(q, e), sibling, e.kind = "CONNECTED")
<1> DEFINE r == Append(q, e)
           L == {i \in DOMAIN q : IsLink(q[i])}
           M == {i \in DOMAIN r : IsLink(r[i])}
<1>1. /\ DOMAIN q = 1..Len(q) /\ DOMAIN r = 1..(Len(q) + 1) /\ Len(q) \in Nat
      /\ r[Len(q) + 1] = e /\ \A i \in 1..Len(q) : r[i] = q[i]
  OBVIOUS
<1>2. ~IsLink(e) => M = L
  BY <1>1
<1>3. IsLink(e) => Len(q) + 1 \in M /\ \A i \in M : i <= Len(q) + 1
  BY <1>1
<1> HIDE DEF r
<1>4. ASSUME ~IsLink(e), LinkTruth(q, sibling, linked)
      PROVE  LinkTruth(r, sibling, linked)
  <2>1. \A i \in L : r[i] = q[i]
    BY <1>1
  <2> QED
    BY <1>2, <1>4, <2>1 DEF LinkTruth
<1>5. ASSUME IsLink(e)
      PROVE  LinkTruth(r, sibling, e.kind = "CONNECTED")
  <2>1. \A i \in M : (\A j \in M : j <= i) => i = Len(q) + 1
    BY <1>1, <1>3, <1>5
  <2> QED
    BY <1>1, <1>3, <1>5, <2>1 DEF LinkTruth
<1> QED
  BY <1>4, <1>5 DEF r

LEMMA HalvesAppend ==
  ASSUME NEW q \in Seq(Event), NEW P, NEW pair, NEW stored, Halves(q, P, pair, stored),
         NEW e \in Event
  PROVE  /\ ~Removed(e) /\ ~Unpair(e) => Halves(Append(q, e), P, pair, stored)
         /\ \A f \in Event :
              TwoHalves(e, f) =>
                Halves(Append(Append(q, e), f), P \cup {Len(q) + 1}, pair, stored)
<1> DEFINE n == Len(q)
<1>1. n \in Nat /\ DOMAIN q = 1..n
  OBVIOUS
<1>2. \A i \in P : /\ i \in 0..n /\ i + 1 \in 1..n /\ i + 1 \notin P
                   /\ i # 0 => i \in 1..n /\ TwoHalves(q[i], q[i + 1])
  BY <1>1 DEF Halves
<1>3. \A i \in 1..n : Removed(q[i]) \/ Unpair(q[i]) => i \in P \/ i - 1 \in P
  BY <1>1 DEF Halves
<1>4. IF 0 \in P THEN (Unpair(q[1]) /\ pair = "unpaired") \/ (Removed(q[1]) /\ ~stored)
      ELSE Agree(pair, stored)
  BY DEF Halves
<1>5. 0 \in P => 1 \in 1..n
  BY <1>2
<1>6. ASSUME ~Removed(e), ~Unpair(e) PROVE Halves(Append(q, e), P, pair, stored)
  <2> DEFINE r == Append(q, e)
  <2>1. /\ DOMAIN r = 1..(n + 1) /\ r[n + 1] = e /\ Len(r) = n + 1
        /\ \A i \in 1..n : r[i] = q[i]
    OBVIOUS
  <2> HIDE DEF r, n
  <2>2. \A i \in P : /\ i \in 0..Len(r) /\ i + 1 \in DOMAIN r /\ i + 1 \notin P
                     /\ i # 0 => TwoHalves(r[i], r[i + 1])
    BY <1>1, <1>2, <2>1
  <2>3. \A i \in DOMAIN r : Removed(r[i]) \/ Unpair(r[i]) => i \in P \/ i - 1 \in P
    BY <1>1, <1>3, <1>6, <2>1
  <2>4. 0 \in P => r[1] = q[1]
    BY <1>5, <2>1
  <2>5. Halves(r, P, pair, stored)
    BY <1>4, <2>2, <2>3, <2>4 DEF Halves
  <2> QED
    BY <2>5 DEF r
<1>7. ASSUME NEW f \in Event, TwoHalves(e, f)
      PROVE  Halves(Append(Append(q, e), f), P \cup {n + 1}, pair, stored)
  <2> DEFINE r == Append(Append(q, e), f)
             R == P \cup {n + 1}
  <2>1. /\ DOMAIN r = 1..(n + 2) /\ r[n + 1] = e /\ r[n + 2] = f /\ Len(r) = n + 2
        /\ \A i \in 1..n : r[i] = q[i]
    OBVIOUS
  <2> HIDE DEF r, n
  <2>2. ASSUME NEW i \in R
        PROVE  /\ i \in 0..Len(r) /\ i + 1 \in DOMAIN r /\ i + 1 \notin R
               /\ i # 0 => TwoHalves(r[i], r[i + 1])
    <3>1. CASE i \in P
      BY <1>1, <1>2, <2>1, <3>1
    <3>2. CASE i = n + 1
      <4>1. i + 1 = n + 2 /\ i + 1 \notin 0..n /\ i # 0
        BY <1>1, <3>2
      <4> QED
        BY <1>1, <1>2, <1>7, <2>1, <3>2, <4>1
    <3> QED
      BY <3>1, <3>2
  <2>3. ASSUME NEW i \in DOMAIN r, Removed(r[i]) \/ Unpair(r[i])
        PROVE  i \in R \/ i - 1 \in R
    <3>1. CASE i \in 1..n
      BY <1>3, <2>1, <2>3, <3>1
    <3>2. CASE i = n + 1 \/ i = n + 2
      BY <1>1, <3>2
    <3> QED
      BY <1>1, <2>1, <3>1, <3>2
  <2>4. (0 \in R <=> 0 \in P) /\ (0 \in P => r[1] = q[1])
    BY <1>1, <1>5, <2>1
  <2> HIDE DEF R
  <2>5. Halves(r, R, pair, stored)
    BY <1>4, <2>2, <2>3, <2>4 DEF Halves
  <2> QED
    BY <2>5 DEF r, R
<1> QED
  BY <1>6, <1>7

(* Taking the head of the queue. *)
LEMMA TailPlaces ==
  ASSUME NEW q \in Seq(Event), q # <<>>
  PROVE  /\ Tail(q) \in Seq(Event) /\ Head(q) = q[1] /\ q[1] \in Event
         /\ Len(q) \in Nat \ {0} /\ DOMAIN q = 1..Len(q)
         /\ DOMAIN Tail(q) = 1..(Len(q) - 1)
         /\ \A i \in 1..(Len(q) - 1) : Tail(q)[i] = q[i + 1]
<1>1. Len(Tail(q)) = Len(q) - 1 /\ Tail(q) \in Seq(Event)
  OBVIOUS
<1> QED
  BY <1>1

LEMMA LinkTruthTail ==
  ASSUME NEW q \in Seq(Event), q # <<>>, NEW sibling \in BOOLEAN, NEW linked \in BOOLEAN,
         LinkTruth(q, sibling, linked), NEW known \in BOOLEAN,
         IsLink(Head(q)) => (known <=> Head(q).kind = "CONNECTED"),
         ~IsLink(Head(q)) => (known <=> sibling)
  PROVE  LinkTruth(Tail(q), known, linked)
<1> DEFINE r == Tail(q)
           L == {i \in DOMAIN q : IsLink(q[i])}
           M == {i \in DOMAIN r : IsLink(r[i])}
<1>1. /\ Head(q) = q[1] /\ Len(q) \in Nat \ {0} /\ DOMAIN q = 1..Len(q)
      /\ DOMAIN r = 1..(Len(q) - 1)
      /\ \A i \in 1..(Len(q) - 1) : r[i] = q[i + 1]
  BY TailPlaces
<1> HIDE DEF r
<1>2. \A i \in M : i + 1 \in L /\ r[i] = q[i + 1]
  BY <1>1
<1>3. \A j \in L : j = 1 \/ j - 1 \in M
  BY <1>1
<1>4. ASSUME NEW i \in M, \A j \in M : j <= i
      PROVE  r[i].kind = "CONNECTED" <=> linked
  <2>1. \A j \in L : j <= i + 1
    BY <1>1, <1>3, <1>4
  <2> QED
    BY <1>2, <2>1 DEF LinkTruth
<1>5. ASSUME M = {}
      PROVE  known <=> linked
  <2>1. CASE L = {}
    BY <1>1, <2>1 DEF LinkTruth
  <2>2. CASE L # {}
    <3>1. L = {1}
      BY <1>1, <1>3, <1>5, <2>2
    <3>2. 1 \in L /\ \A j \in L : j <= 1
      BY <3>1
    <3> QED
      BY <1>1, <3>2 DEF LinkTruth
  <2> QED
    BY <2>1, <2>2
<1>6. LinkTruth(r, known, linked)
  BY <1>4, <1>5 DEF LinkTruth
<1> QED
  BY <1>6 DEF r

LEMMA HalvesTail ==
  ASSUME NEW q \in Seq(Event), q # <<>>, NEW P, NEW pair, NEW stored,
         Halves(q, P, pair, stored), NEW p, NEW st \in BOOLEAN,
         Removed(q[1]) => p = "unpaired" /\ st = stored,
         Unpair(q[1]) => p = pair /\ ~st,
         ~Removed(q[1]) /\ ~Unpair(q[1]) /\ Agree(pair, stored) => Agree(p, st)
  PROVE  \E Q : Halves(Tail(q), Q, p, st)
<1> DEFINE r == Tail(q)
           n == Len(q)
           Q == {i \in 0..(n - 1) : i + 1 \in P}
<1>1. /\ n \in Nat \ {0} /\ DOMAIN q = 1..n /\ DOMAIN r = 1..(n - 1) /\ Len(r) = n - 1
      /\ \A i \in 1..(n - 1) : r[i] = q[i + 1]
  BY TailPlaces
<1>2. \A i \in P : /\ i \in 0..n /\ i + 1 \in 1..n /\ i + 1 \notin P
                   /\ i # 0 => TwoHalves(q[i], q[i + 1])
  BY <1>1 DEF Halves
<1>3. \A i \in 1..n : Removed(q[i]) \/ Unpair(q[i]) => i \in P \/ i - 1 \in P
  BY <1>1 DEF Halves
<1>4. IF 0 \in P THEN (Unpair(q[1]) /\ pair = "unpaired") \/ (Removed(q[1]) /\ ~stored)
      ELSE Agree(pair, stored)
  BY DEF Halves
<1> HIDE DEF r, n
<1>5. ASSUME NEW i \in Q
      PROVE  /\ i \in 0..Len(r) /\ i + 1 \in DOMAIN r /\ i + 1 \notin Q
             /\ i # 0 => TwoHalves(r[i], r[i + 1])
  <2> DEFINE j == i + 1
  <2>3. i \in 0..(n - 1) /\ j \in P /\ j # 0
    BY <1>1, <1>5
  <2> HIDE DEF j, Q
  <2>4. j + 1 \in 1..n /\ j + 1 \notin P /\ TwoHalves(q[j], q[j + 1])
    BY <1>2, <2>3
  <2>1. /\ i \in 0..(n - 1) /\ i + 1 \in P /\ i + 1 + 1 \in 1..n /\ i + 1 + 1 \notin P
        /\ i + 1 # 0 /\ TwoHalves(q[i + 1], q[i + 1 + 1])
    BY <2>3, <2>4 DEF j
  <2>2. i + 1 \in 1..(n - 1) /\ (i # 0 => i \in 1..(n - 1))
    BY <1>1, <2>1
  <2>5. i + 1 \notin Q
    BY <2>1 DEF Q
  <2> QED
    BY <1>1, <2>1, <2>2, <2>5
<1>6. ASSUME NEW i \in DOMAIN r, Removed(r[i]) \/ Unpair(r[i])
      PROVE  i \in Q \/ i - 1 \in Q
  <2>1. /\ i \in 1..(n - 1) /\ i + 1 \in 1..n /\ i + 1 - 1 = i /\ r[i] = q[i + 1]
        /\ i - 1 \in 0..(n - 1) /\ i - 1 + 1 = i /\ i \in 0..(n - 1)
    BY <1>1
  <2>2. i + 1 \in P \/ i \in P
    BY <1>3, <1>6, <2>1
  <2> QED
    BY <2>1, <2>2
<1>7. 0 \in Q <=> 1 \in P
  BY <1>1
<1>8. CASE 0 \in Q
  <2>1. 1 \in P /\ 1 # 0 /\ 1 + 1 = 2 /\ 1 \in 1..(n - 1)
    BY <1>1, <1>2, <1>7, <1>8
  <2>2. TwoHalves(q[1], q[2]) /\ r[1] = q[2]
    BY <1>1, <1>2, <2>1
  <2>3. (Unpair(r[1]) /\ p = "unpaired") \/ (Removed(r[1]) /\ ~st)
    BY <2>2 DEF TwoHalves
  <2> HIDE DEF Q
  <2>4. Halves(r, Q, p, st)
    BY <1>5, <1>6, <1>8, <2>3 DEF Halves
  <2> QED
    BY <2>4 DEF r
<1>9. CASE 0 \notin Q
  <2>1. 1 \in 1..n /\ 1 - 1 = 0 /\ 0 + 1 = 1
    BY <1>1
  <2>2. 0 \in P => Agree(p, st)
    BY <1>4 DEF Agree
  <2>3. 0 \notin P => Agree(p, st)
    BY <1>3, <1>4, <1>7, <1>9, <2>1
  <2> HIDE DEF Q
  <2>4. Halves(r, Q, p, st)
    BY <1>5, <1>6, <1>9, <2>2, <2>3 DEF Halves
  <2> QED
    BY <2>4 DEF r
<1> QED
  BY <1>8, <1>9

(* The library adds to the queue: events that are no link event, a link    *)
(* event that says what became of the link, or the two halves of a removal. *)
Dull(e) == ~IsLink(e) /\ ~Unpair(e)

Grown(q, r, l, m) ==
  \/ r = q /\ m = l
  \/ \E e \in Event : r = Append(q, e) /\ Dull(e) /\ m = l
  \/ \E e, f \in Event : r = Append(Append(q, e), f) /\ Dull(e) /\ Dull(f) /\ m = l
  \/ \E e \in Event : r = Append(q, e) /\ IsLink(e) /\ ~Removed(e)
                      /\ m = (e.kind = "CONNECTED")
  \/ \E e, f \in Event : r = Append(Append(q, e), f) /\ TwoHalves(e, f) /\ m = FALSE

LEMMA GrownKnows ==
  ASSUME NEW q \in Seq(Event), NEW sibling \in BOOLEAN, NEW l \in BOOLEAN, NEW m \in BOOLEAN,
         NEW P, NEW pair, NEW stored, NEW r, Grown(q, r, l, m),
         LinkTruth(q, sibling, l), Halves(q, P, pair, stored)
  PROVE  LinkTruth(r, sibling, m) /\ \E R : Halves(r, R, pair, stored)
<1>1. ASSUME NEW s \in Seq(Event), NEW e \in Event
      PROVE  Append(s, e) \in Seq(Event)
  BY <1>1
<1>2. ASSUME NEW e, Dull(e) PROVE ~IsLink(e) /\ ~Removed(e) /\ ~Unpair(e)
  BY <1>2 DEF Dull, IsLink, Removed
<1>3. CASE r = q /\ m = l
  BY <1>3
<1>4. CASE \E e \in Event : r = Append(q, e) /\ Dull(e) /\ m = l
  <2>1. PICK e \in Event : r = Append(q, e) /\ Dull(e) /\ m = l
    BY <1>4
  <2>2. LinkTruth(r, sibling, m)
    BY <1>2, <2>1, LinkTruthAppend
  <2>3. Halves(r, P, pair, stored)
    BY <1>2, <2>1, HalvesAppend
  <2> QED
    BY <2>2, <2>3
<1>5. CASE \E e, f \in Event :
             r = Append(Append(q, e), f) /\ Dull(e) /\ Dull(f) /\ m = l
  <2>1. PICK e \in Event, f \in Event :
          r = Append(Append(q, e), f) /\ Dull(e) /\ Dull(f) /\ m = l
    BY <1>5
  <2> DEFINE s == Append(q, e)
  <2>2. s \in Seq(Event)
    BY <1>1
  <2>3. LinkTruth(s, sibling, m) /\ Halves(s, P, pair, stored)
    BY <1>2, <2>1, LinkTruthAppend, HalvesAppend
  <2>4. r = Append(s, f)
    BY <2>1
  <2> HIDE DEF s
  <2>5. LinkTruth(r, sibling, m)
    BY <1>2, <2>1, <2>2, <2>3, <2>4, LinkTruthAppend
  <2>6. Halves(r, P, pair, stored)
    BY <1>2, <2>1, <2>2, <2>3, <2>4, HalvesAppend
  <2> QED
    BY <2>5, <2>6
<1>6. CASE \E e \in Event : r = Append(q, e) /\ IsLink(e) /\ ~Removed(e)
                            /\ m = (e.kind = "CONNECTED")
  <2>1. PICK e \in Event : r = Append(q, e) /\ IsLink(e) /\ ~Removed(e)
                           /\ m = (e.kind = "CONNECTED")
    BY <1>6
  <2>2. LinkTruth(r, sibling, m)
    BY <2>1, LinkTruthAppend
  <2>3. ~Unpair(e)
    BY <2>1 DEF IsLink, Unpair
  <2>4. Halves(r, P, pair, stored)
    BY <2>1, <2>3, HalvesAppend
  <2> QED
    BY <2>2, <2>4
<1>7. CASE \E e, f \in Event :
             r = Append(Append(q, e), f) /\ TwoHalves(e, f) /\ m = FALSE
  <2>1. PICK e \in Event, f \in Event :
          r = Append(Append(q, e), f) /\ TwoHalves(e, f) /\ m = FALSE
    BY <1>7
  <2> DEFINE s == Append(q, e)
  <2>2. s \in Seq(Event) /\ r = Append(s, f)
    BY <1>1, <2>1
  <2>3. \/ IsLink(e) /\ e.kind # "CONNECTED" /\ ~IsLink(f)
        \/ ~IsLink(e) /\ IsLink(f) /\ f.kind # "CONNECTED"
    BY <2>1 DEF TwoHalves, Removed, Unpair, IsLink
  <2>4. Halves(r, P \cup {Len(q) + 1}, pair, stored)
    BY <2>1, HalvesAppend
  <2>5. \/ IsLink(f) /\ f.kind # "CONNECTED"
        \/ ~IsLink(f) /\ LinkTruth(s, sibling, FALSE)
    <3>1. IsLink(e) => LinkTruth(s, sibling, e.kind = "CONNECTED")
      BY LinkTruthAppend
    <3>2. e.kind # "CONNECTED" => (e.kind = "CONNECTED") = FALSE
      OBVIOUS
    <3> HIDE DEF s
    <3> QED
      BY <2>3, <3>1, <3>2
  <2> HIDE DEF s
  <2>6. LinkTruth(r, sibling, FALSE)
    <3>1. CASE ~IsLink(f) /\ LinkTruth(s, sibling, FALSE)
      BY <2>2, <3>1, LinkTruthAppend
    <3>2. CASE IsLink(f) /\ f.kind # "CONNECTED"
      <4>1. LinkTruth(r, sibling, f.kind = "CONNECTED")
        BY <2>2, <3>2, LinkTruthAppend
      <4>2. (f.kind = "CONNECTED") = FALSE
        BY <3>2
      <4> QED
        BY <4>1, <4>2
    <3> QED
      BY <2>5, <3>1, <3>2
  <2> QED
    BY <2>1, <2>4, <2>6
<1> QED
  BY <1>3, <1>4, <1>5, <1>6, <1>7 DEF Grown

LEMMA PostAppends ==
  ASSUME queue \in Seq(Event), NEW e \in Event
  PROVE  /\ Post(<<e>>) => queue' = Append(queue, e)
         /\ \A f \in Event : Post(<<e, f>>) => queue' = Append(Append(queue, e), f)
<1>1. queue \o <<e>> = Append(queue, e)
  OBVIOUS
<1>2. ASSUME NEW f \in Event PROVE queue \o <<e, f>> = Append(Append(queue, e), f)
  OBVIOUS
<1> QED
  BY <1>1, <1>2 DEF Post

Growth ==
  /\ stack # "off" /\ stack' = stack /\ Kept(gtws, gtws')
  /\ Grown(queue, queue', lib.linked, lib'.linked)

LEMMA LibraryGrows ==
  ASSUME LinkInv, Library
  PROVE  Growth
<1> USE DEF LinkInv
<1>1. stack # "off" => Kept(gtws, gtws)
  BY DEF Fresh, Kept
<1>2. lib.linked \in BOOLEAN
  BY DEF LibType
<1>3. ASSUME NEW e \in Event, Dull(e), Post(<<e>>), Kept(gtws, gtws'), lib'.linked = lib.linked
      PROVE  Growth
  BY <1>3, PostAppends DEF Growth, Grown, Post
<1>4. CASE SiblingLinks
  <2>1. PICK role \in {"MASTER", "SLAVE"}, other \in BOOLEAN, phone \in {"none", "ready"} :
          /\ lib' = [lib EXCEPT !.linked = TRUE, !.role = role,
                                !.phone = IF role = "SLAVE" THEN phone ELSE @]
          /\ Post(<<[kind |-> "CONNECTED", role |-> role, phone |-> lib'.phone = "ready",
                     why |-> IF other THEN "other" ELSE "none"]>>)
    BY <1>4 DEF SiblingLinks
  <2>2. lib'.linked = TRUE
    BY <2>1 DEF LibType
  <2> DEFINE r == lib'.phone = "ready"
             w == IF other THEN "other" ELSE "none"
             ev == [kind |-> "CONNECTED", role |-> role, phone |-> r, why |-> w]
  <2>3. r \in BOOLEAN /\ w \in Why /\ "CONNECTED" \in Kind
    BY DEF Why, Kind
  <2>4. ev \in Event /\ ev.kind = "CONNECTED"
    <3> HIDE DEF r, w
    <3> QED
      BY <2>3 DEF Event
  <2>5. Post(<<ev>>)
    BY <2>1
  <2> HIDE DEF ev
  <2>6. IsLink(ev) /\ ~Removed(ev) /\ (ev.kind = "CONNECTED") = TRUE
    BY <2>4 DEF IsLink, Removed
  <2>7. queue' = Append(queue, ev) /\ stack # "off" /\ stack' = stack
    BY <2>4, <2>5, PostAppends DEF Post
  <2>8. Kept(gtws, gtws')
    BY <1>1, <1>4, <2>7, ShutSound DEF Kept, SiblingLinks
  <2> QED
    BY <2>2, <2>4, <2>6, <2>7, <2>8 DEF Growth, Grown
<1>5. CASE \E why \in {"lost", "removed", "other"} : SiblingLeaves(why)
  <2>1. PICK why \in {"lost", "removed", "other"} : SiblingLeaves(why)
    BY <1>5
  <2> DEFINE r == lib'.phone = "ready"
             detach == [kind |-> "DETACH", role |-> lib.role, phone |-> r, why |-> why]
             remove == Ev("REMOVE_PAIRS")
  <2>2. lib'.linked = FALSE /\ gtws' = gtws
    BY <2>1 DEF SiblingLeaves, Unlinked, LibType
  <2>3. r \in BOOLEAN /\ why \in Why /\ "DETACH" \in Kind /\ "REMOVE_PAIRS" \in Kind
        /\ "none" \in Why /\ lib.role \in {"MASTER", "SLAVE"}
    BY DEF Why, Kind, LibType
  <2>4. detach \in Event /\ detach.kind = "DETACH" /\ detach.why = why
    <3> HIDE DEF r
    <3> QED
      BY <2>3 DEF Event
  <2>5. remove \in Event /\ Unpair(remove)
    BY <2>3, EventsTyped DEF Ev, Unpair
  <2>6. \/ why # "removed" /\ Post(<<detach>>)
        \/ why = "removed" /\ (Post(<<detach, remove>>) \/ Post(<<remove, detach>>))
    BY <2>1 DEF SiblingLeaves
  <2> HIDE DEF detach, remove
  <2>7. Kept(gtws, gtws') /\ stack # "off" /\ stack' = stack
    BY <1>1, <2>2, <2>6 DEF Post
  <2>8. IsLink(detach) /\ (detach.kind = "CONNECTED") = FALSE
    BY <2>4 DEF IsLink
  <2>9. CASE why # "removed"
    <3>1. ~Removed(detach) /\ queue' = Append(queue, detach)
      BY <2>4, <2>6, <2>9, PostAppends DEF Removed
    <3> QED
      BY <2>2, <2>4, <2>7, <2>8, <3>1 DEF Growth, Grown
  <2>10. CASE why = "removed"
    <3>1. TwoHalves(detach, remove) /\ TwoHalves(remove, detach)
      BY <2>4, <2>5, <2>10 DEF Removed, TwoHalves
    <3>2. \/ queue' = Append(Append(queue, detach), remove)
          \/ queue' = Append(Append(queue, remove), detach)
      BY <2>4, <2>5, <2>6, <2>10, PostAppends
    <3> QED
      BY <2>2, <2>4, <2>5, <2>7, <3>1, <3>2 DEF Growth, Grown
  <2> QED
    BY <2>9, <2>10
<1>6. CASE PhoneLinks
  <2>1. lib'.linked = lib.linked /\ Post(<<Ev("CONNECTION")>>) /\ "CONNECTION" \in Kind
    BY <1>6 DEF PhoneLinks, LibType, Kind
  <2>2. Ev("CONNECTION") \in Event /\ Dull(Ev("CONNECTION"))
    BY <2>1, EventsTyped DEF Ev, Dull, IsLink, Unpair, Why
  <2>3. Kept(gtws, gtws')
    BY <1>1, <1>6, ShutSound DEF Kept, PhoneLinks, Post
  <2> QED
    BY <1>3, <2>1, <2>2, <2>3
<1>7. CASE PhoneReady
  <2>1. lib'.linked = lib.linked /\ Post(<<Ev("PHONE")>>) /\ "PHONE" \in Kind
    BY <1>7 DEF PhoneReady, LibType, Kind
  <2>2. Ev("PHONE") \in Event /\ Dull(Ev("PHONE"))
    BY <2>1, EventsTyped DEF Ev, Dull, IsLink, Unpair, Why
  <2>3. Kept(gtws, gtws')
    BY <1>1, <1>7 DEF PhoneReady, Post
  <2> QED
    BY <1>3, <2>1, <2>2, <2>3
<1>8. CASE \E kind \in {"TIMEOUT", "DISCONNECT"}, why \in Reason : PhoneLeaves(kind, why)
  <2>1. PICK kind \in {"TIMEOUT", "DISCONNECT"}, why \in Reason : PhoneLeaves(kind, why)
    BY <1>8
  <2> DEFINE hci == LinkEv(kind, why)
             tws == TwsEv("PHONE_LINK_DETACH", why)
  <2>2. lib'.linked = lib.linked /\ gtws' = gtws
    BY <2>1 DEF PhoneLeaves, LibType
  <2>3. hci \in Event /\ tws \in Event /\ Dull(hci) /\ Dull(tws)
    BY EventsTyped DEF Kind, Why, Reason, LinkEv, TwsEv, Dull, IsLink, Unpair
  <2>4. Post(<<hci, tws>>) \/ Post(<<hci>>)
    BY <2>1 DEF PhoneLeaves
  <2> HIDE DEF hci, tws
  <2>5. Kept(gtws, gtws') /\ stack # "off" /\ stack' = stack
    BY <1>1, <2>2, <2>4 DEF Post
  <2>6. queue' = Append(Append(queue, hci), tws) \/ queue' = Append(queue, hci)
    BY <2>3, <2>4, PostAppends
  <2> QED
    BY <2>2, <2>3, <2>5, <2>6 DEF Growth, Grown
<1>9. CASE \E why \in Reason : SiblingsPhone(why)
  <2> PICK why \in Reason : SiblingsPhone(why)
    BY <1>9
  <2> DEFINE tws == TwsEv("PHONE_LINK_DETACH", why)
  <2>1. lib'.linked = lib.linked /\ gtws' = gtws /\ (Post(<<>>) \/ Post(<<tws>>))
    BY DEF SiblingsPhone, LibType
  <2>2. tws \in Event /\ Dull(tws)
    BY EventsTyped DEF Kind, Why, Reason, TwsEv, Dull, IsLink, Unpair
  <2> HIDE DEF tws
  <2>3. Kept(gtws, gtws') /\ stack # "off" /\ stack' = stack
    BY <1>1, <2>1 DEF Post
  <2>4. queue \o <<>> = queue
    OBVIOUS
  <2>5. Post(<<>>) => queue' = queue
    BY <2>4 DEF Post
  <2> QED
    BY <1>3, <2>1, <2>2, <2>3, <2>5 DEF Growth, Grown
<1>10. CASE Call
  <2> DEFINE kind == IF lib.esco THEN "SCO_END" ELSE "SCO_BEGIN"
  <2>1. lib'.linked = lib.linked /\ Post(<<Ev(kind)>>) /\ kind \in Kind
    BY <1>10 DEF Call, LibType, Kind
  <2>2. Ev(kind) \in Event /\ Dull(Ev(kind))
    BY <2>1, EventsTyped DEF Ev, Dull, IsLink, Unpair, Why
  <2>3. Kept(gtws, gtws')
    BY <1>1, <1>10 DEF Call, Post
  <2> HIDE DEF kind
  <2> QED
    BY <1>3, <2>1, <2>2, <2>3
<1>11. ASSUME NEW op, NEW kind \in Kind \ {"CONNECTED", "DETACH", "REMOVE_PAIRS"},
              Expires(op, kind)
       PROVE  Growth
  <2>1. Post(<<TwsEv(kind, "none")>>) /\ Kept(gtws, gtws') /\ lib' = lib
    BY <1>1, <1>11, ShutSound DEF Kept, Expires, Post
  <2>2. TwsEv(kind, "none") \in Event /\ Dull(TwsEv(kind, "none"))
    BY <1>11, EventsTyped DEF TwsEv, Dull, IsLink, Unpair, Why
  <2> QED
    BY <1>3, <2>1, <2>2
<1>12. CASE RunsOut \/ PageExists
  BY <1>11, <1>12 DEF RunsOut, PageExists, Kind
<1> QED
  BY <1>4, <1>5, <1>6, <1>7, <1>8, <1>9, <1>10, <1>12 DEF Library

KnowsInv ==
  /\ stack = "off" => ~lib.linked
  /\ stack # "off" =>
       /\ LinkTruth(queue, gtws.sibling, lib.linked)
       /\ \E P : Halves(queue, P, gtws.pair, gtws.stored)
       /\ gtws.sibling => gtws.pair = "paired"

(* PowerOn starts with an empty queue; the others do not touch the flags.  *)
LEMMA OwnStepsKnow ==
  ASSUME LinkInv, KnowsInv,
         PowerOn \/ PowerOff \/ StackOff \/ TimerFires \/ SearchKey \/ ConnKey
  PROVE  KnowsInv'
<1>1. CASE PowerOn
  <2>1. /\ stack = "off" /\ queue' = <<>> /\ lib' = lib /\ ~lib'.linked /\ stack' # "off"
        /\ lib.linked \in BOOLEAN
    BY <1>1 DEF PowerOn, LinkInv, KnowsInv, LibType
  <2>2. /\ gtws'.sibling = FALSE /\ Agree(gtws'.pair, gtws'.stored)
        /\ gtws'.stored \in BOOLEAN
    BY <1>1, PowerOnSound DEF Agree, Sound, State
  <2>3. LinkTruth(queue', gtws'.sibling, lib'.linked)
    BY <2>1, <2>2 DEF LinkTruth
  <2>4. Halves(queue', {}, gtws'.pair, gtws'.stored)
    BY <2>1, <2>2 DEF Halves
  <2> QED
    BY <2>1, <2>2, <2>3, <2>4 DEF KnowsInv
<1>2. CASE StackOff
  BY <1>2 DEF StackOff, KnowsInv, Unlinked
<1>3. ASSUME Kept(gtws, gtws'), lib' = lib, queue' = queue,
             stack # "off" \/ stack' = stack, stack' = "off" => stack = "off"
      PROVE  KnowsInv'
  BY <1>3 DEF KnowsInv, Kept
<1>4. CASE PowerOff
  <2>1. Sound(gtws)
    BY <1>4 DEF PowerOff, LinkInv, Fresh
  <2> DEFINE z == CancelTimer(gtws)
  <2>2. Kept(gtws, z) /\ gtws' = [z EXCEPT !.ops = {}]
    BY <1>4, <2>1, CancelSound DEF PowerOff
  <2> HIDE DEF z
  <2>3. Kept(gtws, gtws')
    BY <2>2 DEF Kept, Sound, State
  <2> QED
    BY <1>3, <1>4, <2>3 DEF PowerOff
<1>5. CASE TimerFires
  <2>1. Sound(gtws) /\ gtws.timer \in 0..2
    BY <1>5 DEF TimerFires, LinkInv, Fresh, Sound, State
  <2> DEFINE z == SwitchTurn(CancelTimer(gtws), gtws.timer)
  <2>2. Kept(gtws, z)
    BY <2>1, CancelSound, SwitchTurnSound DEF Kept
  <2>3. gtws' = IF stack = "off" THEN [z EXCEPT !.ops = {}] ELSE z
    BY <1>5 DEF TimerFires
  <2> HIDE DEF z
  <2>4. Kept(gtws, gtws')
    BY <2>2, <2>3 DEF Kept, Sound, State
  <2> QED
    BY <1>3, <1>5, <2>4 DEF TimerFires
<1>6. CASE SearchKey
  <2>1. Sound(gtws) /\ {"search"} \subseteq Operation
    BY <1>6 DEF SearchKey, LinkInv, Fresh, Operation, Scans
  <2>2. Kept(gtws, gtws')
    BY <1>6, <2>1, CancelSound, OpenSound DEF Kept, SearchKey
  <2> QED
    BY <1>3, <1>6, <2>2 DEF SearchKey
<1>7. CASE ConnKey
  <2>1. Sound(gtws)
    BY <1>7 DEF ConnKey, LinkInv, Fresh
  <2>2. Kept(gtws, gtws')
    BY <1>7, <2>1, OpensSound DEF Kept, ConnKey
  <2> QED
    BY <1>3, <1>7, <2>2 DEF ConnKey
<1> QED
  BY <1>1, <1>2, <1>4, <1>5, <1>6, <1>7

LEMMA LibraryKnows ==
  ASSUME LinkInv, LinkInv', KnowsInv, Library
  PROVE  KnowsInv'
<1>1. Growth
  BY LibraryGrows
<1>2. /\ queue \in Seq(Event) /\ lib.linked \in BOOLEAN /\ lib'.linked \in BOOLEAN
      /\ gtws.sibling \in BOOLEAN
  BY DEF LinkInv, LibType, Sound, Fresh, State
<1>3. PICK P : Halves(queue, P, gtws.pair, gtws.stored)
  BY <1>1 DEF KnowsInv, Growth
<1>4. LinkTruth(queue, gtws.sibling, lib.linked)
  BY <1>1 DEF KnowsInv, Growth
<1>5. /\ LinkTruth(queue', gtws.sibling, lib'.linked)
      /\ \E R : Halves(queue', R, gtws.pair, gtws.stored)
  <2>1. Grown(queue, queue', lib.linked, lib'.linked)
    BY <1>1 DEF Growth
  <2> DEFINE l == lib.linked
             m == lib'.linked
             s == gtws.sibling
             r == queue'
             a == gtws.pair
             b == gtws.stored
  <2> HIDE DEF l, m, s, r, a, b
  <2>2. l \in BOOLEAN /\ m \in BOOLEAN /\ s \in BOOLEAN
    BY <1>2 DEF l, m, s
  <2>4. Grown(queue, r, l, m)
    BY <2>1 DEF l, m, r
  <2>5. LinkTruth(queue, s, l)
    BY <1>4 DEF l, s
  <2>6. Halves(queue, P, a, b)
    BY <1>3 DEF a, b
  <2>7. queue \in Seq(Event)
    BY <1>2
  <2>3. LinkTruth(r, s, m) /\ \E R : Halves(r, R, a, b)
    BY <2>7, <2>2, <2>4, <2>5, <2>6, GrownKnows
  <2> QED
    BY <2>3 DEF m, s, r, a, b
<1> QED
  BY <1>1, <1>5 DEF KnowsInv, Growth, Kept

(* A handler takes the head; what it does to the flags is in Effect.       *)
LEMMA HandlersKnow ==
  ASSUME LinkInv, KnowsInv, Handler
  PROVE  KnowsInv'
<1> DEFINE e == Head(queue)
<1>1. /\ Sound(gtws') /\ Effect(e, gtws, gtws') /\ stack # "off" /\ queue # <<>>
      /\ stack' = stack /\ lib' = lib /\ queue' = Tail(queue)
  BY HandlersEffect DEF Handled
<1>2. Sound(gtws) /\ queue \in Seq(Event) /\ lib.linked \in BOOLEAN
  BY <1>1 DEF LinkInv, Fresh, LibType
<1>3. /\ gtws.sibling \in BOOLEAN /\ gtws'.sibling \in BOOLEAN
      /\ gtws.stored \in BOOLEAN /\ gtws'.stored \in BOOLEAN
  BY <1>1, <1>2 DEF Sound, State
<1>4. e = queue[1]
  BY <1>1, <1>2, TailPlaces
<1>5. PICK P : Halves(queue, P, gtws.pair, gtws.stored)
  BY <1>1 DEF KnowsInv
<1>6. ~Removed(e) /\ ~Unpair(e) => Agree(gtws.pair, gtws.stored)
  <2>1. 1 \in DOMAIN queue /\ 0 + 1 = 1
    BY <1>1, <1>2, TailPlaces
  <2>2. 0 \in P => Removed(e) \/ Unpair(e)
    BY <1>4, <1>5 DEF Halves
  <2> QED
    BY <1>5, <2>2 DEF Halves
<1>7. LinkTruth(queue, gtws.sibling, lib.linked) /\ (gtws.sibling => gtws.pair = "paired")
  BY <1>1 DEF KnowsInv
<1> HIDE DEF e
<1>8. /\ IsLink(e) => (gtws'.sibling <=> e.kind = "CONNECTED")
      /\ ~IsLink(e) => (gtws'.sibling <=> gtws.sibling)
  BY <1>1 DEF Effect, NowLinked, NowApart, NowUnpaired, Kept, IsLink
<1>9. LinkTruth(Tail(queue), gtws'.sibling, lib.linked)
  BY <1>1, <1>2, <1>3, <1>7, <1>8, LinkTruthTail DEF e
<1>10. /\ Removed(e) => gtws'.pair = "unpaired" /\ gtws'.stored = gtws.stored
       /\ Unpair(e) => gtws'.pair = gtws.pair /\ ~gtws'.stored
       /\ ~Removed(e) /\ ~Unpair(e) => Agree(gtws'.pair, gtws'.stored)
       /\ gtws'.sibling => gtws'.pair = "paired"
  <2>1. CASE e.kind = "CONNECTED"
    BY <1>1, <1>3, <1>6, <2>1 DEF Effect, NowLinked, Agree, Removed, Unpair
  <2>2. CASE e.kind = "DETACH"
    BY <1>1, <1>3, <1>6, <2>2 DEF Effect, NowApart, Agree, Removed, Unpair
  <2>3. CASE e.kind = "REMOVE_PAIRS"
    BY <1>1, <1>3, <1>7, <2>3 DEF Effect, NowUnpaired, Removed, Unpair
  <2>4. CASE e.kind \notin {"CONNECTED", "DETACH", "REMOVE_PAIRS"}
    BY <1>1, <1>3, <1>6, <1>7, <2>4 DEF Effect, Kept, Agree, Removed, Unpair
  <2> QED
    BY <2>1, <2>2, <2>3, <2>4
<1>11. \E Q : Halves(Tail(queue), Q, gtws'.pair, gtws'.stored)
  BY <1>1, <1>2, <1>3, <1>4, <1>5, <1>10, HalvesTail
<1> QED
  BY <1>1, <1>9, <1>10, <1>11 DEF KnowsInv

(* Both hold in every reachable state.                                     *)
THEOREM KnowsInvHolds == TwsSpec => [](LinkInv /\ KnowsInv)
<1>1. TwsInit => LinkInv /\ KnowsInv
  <2>1. TwsInit => KnowsInv
    BY DEF TwsInit, KnowsInv, Unlinked
  <2> QED
    BY <2>1, LinkInvInitially
<1>2. LinkInv /\ KnowsInv /\ [TwsNext]_twsVars => (LinkInv /\ KnowsInv)'
  <2> SUFFICES ASSUME LinkInv, KnowsInv, [TwsNext]_twsVars PROVE LinkInv' /\ KnowsInv'
    OBVIOUS
  <2>1. CASE PowerOn \/ PowerOff \/ StackOff \/ TimerFires \/ SearchKey \/ ConnKey
    BY <2>1, OwnStepsKeep, OwnStepsKnow
  <2>2. CASE Library
    BY <2>2, LibraryKeeps, LibraryKnows
  <2>3. CASE Handler
    BY <2>3, HandlersKeep, HandlersKnow
  <2>4. CASE UNCHANGED twsVars
    BY <2>4 DEF LinkInv, Fresh, KnowsInv, twsVars
  <2> QED
    BY <2>1, <2>2, <2>3, <2>4 DEF TwsNext
<1> QED
  BY <1>1, <1>2, PTL DEF TwsSpec

(* When nothing waits for app_core, what it believes of the sibling and of *)
(* the pairing is true, in whatever order links came and went, were lost   *)
(* or removed, and however late the handlers ran.                          *)
THEOREM SiblingKnown == TwsSpec => []KnowsSibling
<1>1. LinkInv /\ KnowsInv => KnowsSibling
  <2> SUFFICES ASSUME LinkInv, KnowsInv, Settled PROVE KnowsSibling
    BY DEF KnowsSibling
  <2>1. /\ stack # "off" /\ queue = <<>> /\ Sound(gtws) /\ lib.linked \in BOOLEAN
    BY DEF Settled, LinkInv, Fresh, LibType
  <2>2. /\ gtws.sibling \in BOOLEAN /\ gtws.stored \in BOOLEAN
        /\ gtws.pair \in {"paired", "unpaired"}
    BY <2>1 DEF Sound, State
  <2>3. gtws.sibling <=> lib.linked
    BY <2>1 DEF KnowsInv, LinkTruth
  <2>4. Agree(gtws.pair, gtws.stored)
    BY <2>1 DEF KnowsInv, Halves
  <2> QED
    BY <2>1, <2>2, <2>3, <2>4 DEF KnowsSibling, Agree, KnowsInv
<1> QED
  BY <1>1, KnowsInvHolds, PTL

-----------------------------------------------------------------------------
(* A speaker without a phone always has something to do.  Between a link   *)
(* that ends and the handler of its event the speaker may well be idle, so *)
(* the invariant is about the queue too: nothing is open only while an     *)
(* event waits whose handler starts something, and what waits behind it    *)
(* undoes nothing.                                                         *)

Alone == lib.phone = "none" /\ ~IsSlave

(* What the library keeps of its links.                                    *)
LibSane ==
  /\ ~lib.linked => lib.role = "MASTER"
  /\ lib.esco => lib.phone = "ready"
  /\ stack = "off" => lib = Unlinked

(* The events whose handlers start something, for a speaker that is alone. *)
Rouses(e) ==
  \/ e.kind \in {"SEARCH_TIMEOUT", "PHONE_LINK_DETACH", "REMOVE_PAIRS", "TIMEOUT", "EXISTS"}
  \/ e.kind = "CONNECTED" /\ e.role = "MASTER" /\ ~e.phone
  \/ e.kind = "CONNECTION_TIMEOUT" /\ ~e.phone
  \/ e.kind = "DETACH" /\ ~e.phone /\ e.why # "removed"

(* And those whose handlers stop nothing, or are followed by one that      *)
(* starts something: of a removal that is the other half.                  *)
Harmless(e) ==
  \/ Rouses(e)
  \/ e.kind \in {"DISCONNECT", "PAGE_TIMEOUT"}
  \/ e.kind = "DETACH" /\ ~e.phone

(* A DISCONNECT starts something if the flag of the sibling is down when   *)
(* it is handled: with the sibling apart and no link event behind it.      *)
RousesAt(q, i, apart) ==
  \/ Rouses(q[i])
  \/ /\ q[i].kind = "DISCONNECT" /\ apart
     /\ \A j \in DOMAIN q : i < j => ~IsLink(q[j])

Roused(q, apart) ==
  \E i \in DOMAIN q :
    RousesAt(q, i, apart) /\ \A j \in DOMAIN q : i < j => Harmless(q[j])

(* Behind its first half only the phone scan outlasts the second one.      *)
Awake ==
  stack = "on" /\ Alone =>
    \/ Roused(queue, ~lib.linked)
    \/ /\ Busy(gtws)
       /\ \A j \in DOMAIN queue : Harmless(queue[j])
       /\ queue # <<>> /\ Removed(queue[1]) =>
            gtws.timer = NoTimer /\ "phoneScan" \in gtws.ops

(* A speaker alone is a master without a phone and without a call. *)
LEMMA AloneIsMaster ==
  ASSUME LibSane, lib \in LibType, Alone
  PROVE  lib.role = "MASTER" /\ lib.esco = FALSE /\ lib.phone = "none"
BY DEF LibSane, LibType, Alone, IsSlave

(* What the library takes itself to be stays consistent. *)
LEMMA LibSaneStep ==
  ASSUME LinkInv, LibSane, TwsNext
  PROVE  LibSane'
<1>1. lib \in LibType
  BY DEF LinkInv
<1>2. ASSUME lib' = lib, stack # "off", stack' # "off"
      PROVE  LibSane'
  BY <1>2 DEF LibSane
<1>3. CASE PowerOn
  BY <1>3 DEF PowerOn, LibSane
<1>4. CASE PowerOff \/ SearchKey \/ ConnKey
  BY <1>2, <1>4 DEF PowerOff, SearchKey, ConnKey
<1>5. CASE StackOff
  BY <1>5 DEF StackOff, LibSane, Unlinked
<1>6. CASE TimerFires
  BY <1>6 DEF TimerFires, LibSane
<1>7. CASE Handler
  BY <1>2, <1>7, HandlersEffect DEF Handled
<1>8. CASE Library
  <2>1. stack # "off" /\ stack' # "off"
    BY <1>8, LibraryGrows DEF Growth
  <2>2. CASE SiblingLinks
    BY <1>1, <2>1, <2>2 DEF SiblingLinks, LibSane, LibType
  <2>3. CASE \E why \in {"lost", "removed", "other"} : SiblingLeaves(why)
    BY <1>1, <2>1, <2>3 DEF SiblingLeaves, LibSane, LibType, IsSlave, Unlinked
  <2>4. CASE PhoneLinks \/ PhoneReady
    BY <1>1, <2>1, <2>4 DEF PhoneLinks, PhoneReady, LibSane, LibType
  <2>5. CASE \E kind \in {"TIMEOUT", "DISCONNECT"}, why \in Reason : PhoneLeaves(kind, why)
    BY <1>1, <2>1, <2>5 DEF PhoneLeaves, LibSane, LibType
  <2>6. CASE (\E why \in Reason : SiblingsPhone(why)) \/ Call
    BY <1>1, <2>1, <2>6 DEF SiblingsPhone, Call, LibSane, LibType
  <2>7. CASE RunsOut \/ PageExists
    BY <2>1, <2>7, <1>2 DEF RunsOut, PageExists, Expires
  <2> QED
    BY <1>8, <2>2, <2>3, <2>4, <2>5, <2>6, <2>7 DEF Library
<1> QED
  BY <1>3, <1>4, <1>5, <1>6, <1>7, <1>8 DEF TwsNext

(* What the handlers do for a speaker that is alone.  A DISCONNECT or a    *)
(* page that has run out makes it start, or changes a counter only.        *)
LEMMA PhoneDisconnectedRouses ==
  ASSUME NEW s, Sound(s), lib.role = "MASTER"
  PROVE  /\ ~s.sibling => Busy(PhoneDisconnected(s))
         /\ Busy(s) => Busy(PhoneDisconnected(s))
<1> DEFINE z == [s EXCEPT !.counter = 0]
<1>1. Kept(s, z) /\ z.timer = s.timer /\ z.ops = s.ops /\ z.sibling = s.sibling
  BY TwsAssumption DEF Kept, Sound, State
<1> HIDE DEF z
<1>2. Restart(z).timer # NoTimer
  BY <1>1, RestartSound DEF Kept
<1>3. PhoneDisconnected(s) = IF s.sibling THEN z ELSE Restart(z)
  BY DEF PhoneDisconnected, z
<1> QED
  BY <1>1, <1>2, <1>3 DEF Busy

LEMMA RemovePairsScans ==
  ASSUME NEW s, Sound(s), lib.phone = "none"
  PROVE  LET t == OpenPhoneScan(OpenWaitPair(CancelTimer(s)))
         IN  t.timer = NoTimer /\ "phoneScan" \in t.ops
<1> DEFINE z == OpenWaitPair(CancelTimer(s))
<1>1. Sound(z) /\ z.timer = NoTimer
  BY CancelSound, OpensSound, OpenWaitPairOps DEF Kept
<1> HIDE DEF z
<1>2. OpenPhoneScan(z) = Open(z, {"phoneScan"})
  BY DEF OpenPhoneScan
<1>3. Open(z, {"phoneScan"}).timer = NoTimer /\ "phoneScan" \in Open(z, {"phoneScan"}).ops
  BY <1>1 DEF Open, Sound, State
<1> QED
  BY <1>2, <1>3 DEF z

(* What the handlers of the messages that rouse do to the operations. *)
LEMMA HandlersRouse ==
  ASSUME LinkInv, Handler, stack = "on",
         lib.role = "MASTER", lib.esco = FALSE, lib.phone = "none"
  PROVE  LET e == Head(queue)
         IN  /\ Rouses(e) => Busy(gtws')
             /\ Unpair(e) => gtws'.timer = NoTimer /\ "phoneScan" \in gtws'.ops
             /\ e.kind \in {"DISCONNECT", "PAGE_TIMEOUT"} =>
                  (~gtws.sibling \/ Busy(gtws) => Busy(gtws'))
             /\ Removed(e) /\ "phoneScan" \in gtws.ops => "phoneScan" \in gtws'.ops
<1> DEFINE e == Head(queue)
           Goal == /\ Rouses(e) => Busy(gtws')
                   /\ Unpair(e) => gtws'.timer = NoTimer /\ "phoneScan" \in gtws'.ops
                   /\ e.kind \in {"DISCONNECT", "PAGE_TIMEOUT"} =>
                        (~gtws.sibling \/ Busy(gtws) => Busy(gtws'))
                   /\ Removed(e) /\ "phoneScan" \in gtws.ops => "phoneScan" \in gtws'.ops
<1>1. Sound(gtws)
  BY DEF LinkInv, Fresh
<1>2. ASSUME NEW kinds, Take(kinds) PROVE e.kind \in kinds
  BY <1>2 DEF Take
<1>3. ASSUME e.kind \notin {"REMOVE_PAIRS", "DISCONNECT", "PAGE_TIMEOUT", "DETACH"},
             Rouses(e) => Busy(gtws')
      PROVE  Goal
  BY <1>3 DEF Unpair, Removed
<1>4. CASE OnConnected
  <2>1. Take({"CONNECTED"}) /\ gtws' = Connected(gtws, e)
    BY <1>4 DEF OnConnected
  <2>2. e.kind = "CONNECTED"
    BY <1>2, <2>1
  <2>3. Rouses(e) => Busy(gtws')
    BY <1>1, <2>1, <2>2, ConnectedSound DEF Rouses
  <2> QED
    BY <1>3, <2>2, <2>3
<1>5. CASE OnSearchTimeout
  <2>1. Take({"SEARCH_TIMEOUT"}) /\ gtws' = Restart(gtws)
    BY <1>5 DEF OnSearchTimeout
  <2>2. e.kind = "SEARCH_TIMEOUT" /\ Busy(gtws')
    BY <1>1, <1>2, <2>1, RestartSound DEF Busy
  <2> QED
    BY <1>3, <2>2
<1>6. CASE OnConnectionTimeout
  <2>1. Take({"CONNECTION_TIMEOUT"}) /\ gtws' = ConnectionTimeout(gtws, e)
    BY <1>6 DEF OnConnectionTimeout
  <2>2. e.kind = "CONNECTION_TIMEOUT"
    BY <1>2, <2>1
  <2>3. Rouses(e) => Busy(gtws')
    BY <1>1, <2>1, <2>2, ConnectionTimeoutSound DEF Rouses
  <2> QED
    BY <1>3, <2>2, <2>3
<1>7. CASE OnDetach
  <2>1. PICK failed \in BOOLEAN : Take({"DETACH"}) /\ gtws' = Detach(gtws, e, failed)
    BY <1>7 DEF OnDetach
  <2>2. e.kind = "DETACH"
    BY <1>2, <2>1
  <2>3. /\ Rouses(e) => Busy(gtws')
        /\ Removed(e) /\ "phoneScan" \in gtws.ops => "phoneScan" \in gtws'.ops
    BY <1>1, <2>1, <2>2, DetachSound DEF Rouses, Removed
  <2> QED
    BY <2>2, <2>3 DEF Unpair
<1>8. CASE OnPhoneLinkDetach
  <2> DEFINE n == CASE e.why = "lost" -> gtws.counter
                    [] e.why = "exists" -> ShortPages
                    [] OTHER -> 0
             z == [gtws EXCEPT !.counter = n]
  <2>1. Take({"PHONE_LINK_DETACH"}) /\ gtws' = Restart(z)
    BY <1>8 DEF OnPhoneLinkDetach, PhoneLinkDetach
  <2>2. n \in 0..LongPages
    BY <1>1, TwsAssumption DEF Sound, State
  <2> HIDE DEF n
  <2>3. Sound(z)
    BY <1>1, <2>2, CounterSound DEF Kept
  <2> HIDE DEF z
  <2>4. e.kind = "PHONE_LINK_DETACH" /\ Busy(gtws')
    BY <1>2, <2>1, <2>3, RestartSound DEF Busy
  <2> QED
    BY <1>3, <2>4
<1>9. CASE OnRemovePairs
  <2> DEFINE z == [gtws EXCEPT !.stored = FALSE]
  <2>1. Take({"REMOVE_PAIRS"}) /\ gtws' = OpenPhoneScan(OpenWaitPair(CancelTimer(z)))
    BY <1>9 DEF OnRemovePairs
  <2>2. Sound(z)
    BY <1>1, ForgetSound
  <2> HIDE DEF z
  <2>3. e.kind = "REMOVE_PAIRS"
    BY <1>2, <2>1
  <2>4. gtws'.timer = NoTimer /\ "phoneScan" \in gtws'.ops
    BY <2>1, <2>2, RemovePairsScans
  <2> QED
    BY <2>3, <2>4 DEF Busy, Removed
<1>10. CASE OnConnection \/ OnPhone \/ OnScoBegin \/ OnScoEnd
  <2>1. e.kind \in {"CONNECTION", "PHONE", "SCO_BEGIN", "SCO_END"}
    BY <1>2, <1>10 DEF OnConnection, OnPhone, OnScoBegin, OnScoEnd
  <2> QED
    BY <1>3, <2>1 DEF Rouses
<1>11. CASE OnDisconnect \/ OnPageTimeout
  <2>1. /\ e.kind \in {"DISCONNECT", "PAGE_TIMEOUT"}
        /\ \/ gtws' = PhoneDisconnected(gtws)
           \/ \E failed \in BOOLEAN : gtws' = PhoneConnectTimeout(gtws, failed)
    BY <1>2, <1>11 DEF OnDisconnect, OnPageTimeout
  <2>2. CASE gtws' = PhoneDisconnected(gtws)
    BY <1>1, <2>1, <2>2, PhoneDisconnectedRouses DEF Rouses, Unpair, Removed
  <2>3. CASE \E failed \in BOOLEAN : gtws' = PhoneConnectTimeout(gtws, failed)
    <3>1. Busy(gtws')
      BY <1>1, <2>3, RestartSound, ConnectSound DEF PhoneConnectTimeout, Busy
    <3> QED
      BY <1>3, <2>1, <3>1 DEF Unpair, Removed
  <2> QED
    BY <2>1, <2>2, <2>3
<1>12. CASE OnLinkLost
  <2> DEFINE c == IF e.kind = "TIMEOUT" THEN LongPages ELSE ShortPages
             z == [gtws EXCEPT !.counter = c]
  <2>1. PICK failed \in BOOLEAN : gtws' = PhoneConnectTimeout(z, failed)
    BY <1>12 DEF OnLinkLost
  <2>2. e.kind \in {"TIMEOUT", "EXISTS"}
    BY <1>2, <1>12 DEF OnLinkLost
  <2>3. c \in 0..LongPages
    BY TwsAssumption
  <2> HIDE DEF c
  <2>4. Sound(z)
    BY <1>1, <2>3, CounterSound DEF Kept
  <2> HIDE DEF z
  <2>5. Busy(gtws')
    BY <2>1, <2>4, RestartSound, ConnectSound DEF PhoneConnectTimeout, Busy
  <2> QED
    BY <1>3, <2>2, <2>5
<1>13. Goal
  BY <1>4, <1>5, <1>6, <1>7, <1>8, <1>9, <1>10, <1>11, <1>12 DEF Handler
<1> QED
  BY <1>13

-----------------------------------------------------------------------------
(* The queue grows behind what rouses and shrinks in front of it.          *)
LEMMA RousedAppend ==
  ASSUME NEW q \in Seq(Event), NEW e \in Event, NEW apart \in BOOLEAN
  PROVE  /\ Rouses(e) => Roused(Append(q, e), apart)
         /\ e.kind = "DISCONNECT" /\ apart => Roused(Append(q, e), apart)
         /\ Harmless(e) /\ ~IsLink(e) /\ Roused(q, apart) => Roused(Append(q, e), apart)
         /\ \A f \in Event : Rouses(e) /\ Harmless(f) => Roused(Append(Append(q, e), f), apart)
<1> DEFINE r == Append(q, e)
           n == Len(q)
<1>1. /\ n \in Nat /\ DOMAIN q = 1..n /\ DOMAIN r = 1..(n + 1)
      /\ r[n + 1] = e /\ \A i \in 1..n : r[i] = q[i]
  OBVIOUS
<1>2. ASSUME NEW f \in Event
      PROVE  /\ DOMAIN Append(r, f) = 1..(n + 2) /\ Append(r, f)[n + 1] = e
             /\ Append(r, f)[n + 2] = f
  OBVIOUS
<1> HIDE DEF r, n
<1>3. ASSUME Rouses(e) \/ (e.kind = "DISCONNECT" /\ apart)
      PROVE  Roused(r, apart)
  <2>1. n + 1 \in DOMAIN r /\ \A j \in DOMAIN r : ~(n + 1 < j)
    BY <1>1
  <2> QED
    BY <1>1, <1>3, <2>1 DEF Roused, RousesAt
<1>4. ASSUME Harmless(e), ~IsLink(e), Roused(q, apart)
      PROVE  Roused(r, apart)
  <2>1. PICK i \in DOMAIN q :
          RousesAt(q, i, apart) /\ \A j \in DOMAIN q : i < j => Harmless(q[j])
    BY <1>4 DEF Roused
  <2>2. i \in DOMAIN r /\ r[i] = q[i]
    BY <1>1
  <2>3. \A j \in DOMAIN r : i < j => Harmless(r[j])
    BY <1>1, <1>4, <2>1
  <2>4. RousesAt(r, i, apart)
    BY <1>1, <1>4, <2>1, <2>2 DEF RousesAt
  <2> QED
    BY <2>2, <2>3, <2>4 DEF Roused
<1>5. ASSUME NEW f \in Event, Rouses(e), Harmless(f)
      PROVE  Roused(Append(r, f), apart)
  <2> DEFINE t == Append(r, f)
  <2>1. DOMAIN t = 1..(n + 2) /\ t[n + 1] = e /\ t[n + 2] = f
    BY <1>2
  <2> HIDE DEF t
  <2>2. n + 1 \in DOMAIN t /\ \A j \in DOMAIN t : n + 1 < j => Harmless(t[j])
    <3>1. \A j \in DOMAIN t : n + 1 < j => j = n + 2
      BY <1>1, <2>1
    <3> QED
      BY <1>1, <1>5, <2>1, <3>1
  <2>3. Roused(t, apart)
    BY <1>5, <2>1, <2>2 DEF Roused, RousesAt
  <2> QED
    BY <2>3 DEF t
<1> QED
  BY <1>3, <1>4, <1>5 DEF r

(* The message that rouses is still to come, or was the one taken. *)
LEMMA RousedTail ==
  ASSUME NEW q \in Seq(Event), q # <<>>, NEW apart \in BOOLEAN, Roused(q, apart)
  PROVE  \/ Roused(Tail(q), apart)
         \/ RousesAt(q, 1, apart) /\ \A j \in DOMAIN Tail(q) : Harmless(Tail(q)[j])
<1> DEFINE r == Tail(q)
           n == Len(q)
<1>1. /\ n \in Nat \ {0} /\ DOMAIN q = 1..n /\ DOMAIN r = 1..(n - 1)
      /\ \A i \in 1..(n - 1) : r[i] = q[i + 1]
  BY TailPlaces
<1> HIDE DEF r, n
<1>2. PICK i \in DOMAIN q :
        RousesAt(q, i, apart) /\ \A j \in DOMAIN q : i < j => Harmless(q[j])
  BY DEF Roused
<1>3. CASE i = 1
  <2>1. \A j \in DOMAIN r : j + 1 \in DOMAIN q /\ 1 < j + 1 /\ r[j] = q[j + 1]
    BY <1>1
  <2> QED
    BY <1>2, <1>3, <2>1 DEF r
<1>4. CASE i # 1
  <2>1. i - 1 \in DOMAIN r /\ r[i - 1] = q[i]
    BY <1>1, <1>4
  <2>2. \A j \in DOMAIN r : i - 1 < j => i < j + 1 /\ j + 1 \in DOMAIN q /\ r[j] = q[j + 1]
    BY <1>1, <1>4
  <2>3. \A j \in DOMAIN r : i - 1 < j => Harmless(r[j])
    BY <1>2, <2>2
  <2>4. RousesAt(r, i - 1, apart)
    <3>1. CASE Rouses(q[i])
      BY <2>1, <3>1 DEF RousesAt
    <3>2. CASE ~Rouses(q[i])
      <4>1. q[i].kind = "DISCONNECT" /\ apart /\ \A j \in DOMAIN q : i < j => ~IsLink(q[j])
        BY <1>2, <3>2 DEF RousesAt
      <4>2. \A j \in DOMAIN r : i - 1 < j => ~IsLink(r[j])
        BY <2>2, <4>1
      <4> QED
        BY <2>1, <4>1, <4>2 DEF RousesAt
    <3> QED
      BY <3>1, <3>2
  <2>5. Roused(r, apart)
    BY <2>1, <2>3, <2>4 DEF Roused
  <2> QED
    BY <2>5 DEF r
<1> QED
  BY <1>3, <1>4

(* What the library posts when the speaker is alone behind its step: what  *)
(* rouses it, last or before its other half; or a page that has run out.   *)
Stirred ==
  \/ \E e \in Event : queue' = Append(queue, e) /\ Rouses(e)
  \/ \E e \in Event : /\ queue' = Append(queue, e)
                      /\ e.kind = "DISCONNECT" /\ ~lib'.linked
  \/ \E e, f \in Event : /\ queue' = Append(Append(queue, e), f)
                         /\ Rouses(f) \/ (Rouses(e) /\ Harmless(f))
  \/ /\ lib' = lib /\ gtws' = Shut(gtws, {"page"})
     /\ \E e \in Event : queue' = Append(queue, e) /\ e.kind = "PAGE_TIMEOUT"

LEMMA LibraryRouses ==
  ASSUME LinkInv, LibSane, Library, Alone'
  PROVE  Stirred
<1>1. /\ lib \in LibType /\ queue \in Seq(Event)
      /\ lib'.phone = "none" /\ ~(lib'.linked /\ lib'.role = "SLAVE")
  BY DEF LinkInv, Alone, IsSlave
<1>2. CASE SiblingLinks
  <2>1. PICK role \in {"MASTER", "SLAVE"}, other \in BOOLEAN, phone \in {"none", "ready"} :
          /\ lib' = [lib EXCEPT !.linked = TRUE, !.role = role,
                                !.phone = IF role = "SLAVE" THEN phone ELSE @]
          /\ Post(<<[kind |-> "CONNECTED", role |-> role, phone |-> lib'.phone = "ready",
                     why |-> IF other THEN "other" ELSE "none"]>>)
    BY <1>2 DEF SiblingLinks
  <2>2. role = "MASTER"
    BY <1>1, <2>1 DEF LibType
  <2> DEFINE r == lib'.phone = "ready"
             w == IF other THEN "other" ELSE "none"
             ev == [kind |-> "CONNECTED", role |-> role, phone |-> r, why |-> w]
  <2>3. r = FALSE /\ w \in Why /\ "CONNECTED" \in Kind
    BY <1>1 DEF Why, Kind
  <2>4. ev \in Event /\ Rouses(ev)
    <3> HIDE DEF r, w
    <3> QED
      BY <2>2, <2>3 DEF Event, Rouses
  <2>5. Post(<<ev>>)
    BY <2>1
  <2> HIDE DEF ev
  <2>6. queue' = Append(queue, ev)
    BY <1>1, <2>4, <2>5, PostAppends
  <2> QED
    BY <2>4, <2>6 DEF Stirred
<1>3. CASE \E why \in {"lost", "removed", "other"} : SiblingLeaves(why)
  <2>1. PICK why \in {"lost", "removed", "other"} : SiblingLeaves(why)
    BY <1>3
  <2> DEFINE r == lib'.phone = "ready"
             detach == [kind |-> "DETACH", role |-> lib.role, phone |-> r, why |-> why]
             remove == Ev("REMOVE_PAIRS")
  <2>2. r = FALSE /\ why \in Why /\ "DETACH" \in Kind /\ "REMOVE_PAIRS" \in Kind
        /\ "none" \in Why /\ lib.role \in {"MASTER", "SLAVE"}
    BY <1>1 DEF Why, Kind, LibType
  <2>3. detach \in Event /\ Harmless(detach) /\ (why # "removed" => Rouses(detach))
    <3> HIDE DEF r
    <3> QED
      BY <2>2 DEF Event, Harmless, Rouses
  <2>4. remove \in Event /\ Rouses(remove)
    BY <1>1, <2>2, EventsTyped DEF Ev, Rouses
  <2>5. \/ why # "removed" /\ Post(<<detach>>)
        \/ Post(<<detach, remove>>) \/ Post(<<remove, detach>>)
    BY <2>1 DEF SiblingLeaves
  <2> HIDE DEF detach, remove
  <2>6. \/ why # "removed" /\ queue' = Append(queue, detach)
        \/ queue' = Append(Append(queue, detach), remove)
        \/ queue' = Append(Append(queue, remove), detach)
    BY <1>1, <2>3, <2>4, <2>5, PostAppends
  <2> QED
    BY <2>3, <2>4, <2>6 DEF Stirred
<1>4. CASE PhoneLinks \/ PhoneReady \/ Call
  BY <1>1, <1>4 DEF PhoneLinks, PhoneReady, Call, LibType
<1>5. CASE \E kind \in {"TIMEOUT", "DISCONNECT"}, why \in Reason : PhoneLeaves(kind, why)
  <2>1. PICK kind \in {"TIMEOUT", "DISCONNECT"}, why \in Reason : PhoneLeaves(kind, why)
    BY <1>5
  <2> DEFINE hci == LinkEv(kind, why)
             tws == TwsEv("PHONE_LINK_DETACH", why)
  <2>2. lib'.linked = lib.linked
    BY <1>1, <2>1 DEF PhoneLeaves, LibType
  <2>3. /\ hci \in Event /\ tws \in Event /\ Rouses(tws)
        /\ Rouses(hci) \/ hci.kind = "DISCONNECT"
    BY <1>1, EventsTyped DEF Kind, Why, Reason, LinkEv, TwsEv, Rouses
  <2>4. Post(<<hci, tws>>) \/ (~lib.linked /\ Post(<<hci>>))
    BY <2>1 DEF PhoneLeaves
  <2> HIDE DEF hci, tws
  <2>5. \/ queue' = Append(Append(queue, hci), tws)
        \/ ~lib'.linked /\ queue' = Append(queue, hci)
    BY <1>1, <2>2, <2>3, <2>4, PostAppends
  <2> QED
    BY <2>3, <2>5 DEF Stirred
<1>6. CASE \E why \in Reason : SiblingsPhone(why)
  BY <1>1, <1>6 DEF SiblingsPhone, IsSlave, LibType
<1>7. ASSUME NEW op, NEW kind \in Kind, Expires(op, kind)
      PROVE  /\ lib' = lib /\ gtws' = Shut(gtws, {op}) /\ TwsEv(kind, "none") \in Event
             /\ queue' = Append(queue, TwsEv(kind, "none"))
             /\ TwsEv(kind, "none").kind = kind /\ TwsEv(kind, "none").phone = FALSE
  <2>1. lib' = lib /\ gtws' = Shut(gtws, {op}) /\ Post(<<TwsEv(kind, "none")>>)
    BY <1>7 DEF Expires
  <2>2. TwsEv(kind, "none") \in Event
    BY <1>1, EventsTyped DEF Why
  <2>3. TwsEv(kind, "none").kind = kind /\ TwsEv(kind, "none").phone = FALSE
    BY <1>1, <2>1 DEF TwsEv
  <2> QED
    BY <1>1, <2>1, <2>2, <2>3, PostAppends
<1>8. CASE Expires("page", "PAGE_TIMEOUT")
  BY <1>7, <1>8 DEF Stirred, Kind
<1>9. CASE \/ Expires("search", "SEARCH_TIMEOUT") \/ Expires("page", "EXISTS")
           \/ Expires("createFor", "CONNECTION_TIMEOUT")
  <2>1. PICK kind \in {"SEARCH_TIMEOUT", "EXISTS", "CONNECTION_TIMEOUT"} :
          \E op : Expires(op, kind)
    BY <1>9
  <2>2. kind \in Kind
    BY DEF Kind
  <2> DEFINE ev == TwsEv(kind, "none")
  <2>3. ev \in Event /\ queue' = Append(queue, ev) /\ ev.kind = kind /\ ev.phone = FALSE
    BY <1>7, <2>1, <2>2
  <2> HIDE DEF ev
  <2> QED
    BY <2>3 DEF Stirred, Rouses
<1> QED
  BY <1>2, <1>3, <1>4, <1>5, <1>6, <1>8, <1>9 DEF Library, RunsOut, PageExists

(* No event of the library leaves a speaker deaf. *)
LEMMA LibraryAwake ==
  ASSUME LinkInv, LinkInv', LibSane, Awake, Library
  PROVE  Awake'
<1> SUFFICES ASSUME stack' = "on", Alone' PROVE Awake'
  BY DEF Awake
<1> DEFINE apart == ~lib'.linked
<1>1. /\ queue \in Seq(Event) /\ apart \in BOOLEAN /\ stack = "on" /\ Sound(gtws)
  BY LibraryGrows DEF LinkInv, LibType, Growth, Fresh
<1>2. Stirred
  BY LibraryRouses
<1>3. CASE \/ \E e \in Event : queue' = Append(queue, e) /\ Rouses(e)
           \/ \E e \in Event : /\ queue' = Append(queue, e)
                               /\ e.kind = "DISCONNECT" /\ ~lib'.linked
  <2> HIDE DEF apart
  <2>1. Roused(queue', apart)
    BY <1>1, <1>3, RousedAppend DEF apart
  <2> QED
    BY <2>1 DEF Awake, apart
<1>4. CASE \E e, f \in Event : /\ queue' = Append(Append(queue, e), f)
                               /\ Rouses(f) \/ (Rouses(e) /\ Harmless(f))
  <2>1. PICK e \in Event, f \in Event :
          queue' = Append(Append(queue, e), f) /\ (Rouses(f) \/ (Rouses(e) /\ Harmless(f)))
    BY <1>4
  <2>2. Append(queue, e) \in Seq(Event)
    BY <1>1
  <2> HIDE DEF apart
  <2>3. Roused(queue', apart)
    BY <1>1, <2>1, <2>2, RousedAppend
  <2> QED
    BY <2>3 DEF Awake, apart
<1>5. CASE /\ lib' = lib /\ gtws' = Shut(gtws, {"page"})
           /\ \E e \in Event : queue' = Append(queue, e) /\ e.kind = "PAGE_TIMEOUT"
  <2>1. PICK e \in Event : queue' = Append(queue, e) /\ e.kind = "PAGE_TIMEOUT"
    BY <1>5
  <2>2. Harmless(e) /\ ~IsLink(e) /\ ~Removed(e)
    BY <2>1 DEF Harmless, IsLink, Removed
  <2>3. Alone /\ apart = ~lib.linked
    BY <1>5 DEF Alone, IsSlave
  <2>4. CASE Roused(queue, ~lib.linked)
    <3> HIDE DEF apart
    <3>1. Roused(queue', apart)
      BY <1>1, <2>1, <2>2, <2>3, <2>4, RousedAppend
    <3> QED
      BY <3>1 DEF Awake, apart
  <2>5. CASE ~Roused(queue, ~lib.linked)
    <3>1. /\ Busy(gtws) /\ \A j \in DOMAIN queue : Harmless(queue[j])
          /\ queue # <<>> /\ Removed(queue[1]) =>
               gtws.timer = NoTimer /\ "phoneScan" \in gtws.ops
      BY <1>1, <2>3, <2>5 DEF Awake
    <3>2. /\ Len(queue) \in Nat /\ DOMAIN queue = 1..Len(queue)
          /\ DOMAIN queue' = 1..(Len(queue) + 1) /\ queue'[Len(queue) + 1] = e
          /\ \A i \in 1..Len(queue) : queue'[i] = queue[i]
      BY <1>1, <2>1
    <3>3. \A j \in DOMAIN queue' : Harmless(queue'[j])
      BY <2>2, <3>1, <3>2
    <3>4. gtws'.timer = gtws.timer /\ gtws'.ops = gtws.ops \ {"page"}
      BY <1>1, <1>5 DEF Shut, Sound, State
    <3>5. Busy(gtws')
      BY <3>1, <3>4 DEF Busy
    <3>6. Removed(queue'[1]) => gtws.timer = NoTimer /\ "phoneScan" \in gtws.ops
      <4>1. CASE queue = <<>>
        BY <2>2, <3>2, <4>1
      <4>2. CASE queue # <<>>
        <5>1. 1 \in 1..Len(queue)
          BY <1>1, <4>2
        <5> QED
          BY <3>1, <3>2, <4>2, <5>1
      <4> QED
        BY <4>1, <4>2
    <3> QED
      BY <3>3, <3>4, <3>5, <3>6 DEF Awake
  <2> QED
    BY <2>4, <2>5
<1> QED
  BY <1>2, <1>3, <1>4, <1>5 DEF Stirred

(* No handler does. *)
LEMMA HandlersAwake ==
  ASSUME LinkInv, KnowsInv, LibSane, Awake, Handler
  PROVE  Awake'
<1> SUFFICES ASSUME stack' = "on", Alone' PROVE Awake'
  BY DEF Awake
<1> DEFINE q == queue
           r == Tail(queue)
           apart == ~lib.linked
<1>1. /\ stack = "on" /\ q # <<>> /\ lib' = lib /\ queue' = r /\ Sound(gtws)
  BY HandlersEffect DEF Handled, LinkInv, Fresh
<1>2. Alone /\ lib.role = "MASTER" /\ lib.esco = FALSE /\ lib.phone = "none"
  BY <1>1, AloneIsMaster DEF LinkInv, Alone, IsSlave
<1>3. /\ q \in Seq(Event) /\ apart \in BOOLEAN /\ gtws.sibling \in BOOLEAN
      /\ lib.linked \in BOOLEAN
  BY <1>1 DEF LinkInv, LibType, Sound, State
<1>4. /\ Head(q) = q[1] /\ Len(q) \in Nat \ {0} /\ DOMAIN q = 1..Len(q)
      /\ DOMAIN r = 1..(Len(q) - 1)
      /\ \A i \in 1..(Len(q) - 1) : r[i] = q[i + 1]
  BY <1>1, <1>3, TailPlaces
<1>5. /\ Rouses(q[1]) => Busy(gtws')
      /\ Unpair(q[1]) => gtws'.timer = NoTimer /\ "phoneScan" \in gtws'.ops
      /\ q[1].kind \in {"DISCONNECT", "PAGE_TIMEOUT"} =>
           (~gtws.sibling \/ Busy(gtws) => Busy(gtws'))
      /\ Removed(q[1]) /\ "phoneScan" \in gtws.ops => "phoneScan" \in gtws'.ops
  BY <1>1, <1>2, <1>4, HandlersRouse
<1>6. \/ Roused(q, apart)
      \/ /\ Busy(gtws) /\ \A j \in DOMAIN q : Harmless(q[j])
         /\ Removed(q[1]) => gtws.timer = NoTimer /\ "phoneScan" \in gtws.ops
  BY <1>1, <1>2 DEF Awake
<1>7. PICK P : Halves(q, P, gtws.pair, gtws.stored)
  BY <1>1 DEF KnowsInv
<1>8. LinkTruth(q, gtws.sibling, lib.linked)
  BY <1>1 DEF KnowsInv
<1> HIDE DEF q, r, apart
<1>9. CASE Roused(r, apart)
  BY <1>1, <1>9 DEF Awake, apart
<1>10. CASE ~Roused(r, apart)
  <2>1. \/ RousesAt(q, 1, apart)
        \/ /\ Busy(gtws) /\ Harmless(q[1])
           /\ Removed(q[1]) => "phoneScan" \in gtws.ops
    BY <1>1, <1>3, <1>4, <1>6, <1>10, RousedTail DEF r, q
  <2>2. \A j \in DOMAIN r : Harmless(r[j])
    <3>1. CASE Roused(q, apart)
      BY <1>1, <1>3, <1>10, <3>1, RousedTail DEF r, q
    <3>2. CASE \A j \in DOMAIN q : Harmless(q[j])
      <4>1. \A j \in DOMAIN r : j + 1 \in DOMAIN q /\ r[j] = q[j + 1]
        BY <1>4
      <4> QED
        BY <3>2, <4>1
    <3> QED
      BY <1>6, <3>1, <3>2
  <2>3. \A i \in DOMAIN r : ~Rouses(r[i])
    BY <1>10, <2>2 DEF Roused, RousesAt
  <2>4. ASSUME r # <<>>, Removed(r[1])
        PROVE  Unpair(q[1])
    <3>1. 1 \in DOMAIN r /\ 2 \in DOMAIN q /\ r[1] = q[2] /\ 2 - 1 = 1 /\ 2 # 0 /\ 1 # 0
          /\ 2 + 1 = 3 /\ 1 + 1 = 2
      <4>1. Len(q) # 1
        BY <1>1, <1>3, <1>4, <2>4 DEF r, q
      <4> QED
        BY <1>4, <4>1
    <3>2. 2 \in P \/ 1 \in P
      BY <1>7, <2>4, <3>1 DEF Halves
    <3>3. ASSUME 2 \in P PROVE FALSE
      <4>1. 3 \in DOMAIN q /\ TwoHalves(q[2], q[3])
        BY <1>7, <3>1, <3>3 DEF Halves
      <4>2. Unpair(q[3])
        BY <2>4, <3>1, <4>1 DEF TwoHalves, Removed, Unpair
      <4>3. 2 \in DOMAIN r /\ r[2] = q[3]
        BY <1>4, <3>1, <4>1
      <4> QED
        BY <2>3, <4>2, <4>3 DEF Unpair, Rouses
    <3>4. TwoHalves(q[1], q[2])
      BY <1>7, <3>1, <3>2, <3>3 DEF Halves
    <3> QED
      BY <2>4, <3>1, <3>4 DEF TwoHalves, Removed, Unpair
  <2>5. Busy(gtws')
    <3>1. CASE Rouses(q[1])
      BY <1>5, <3>1
    <3>2. CASE RousesAt(q, 1, apart) /\ ~Rouses(q[1])
      <4>1. q[1].kind = "DISCONNECT" /\ apart /\ \A j \in DOMAIN q : 1 < j => ~IsLink(q[j])
        BY <3>2 DEF RousesAt
      <4>2. {i \in DOMAIN q : IsLink(q[i])} = {}
        BY <1>4, <4>1 DEF IsLink
      <4>3. ~gtws.sibling
        BY <1>8, <4>1, <4>2 DEF LinkTruth, apart
      <4> QED
        BY <1>5, <4>1, <4>3
    <3>3. CASE /\ ~Rouses(q[1]) /\ Busy(gtws) /\ Harmless(q[1])
               /\ Removed(q[1]) => "phoneScan" \in gtws.ops
      <4>1. q[1].kind \in {"DISCONNECT", "PAGE_TIMEOUT"} \/ Removed(q[1])
        BY <3>3 DEF Harmless, Rouses, Removed
      <4>2. Removed(q[1]) => Busy(gtws')
        BY <1>5, <3>3 DEF Busy
      <4> QED
        BY <1>5, <3>3, <4>1, <4>2
    <3> QED
      BY <2>1, <3>1, <3>2, <3>3
  <2>6. r # <<>> /\ Removed(r[1]) => gtws'.timer = NoTimer /\ "phoneScan" \in gtws'.ops
    BY <1>5, <2>4
  <2> QED
    BY <1>1, <2>2, <2>5, <2>6 DEF Awake
<1> QED
  BY <1>9, <1>10

(* The timer arms itself again, the keys only open something, and the      *)
(* power-on, with no phone and no sibling, begins with something to do.    *)
LEMMA OwnStepsAwake ==
  ASSUME LinkInv, LibSane, Awake,
         PowerOn \/ PowerOff \/ StackOff \/ TimerFires \/ SearchKey \/ ConnKey
  PROVE  Awake'
<1> SUFFICES ASSUME stack' = "on", Alone' PROVE Awake'
  BY DEF Awake
<1>1. CASE PowerOn
  <2>1. stack = "off" /\ lib' = lib /\ queue' = queue
    BY <1>1 DEF PowerOn
  <2>2. queue' = <<>> /\ lib.role = "MASTER"
    BY <2>1 DEF LinkInv, LibSane, Unlinked
  <2>3. Busy(gtws')
    BY <1>1, <2>2, PowerOnSound
  <2> QED
    BY <2>2, <2>3 DEF Awake
<1>2. CASE PowerOff \/ StackOff
  BY <1>2 DEF PowerOff, StackOff
<1>3. ASSUME stack = "on", UNCHANGED <<lib, queue>>, Busy(gtws) => Busy(gtws'),
             gtws.timer = NoTimer /\ "phoneScan" \in gtws.ops =>
               gtws'.timer = NoTimer /\ "phoneScan" \in gtws'.ops
      PROVE  Awake'
  <2>1. Alone
    BY <1>3 DEF Alone, IsSlave
  <2> QED
    BY <1>3, <2>1 DEF Awake
<1>4. CASE TimerFires
  <2>1. stack = "on" /\ Sound(gtws) /\ gtws.timer \in 0..2
    BY <1>4 DEF TimerFires, LinkInv, Fresh, Sound, State
  <2>2. SwitchTurn(CancelTimer(gtws), gtws.timer).timer # NoTimer
    BY <2>1, CancelSound, SwitchTurnSound DEF Kept
  <2>3. Busy(gtws')
    BY <1>4, <2>1, <2>2 DEF TimerFires, Busy
  <2> QED
    BY <1>3, <1>4, <2>1, <2>3 DEF TimerFires
<1>5. CASE SearchKey
  <2>1. stack = "on" /\ Sound(gtws) /\ gtws' = Open(CancelTimer(gtws), {"search"})
    BY <1>5 DEF SearchKey, LinkInv, Fresh
  <2>2. gtws'.timer = NoTimer /\ gtws'.ops = gtws.ops \cup {"search"}
    BY <2>1 DEF Open, CancelTimer, Sound, State
  <2> QED
    BY <1>3, <1>5, <2>1, <2>2 DEF SearchKey, Busy
<1>6. CASE ConnKey
  <2>1. stack = "on" /\ Sound(gtws) /\ gtws' = OpenConn(gtws)
    BY <1>6 DEF ConnKey, LinkInv, Fresh
  <2>2. gtws'.timer = gtws.timer /\ gtws.ops \subseteq gtws'.ops
    BY <2>1 DEF OpenConn, Open, Sound, State
  <2> QED
    BY <1>3, <1>6, <2>1, <2>2 DEF ConnKey, Busy
<1> QED
  BY <1>1, <1>2, <1>4, <1>5, <1>6

(* No order of links, removals, calls, keys and timers leaves a speaker    *)
(* without a phone deaf once app_core has caught up.                       *)
THEOREM AlwaysAwake == TwsSpec => []NeverDeaf
<1>1. TwsInit => LibSane /\ Awake
  BY DEF TwsInit, LibSane, Awake, Unlinked
<1>2. LinkInv /\ LinkInv' /\ KnowsInv /\ LibSane /\ Awake /\ [TwsNext]_twsVars
        => LibSane' /\ Awake'
  <2> SUFFICES ASSUME LinkInv, LinkInv', KnowsInv, LibSane, Awake, [TwsNext]_twsVars
               PROVE  LibSane' /\ Awake'
    OBVIOUS
  <2>1. CASE TwsNext
    <3>1. Awake'
      BY <2>1, OwnStepsAwake, LibraryAwake, HandlersAwake DEF TwsNext
    <3> QED
      BY <2>1, <3>1, LibSaneStep
  <2>2. CASE UNCHANGED twsVars
    BY <2>2 DEF twsVars, LibSane, Awake, Alone, IsSlave
  <2> QED
    BY <2>1, <2>2
<1>3. Awake => NeverDeaf
  <2> SUFFICES ASSUME Awake, Settled, lib.phone = "none", ~IsSlave PROVE NeverDeaf
    BY DEF NeverDeaf
  <2>1. queue = <<>> /\ stack = "on" /\ Alone
    BY DEF Settled, Alone
  <2>2. ~Roused(queue, ~lib.linked)
    BY <2>1 DEF Roused
  <2>3. Busy(gtws)
    BY <2>1, <2>2 DEF Awake
  <2> QED
    BY <2>3 DEF NeverDeaf, Busy
<1> QED
  BY <1>1, <1>2, <1>3, KnowsInvHolds, PTL DEF TwsSpec
=============================================================================
