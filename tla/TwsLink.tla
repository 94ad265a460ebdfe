------------------------------ MODULE TwsLink ------------------------------
(***************************************************************************)
(* Two speakers, seen from one of them: how bt_tws.c looks for the phone   *)
(* and for the sibling.  A scheduler (connect_and_connectable_switch)      *)
(* takes turns at paging the phone, being found and paging the sibling,    *)
(* armed again by its own timer; the events of the Bluetooth library start *)
(* and stop it.  The library runs on tasks of its own: it posts events and *)
(* goes on, so a handler may see a link that has changed since, and it     *)
(* reads the role when it runs (tws_api_get_role), the rest as posted.     *)
(* Times are left out: a counter of milliseconds is a number of pages.     *)
(***************************************************************************)
EXTENDS Integers, Sequences

CONSTANTS
  NoTimer,     \* pair_timer is 0
  ShortPages,  \* the pages of POWERON_AUTO_CONN_TIME, and of the 8 s
  LongPages,   \* those of TIMEOUT_CONN_TIME
  Phones,      \* bound: the phones remembered for the power-on
  QMax         \* bound: the events waiting in app_core

ASSUME TwsAssumption ==
  /\ NoTimer \notin 0..2
  /\ ShortPages \in Nat /\ LongPages \in Nat /\ 0 < ShortPages /\ ShortPages <= LongPages
  /\ Phones \in Nat /\ QMax \in Nat

VARIABLES
  gtws,   \* what bt_tws.c keeps, and the operations it has opened
  lib,    \* the links as the library knows them
  queue,  \* the events posted to app_core and not handled yet
  stack   \* "off", "on", or "exiting" between bt_nobackground_exit and the exit check

twsVars == <<gtws, lib, queue, stack>>

Scans == {"waitPair", "waitConn", "search"}
Creates == {"create", "createFor"}  \* tws_open_tws_conn without and with a time limit
Operation == Scans \cup Creates \cup {"phoneScan", "page"}

TwsTypeOK ==
  /\ gtws \in [pair : {"none", "paired", "unpaired"}, sibling : BOOLEAN,
               power_on : BOOLEAN, timeout : BOOLEAN,     \* gtws.state
               timer : 0..2 \cup {NoTimer}, stray : BOOLEAN,
               counter : 0..LongPages,        \* auto_connection_counter
               connect_time : 0..LongPages,
               memory : 0..Phones, stored : BOOLEAN,      \* in the VM
               ops : SUBSET Operation]
  /\ lib \in [linked : BOOLEAN, role : {"MASTER", "SLAVE"},
              phone : {"none", "link", "ready"}, esco : BOOLEAN]
  /\ Len(queue) <= QMax
  /\ stack \in {"off", "on", "exiting"}

Unlinked == [linked |-> FALSE, role |-> "MASTER", phone |-> "none", esco |-> FALSE]

TwsInit ==
  /\ \E stored \in BOOLEAN :
       gtws = [pair |-> "none", sibling |-> FALSE, power_on |-> FALSE, timeout |-> FALSE,
               timer |-> NoTimer, stray |-> FALSE, counter |-> 0, connect_time |-> 0,
               memory |-> 0, stored |-> stored, ops |-> {}]
  /\ lib = Unlinked /\ queue = <<>> /\ stack = "off"

-----------------------------------------------------------------------------
(* The parts of the handlers, on the record s that gtws becomes.           *)

CancelTimer(s) == [s EXCEPT !.timer = NoTimer]   \* bt_tws_delete_pair_timer
Arm(s, sw) == [s EXCEPT !.timer = sw]
Open(s, O) == [s EXCEPT !.ops = @ \cup O]
Shut(s, O) == [s EXCEPT !.ops = @ \ O]

Connectable(s) == s.pair = "paired" /\ ~s.sibling

OpenWaitPair(s) == IF s.pair = "unpaired" THEN Open(CancelTimer(s), {"waitPair"}) ELSE s
OpenWaitConn(s) == IF Connectable(s) THEN Open(CancelTimer(s), {"waitConn"}) ELSE s
OpenConn(s) == IF Connectable(s) THEN Open(s, {"create"}) ELSE s
OpenPhoneScan(s) == IF lib.phone = "ready" THEN s ELSE Open(s, {"phoneScan"})

(* tws_page_phone: the next page, while there are pages left or, during    *)
(* the power-on, another phone is remembered.                              *)
HasPage(s) == s.counter > 0 \/ (s.power_on /\ s.memory > 0)

(* Mutant: a page is taken off the counter of a phone that has none yet. *)
PageNoRefill(s) ==
  Open(Shut([s EXCEPT !.counter = @ - 1], Scans \cup Creates \cup {"phoneScan"}), {"page"})

(* Mutant: a page is not counted. *)
PageNoCount(s) ==
  Open(Shut([s EXCEPT !.counter = IF @ = 0 THEN ShortPages ELSE @],
            Scans \cup Creates \cup {"phoneScan"}), {"page"})

Page(s) ==
  LET more == s.counter > 0
      z == [s EXCEPT !.counter = (IF more THEN @ ELSE ShortPages) - 1,
                     !.memory = IF more THEN @ ELSE @ - 1]
  IN  Open(Shut(z, Scans \cup Creates \cup {"phoneScan"}), {"page"})

(* tws_wait_pair_and_wait_conn(1), behind the end of tws_page_phone.       *)
BeFound(s) ==
  OpenPhoneScan(Open(Shut(CancelTimer(s), {"waitConn", "phoneScan"}), {"waitPair"}))

(* connect_and_connectable_switch(sw): one turn, and the timer of the next. *)
(* It clears the handle, as after its own timer.                           *)
SwitchTurn(s, sw) ==
  LET z == [s EXCEPT !.timer = NoTimer, !.stray = @ \/ s.timer # NoTimer]
      end == IF s.pair = "unpaired" THEN 1 ELSE IF s.pair = "paired" THEN 2 ELSE 3
      next(k) == IF k + 1 > end THEN 0 ELSE k + 1
  IN  IF sw = 0 /\ HasPage(z) THEN Arm(Page(z), next(0))
      ELSE IF sw = 0 THEN Arm(BeFound([z EXCEPT !.counter = 0, !.power_on = FALSE]), next(1))
      ELSE IF sw = 1 THEN Arm(BeFound(z), next(1))
      ELSE Arm(OpenConn(z), next(2))

(* Mutant: an armed timer is forgotten. *)
RestartKeepsTimer(s) == IF lib.role = "MASTER" THEN SwitchTurn(s, 0) ELSE s

(* bt_tws_connect_and_connectable_switch. *)
Restart(s) ==
  IF lib.role = "MASTER" THEN SwitchTurn(CancelTimer(s), 0) ELSE CancelTimer(s)

(* Mutant: a page of the sibling that cannot be opened is not made up for. *)
ConnectSiblingOnly(s, failed) ==
  IF failed \/ ~Connectable(s) THEN CancelTimer(s)
  ELSE Open(CancelTimer(s), {"createFor"})

(* bt_tws_connect_sibling: failed is whether tws_open_tws_conn says so.     *)
ConnectSibling(s, failed) ==
  IF failed \/ ~Connectable(s) THEN Restart(CancelTimer(s))
  ELSE Open(CancelTimer(s), {"createFor"})

WaitSibling(s) == OpenWaitConn(CancelTimer(s))  \* bt_tws_wait_sibling_connect

PhoneDisconnected(s) ==
  LET z == [s EXCEPT !.counter = 0] IN IF s.sibling THEN z ELSE Restart(z)

PhoneConnectTimeout(s, failed) ==
  IF s.pair = "unpaired" \/ s.sibling THEN Restart(s) ELSE ConnectSibling(s, failed)

-----------------------------------------------------------------------------
(* The stack comes and goes with the Bluetooth mode.                       *)

(* bt_init_ok: bt_init_ok_search_index and bt_tws_poweron. *)
PowerOn ==
  /\ stack = "off" /\ stack' = "on"
  /\ \E memory \in 0..Phones, failed \in BOOLEAN :
       LET first == gtws.counter = 0 /\ memory > 0
           z == [gtws EXCEPT !.pair = IF gtws.stored THEN "paired" ELSE "unpaired",
                  !.sibling = FALSE, !.power_on = TRUE, !.timeout = FALSE,
                  !.connect_time = 0,
                  !.memory = IF first THEN memory - 1 ELSE memory,
                  !.counter = IF first THEN ShortPages ELSE @]
       IN  gtws' = IF gtws.stored THEN ConnectSibling(z, failed) ELSE Restart(z)
  /\ UNCHANGED <<lib, queue>>

(* bt_nobackground_exit with bt_tws_poweroff: the links end behind it.     *)
PowerOff ==
  /\ stack = "on" /\ stack' = "exiting"
  /\ gtws' = [CancelTimer(gtws) EXCEPT !.ops = {}]
  /\ UNCHANGED <<lib, queue>>

(* The exit check that finds no audio: btstack_exit.  The next mode drops  *)
(* the Bluetooth events that are still in the queue.                       *)
StackOff ==
  /\ stack = "exiting" /\ ~lib.esco /\ stack' = "off"
  /\ gtws' = [gtws EXCEPT !.ops = {}]
  /\ lib' = Unlinked /\ queue' = <<>>

(* The timer of the scheduler; without a stack its calls open nothing.     *)
TimerFires ==
  /\ gtws.timer # NoTimer
  /\ LET z == SwitchTurn(CancelTimer(gtws), gtws.timer)
     IN  gtws' = IF stack = "off" THEN [z EXCEPT !.ops = {}] ELSE z
  /\ UNCHANGED <<lib, queue, stack>>

(* KEY_TWS_SEARCH_PAIR: bt_tws_start_search_and_pair, but for a call. *)
SearchKey ==
  /\ stack = "on" /\ ~lib.esco /\ gtws.pair = "unpaired"
  /\ gtws' = Open(CancelTimer(gtws), {"search"})
  /\ UNCHANGED <<lib, queue, stack>>

(* KEY_TWS_CONN. *)
ConnKey ==
  /\ stack = "on" /\ Connectable(gtws)
  /\ gtws' = OpenConn(gtws)
  /\ UNCHANGED <<lib, queue, stack>>

-----------------------------------------------------------------------------
(* The library and the other devices: links come and go, what was opened   *)
(* succeeds or runs out, and each time events are posted.  No link ends    *)
(* before the audio of its call has.                                       *)

Ev(kind) == [kind |-> kind, role |-> lib.role, phone |-> FALSE, why |-> "none"]
LinkEv(kind, why) == [kind |-> kind, role |-> lib.role, phone |-> FALSE, why |-> why]
TwsEv(kind, why) == [kind |-> kind, role |-> lib.role, phone |-> lib.phone = "ready", why |-> why]

Post(events) ==
  /\ stack # "off" /\ UNCHANGED stack
  /\ Len(queue) + Len(events) <= QMax
  /\ queue' = queue \o events

IsSlave == lib.linked /\ lib.role = "SLAVE"

(* The sibling links, one of before or another: the speaker that has the   *)
(* phone is the master.                                                    *)
SiblingLinks ==
  /\ ~lib.linked /\ gtws.ops \cap (Scans \cup Creates) # {}
  /\ \E role \in {"MASTER", "SLAVE"}, other \in BOOLEAN, phone \in {"none", "ready"} :
       /\ other \/ ~gtws.stored => gtws.ops \cap {"waitPair", "search"} # {}
       /\ role = "SLAVE" => lib.phone = "none"
       /\ lib' = [lib EXCEPT !.linked = TRUE, !.role = role,
                             !.phone = IF role = "SLAVE" THEN phone ELSE @]
       /\ Post(<<[kind |-> "CONNECTED", role |-> role, phone |-> lib'.phone = "ready",
                  why |-> IF other THEN "other" ELSE "none"]>>)
  /\ gtws' = Shut(gtws, Creates \cup {"search"})

(* The link to the sibling ends: lost, removed by either, or for any other *)
(* reason, a request of this speaker (tws_api_detach) included.            *)
SiblingLeaves(why) ==
  /\ lib.linked /\ (IsSlave \/ why = "removed" => ~lib.esco)
  /\ lib' = IF IsSlave THEN Unlinked ELSE [lib EXCEPT !.linked = FALSE]
  /\ LET detach == [kind |-> "DETACH", role |-> lib.role,
                     phone |-> lib'.phone = "ready", why |-> why]
     IN  IF why # "removed" THEN Post(<<detach>>)
         ELSE Post(<<detach, Ev("REMOVE_PAIRS")>>) \/ Post(<<Ev("REMOVE_PAIRS"), detach>>)
  /\ UNCHANGED gtws

PhoneLinks ==
  /\ lib.phone = "none" /\ ~IsSlave /\ gtws.ops \cap {"phoneScan", "page"} # {}
  /\ lib' = [lib EXCEPT !.phone = "link"]
  /\ gtws' = Shut(gtws, {"page"})
  /\ Post(<<Ev("CONNECTION")>>)

PhoneReady ==
  /\ lib.phone = "link"
  /\ lib' = [lib EXCEPT !.phone = "ready"]
  /\ Post(<<Ev("PHONE")>>) /\ UNCHANGED gtws

(* The link to the phone ends: lost, because it exists already, or for any *)
(* other reason.  A lost one may be reported in either way.                *)
PhoneLeaves(kind, why) ==
  /\ kind = "TIMEOUT" => why = "lost"
  /\ lib.phone # "none" /\ ~IsSlave /\ ~lib.esco
  /\ lib' = [lib EXCEPT !.phone = "none"]
  /\ LET hci == LinkEv(kind, why)
     IN  Post(IF lib.linked THEN <<hci, TwsEv("PHONE_LINK_DETACH", why)>> ELSE <<hci>>)
  /\ UNCHANGED gtws

(* The phone of the master, as its slave learns of it.                     *)
SiblingsPhone(why) ==
  /\ IsSlave /\ ~lib.esco
  /\ lib' = [lib EXCEPT !.phone = IF @ = "none" THEN "ready" ELSE "none"]
  /\ Post(IF lib.phone = "none" THEN <<>> ELSE <<TwsEv("PHONE_LINK_DETACH", why)>>)
  /\ UNCHANGED gtws

(* The audio of a call starts or ends. *)
Call ==
  /\ lib.phone = "ready"
  /\ lib' = [lib EXCEPT !.esco = ~@]
  /\ Post(<<Ev(IF lib.esco THEN "SCO_END" ELSE "SCO_BEGIN")>>) /\ UNCHANGED gtws

Expires(op, kind) ==
  /\ op \in gtws.ops
  /\ gtws' = Shut(gtws, {op})
  /\ Post(<<TwsEv(kind, "none")>>) /\ UNCHANGED lib

RunsOut ==
  \/ Expires("search", "SEARCH_TIMEOUT")
  \/ Expires("createFor", "CONNECTION_TIMEOUT")
  \/ Expires("page", "PAGE_TIMEOUT")

(* The phone that is paged has a link to this speaker already.             *)
PageExists == Expires("page", "EXISTS")

-----------------------------------------------------------------------------
(* app_core handles the events, while the Bluetooth mode is not left.      *)
(* tws_event_role_switch is empty and tws_event_esco_add_connect sets the  *)
(* volume only: neither changes anything here.                             *)

Take(kinds) ==
  /\ stack # "off" /\ queue # <<>> /\ Head(queue).kind \in kinds
  /\ queue' = Tail(queue) /\ UNCHANGED <<lib, stack>>

(* tws_event_connected: a sibling that is not the one in the VM is stored. *)
Connected(s, e) ==
  LET new == e.why = "other" \/ ~s.stored
      z == [CancelTimer(s) EXCEPT
             !.pair = IF new THEN "paired" ELSE @, !.stored = TRUE,
             !.power_on = @ /\ ~new, !.timeout = FALSE, !.sibling = TRUE,
             !.counter = IF s.connect_time > 0 /\ e.role = "MASTER" THEN s.connect_time ELSE @,
             !.connect_time = 0]
  IN  IF e.phone THEN z
      ELSE IF e.role = "MASTER" THEN Restart(z)
      ELSE Shut(z, Scans \cup {"phoneScan"})

OnConnected == Take({"CONNECTED"}) /\ gtws' = Connected(gtws, Head(queue))

OnSearchTimeout == Take({"SEARCH_TIMEOUT"}) /\ gtws' = Restart(gtws)

(* The slave that has lost its master keeps the pages that were left.      *)
KeepPages(s) == [s EXCEPT !.connect_time = s.counter, !.counter = 0]

ConnectionTimeout(s, e) ==
  IF s.pair = "unpaired" THEN Restart(s)
  ELSE IF e.phone THEN WaitSibling(s)
  ELSE Restart(IF s.timeout THEN [KeepPages(s) EXCEPT !.timeout = FALSE] ELSE s)

OnConnectionTimeout ==
  Take({"CONNECTION_TIMEOUT"}) /\ gtws' = ConnectionTimeout(gtws, Head(queue))

(* Mutant: the pairing that the sibling has removed is kept. *)
DetachStaysPaired(s, e, failed) ==
  LET z == [s EXCEPT !.sibling = FALSE]
      kept == IF e.role = "SLAVE" THEN [KeepPages(z) EXCEPT !.timeout = TRUE] ELSE z
  IN  IF e.why = "removed" THEN OpenWaitPair(z)
      ELSE IF lib.esco THEN z
      ELSE IF e.phone THEN WaitSibling(z)
      ELSE IF e.why = "lost" THEN ConnectSibling(kept, failed)
      ELSE Restart(z)

(* tws_event_connection_detach. *)
Detach(s, e, failed) ==
  LET z == [s EXCEPT !.sibling = FALSE]
      kept == IF e.role = "SLAVE" THEN [KeepPages(z) EXCEPT !.timeout = TRUE] ELSE z
  IN  IF e.why = "removed"
      THEN OpenWaitPair([z EXCEPT !.pair = "unpaired", !.power_on = FALSE, !.timeout = FALSE])
      ELSE IF lib.esco THEN z
      ELSE IF e.phone THEN WaitSibling(z)
      ELSE IF e.why = "lost" THEN ConnectSibling(kept, failed)
      ELSE Restart(z)

OnDetach ==
  /\ Take({"DETACH"})
  /\ \E failed \in BOOLEAN : gtws' = Detach(gtws, Head(queue), failed)

(* tws_event_phone_link_detach: reasons 0x08, 0x0b and the others.         *)
PhoneLinkDetach(s, why) ==
  Restart([s EXCEPT !.counter = CASE why = "lost" -> @
                                  [] why = "exists" -> ShortPages
                                  [] OTHER -> 0])

OnPhoneLinkDetach ==
  Take({"PHONE_LINK_DETACH"}) /\ gtws' = PhoneLinkDetach(gtws, Head(queue).why)

OnRemovePairs ==
  /\ Take({"REMOVE_PAIRS"})
  /\ gtws' = OpenPhoneScan(OpenWaitPair(CancelTimer([gtws EXCEPT !.stored = FALSE])))

OnConnection ==
  /\ Take({"CONNECTION"})
  /\ gtws' = [CancelTimer(gtws) EXCEPT !.power_on = FALSE, !.counter = 0]

PhoneConnected(s) ==
  IF s.pair = "unpaired" THEN IF lib.esco THEN s ELSE OpenWaitPair(s)
  ELSE IF s.sibling THEN s ELSE WaitSibling(s)

OnPhone == Take({"PHONE"}) /\ gtws' = PhoneConnected(gtws)

(* bt_hci_event_disconnect does nothing during the exit...                 *)
OnDisconnect ==
  /\ Take({"DISCONNECT"})
  /\ \E failed \in BOOLEAN :
       gtws' = IF stack = "exiting" THEN gtws
               ELSE IF Head(queue).why = "lost" THEN PhoneConnectTimeout(gtws, failed)
               ELSE PhoneDisconnected(gtws)

(* ... the other ends of a page or of a link are handled all the same.     *)
OnPageTimeout == Take({"PAGE_TIMEOUT"}) /\ gtws' = PhoneDisconnected(gtws)

OnLinkLost ==
  /\ Take({"TIMEOUT", "EXISTS"})
  /\ \E failed \in BOOLEAN :
       gtws' = IF lib.esco THEN PhoneDisconnected(gtws)
               ELSE PhoneConnectTimeout([gtws EXCEPT !.counter =
                      IF Head(queue).kind = "TIMEOUT" THEN LongPages ELSE ShortPages], failed)

(* tws_page_scan_deal_by_esco.                                             *)
OnScoBegin ==
  /\ Take({"SCO_BEGIN"})
  /\ gtws' = Shut(CancelTimer(gtws), IF gtws.pair = "unpaired" THEN Scans ELSE Creates)

OnScoEnd ==
  /\ Take({"SCO_END"})
  /\ gtws' = IF gtws.pair = "unpaired" THEN OpenWaitPair(gtws) ELSE OpenConn(gtws)

Handler ==
  \/ OnConnected \/ OnSearchTimeout \/ OnConnectionTimeout \/ OnDetach
  \/ OnPhoneLinkDetach \/ OnRemovePairs \/ OnConnection \/ OnPhone
  \/ OnDisconnect \/ OnPageTimeout \/ OnLinkLost \/ OnScoBegin \/ OnScoEnd

Reason == {"lost", "exists", "other"}

Library ==
  \/ SiblingLinks \/ \E why \in {"lost", "removed", "other"} : SiblingLeaves(why)
  \/ PhoneLinks \/ PhoneReady
  \/ \E kind \in {"TIMEOUT", "DISCONNECT"}, why \in Reason : PhoneLeaves(kind, why)
  \/ \E why \in Reason : SiblingsPhone(why)
  \/ Call \/ RunsOut \/ PageExists

TwsNext ==
  \/ PowerOn \/ PowerOff \/ StackOff \/ TimerFires \/ SearchKey \/ ConnKey
  \/ Handler \/ Library

TwsSpec == TwsInit /\ [][TwsNext]_twsVars

(* The timer fires, app_core goes on, and what has a time limit runs out.  *)
TwsFairness ==
  WF_twsVars(TimerFires) /\ WF_twsVars(Handler) /\ WF_twsVars(RunsOut)

TwsFairSpec == TwsSpec /\ TwsFairness

-----------------------------------------------------------------------------
(* Properties                                                              *)

(* app_core has handled every event: what it knows should be true now.     *)
Settled == stack = "on" /\ queue = <<>>

(* The handle of the timer is never overwritten while the timer is armed:  *)
(* connect_and_connectable_switch clears pair_timer without deleting it    *)
(* (bt_tws.c:1073) and is called by the timer and by a dozen handlers; a   *)
(* second chain of timers could never be stopped.                          *)
OneTimer == ~gtws.stray

(* With no event outstanding the flags of gtws.state tell the truth about  *)
(* the sibling, and about the pairing that is stored, whatever the order   *)
(* in which links came and went before (bt_tws.c:1949, :2195, :2204).      *)
KnowsSibling ==
  Settled => /\ gtws.sibling = lib.linked /\ (gtws.sibling => gtws.pair = "paired")
             /\ gtws.pair = IF gtws.stored THEN "paired" ELSE "unpaired"

(* A speaker without a phone, other than a slave, is never left with       *)
(* nothing to do: its timer is armed, or something is open that a phone    *)
(* answers or that ends in an event.  Every handler that deletes the timer *)
(* has to see to it.                                                       *)
NeverDeaf ==
  Settled /\ lib.phone = "none" /\ ~IsSlave =>
    gtws.timer # NoTimer \/ gtws.ops \cap {"createFor", "search", "page", "phoneScan"} # {}

(* And it can be found by a phone again and again, however often links to  *)
(* the sibling come and go, unless the user keeps searching or the phone   *)
(* keeps answering that it is connected already (which buys new pages).    *)
PhoneCanConnect ==
  \/ []<><<PageExists \/ SearchKey>>_twsVars
  \/ []<>(stack # "on" \/ IsSlave \/ lib.phone # "none" \/ "phoneScan" \in gtws.ops)

(* timer.h:100 wants sys_timeout_add and its deletion in pairs: when the    *)
(* stack is gone the scheduler, which bt_tws_poweroff has stopped, does    *)
(* not run.                                                                *)
NoTimerWithoutStack == stack = "off" => gtws.timer = NoTimer
=============================================================================
