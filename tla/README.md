# The mode machine of the AC6966B soundbox, in TLA+

This directory specifies the application layer of the AC6966B speaker (the
`soundbox` application of the JL SDK under `src/SDK/apps`): the machine that
switches between Bluetooth, music, FM, line-in, idle and power-off, what each
mode does to be left, the manager of the storage devices, the music mode
that plays from them, the tone player, the key driver, and how one of two TWS
speakers looks for its phone and its sibling. The product is the board `CONFIG_BOARD_AC6966B`
(`app_config.h`, `board_ac6966b_cfg.h`): BT, MUSIC, FM and LINEIN on; PC, RTC,
RECORD and SPDIF off; no charging, no background Bluetooth
(`TCFG_BLUETOOTH_BACK_MODE 0`), no automatic shut-down.

## The system

| Component | State it keeps | Operations | Interacts with |
|---|---|---|---|
| mode-switch kernel (`app_task_switch.c`, `app_main.c`) | `app_prev_task`, `app_curr_task`, `app_next_task` | `app_task_switch_to/next`, `app_task_exitting`, the loop over bodies | every body polls it; timers and handlers call it |
| BT mode (`bt.c`, `bt_switch_fun.c`) | `exit_flag`, `exiting`, `wait_exit`, `init_ok`, `timer`, `force_poweroff` | `bt_task_start`, `bt_task_close`, `bt_no_background_exit_check`, `bt_app_switch_exit_check` | stack library, timers, tone callbacks |
| soft power-off (`bt_event_fun.c`) | `goto_poweroff_flag`, `wait_exit_timer` | `soft_poweroff_mode`, `sys_enter_soft_poweroff`, `wait_exit_btstack_flag`, `esco_check_state` | kernel, BT, power manager, keys |
| start-up, idle, power-off (`power_on.c`, `idle.c`, `power_off.c`) | timers, `user_power_off_class` | entry, tone callbacks, key handlers | kernel, tone player, hardware timers |
| common events (`app_common.c`) | remote power-off countdown | mode key, device online/offline, remote power key | kernel, device manager, key switch |
| music, FM, line-in (`music.c`, `fm.c`, `linein.c`) | `user_fm_task_init_flag`, line-in level | entry, close, their own events | kernel, player, tone player |
| tone player (`tone_player.c`, `audio_dec_tone.c`) | `cur_list` with its place in the list and its repeat, the open decoder | play a list of files, stop, stop by path, a file ends | posts callbacks to `app_core` |
| device manager (`dev_manager.c`, `dev_status.c`) | list of devices, mount, valid, activity stamp | add, del, mount, find, check, set active | storage drivers, player, kernel's entry check |
| music player (`music_player.c`, `audio_dec_file.c`) | device, scan, file, cycle mode, start magic | play by cluster/number/path/break point, next/prev, end events | device manager, decoder task |
| key driver (`common/key/key_driver.c`) | per pad: `last_key`, filter, press and click counters; shared: `is_key_active` | `key_driver_scan`, every 10 ms per pad | posts key events to `app_core`, keeps the chip awake |
| TWS (`bt_tws.c`, `bt_event_fun.c`) | `gtws` (state, `pair_timer`, `connect_time`), `auto_connection_counter` | the scheduler `connect_and_connectable_switch`, a handler per event of the library | Bluetooth and TWS library, system timers, BT mode |
| record writer, clock manager, FM stations, alarms, power manager | see PROJECT.json | | |

Everything but the last row runs in one task, `app_core`, one message at
a time; the exceptions are the callbacks of `sys_hi_timeout_add` (hardware
timer, between any two steps of `app_core`) and the decoder and stack tasks,
which only post messages. In the music mode the scan of a disk, and the lookup of a
file, which may scan again (`music.c:314`), is a message handler that takes messages out
of the queue itself (`music_player_scandisk_break`).

Hard behaviours, each at its line in `PROJECT.json` under "hazards": requests
that are replaced or interrupted between request and commit; a Bluetooth
teardown spread over timer ticks while the body waits; tone callbacks that
arrive after their mode is gone; three ways to power off that share a flag
with the BT mode; checks made at the request and stale at the commit; keys
disabled by the kernel and enabled by each mode; for the device manager and the
player, failed mounts, pointers to freed list nodes, events taken and re-posted
by a scan, error handling that posts messages to itself, and end events that
arrive after the device has changed; for the key driver, contacts that bounce
in the middle of everything it counts; for TWS, links that change while the
events of earlier changes still wait, and a timer that a dozen handlers delete
and arm; for the tone player, marks among the file names and files that do not open.

What makes each component correct: the kernel keeps every accepted request,
acts on it and never "switches" to the current mode; the BT mode starts and stops its stack
inside its own body, with flags that tell the truth; the power is cut only under a
stopped stack; start-up ends and the keys come back; the device list keeps each
device once, its searches agree with each other and with the order of use; the
player decodes only from a device that is there, never falls silent with one
left, loses no device event, and gives up after finitely many errors; the key
driver turns stable levels, and only those, into the gestures the product
listens to; the tone player plays the files of a list and nothing else, and reports
each tone that is over; a TWS speaker has one scheduler, knows its sibling and is never
left invisible.

## Modules

* `AppTaskSwitch` - the kernel, for any set of modes. One action per step of
  `app_core` (`Enter`, `Handle`, `Callback`, `PollNone`, `PollCommit`,
  `PollClear`, `Close`, `PowerCut`, `Reset`) and `HiTimerFires` for the interrupt.
  `app_task_exitting` is two steps, its two assignments. Whether a request
  passes the checks is open here, so the module is the abstract specification of
  everything that switches modes. `pc` says where `app_core` is, `body` whose
  code it is inside (`curr` moves before the body returns), and `asked` is a
  history variable, the last request that was accepted.
* `BtMode` - the flags of the BT mode and of the soft power-off as operators,
  one per function of the code.
* `SoundboxModes` - the product: each event handler, tone callback and timer as
  an action that calls the kernel's operators and BtMode's. It INSTANCEs
  `AppTaskSwitch` as `Kernel`; `ImplementsSwitch == Kernel!Spec` is checked as a
  property, with the identity mapping on the kernel's variables. Its tones are
  `Tones`, an instance of `ToneInterface`.
* `ToneInterface` - what the modes rely on: one tone at a time, its callback posted once
  it is over or broken by another, a silent stop, and the end of a tone left alone.
* `TonePlayer` - the player behind it. `cur_list` is the list that plays: its tone, the
  index, where its repeat began and the rounds left; `Walk` is the way
  `tone_dec_list_play` takes over the marks (`AtEnd`, then `AtBegin`).
  `ImplementsTones == Interface!Spec` is checked, its safety part also proved; the
  mapping hides tones without a callback and makes a set of the queue of callbacks.
* `DevList` - the list of `dev_manager.c` as pure operators: the searches and
  the changes, on a sequence of nodes with address, logo, mount, valid bit and
  stamp. The ring of `list_for_each_entry` that starts at a node is arithmetic
  modulo the length (`Around`), the list head being skipped as in the code.
* `DevManager` - its operations as steps in any order, with failed mounts and
  allocations, repeated events, and addresses that are used again. `before` is
  a history variable: which node was last used before which.
* `MusicPlayer` - the music mode (`music.c`, `music_player.c`) on top of
  `DevList`, with the cards, the queue and the other modes.
* `KeyGestures` - what a key pad promises, with no notion of time: presses, clicks
  (a count of taps of one key), LONG, HOLD and UP, in the orders they may come.
* `KeyDriver` - `key_driver_scan` as it is: debounce filter, press counter, click
  delay, and the activity counter that all pads share. One `Scan` is one call for
  the pad of the model, with any raw reading; `OtherScan` is one for another pad.
  `ImplementsGestures == Gestures!Spec` is checked and proved under a refinement
  mapping (which tap is counted, which key is down and how far).
* `TwsLink` - one of two TWS speakers. `gtws` holds what the handlers keep and
  the set `ops` of what they have opened (being found, paging, searching), `lib`
  the links as the library knows them, `queue` the events posted to `app_core`.
  The handlers are functions from `gtws` to `gtws`, one per function of the code
  (`Restart`, `WaitSibling`, `PhoneConnected`, ...), and each event has its `On`
  action. The library is external and modelled from the comments of `tws_api.h` and
  what the handlers expect of it.
* `AppTaskSwitch_proofs`, `SoundboxModes_proofs`, `DevManager_proofs`,
  `MusicPlayer_proofs`, `KeyDriver_proofs`, `TwsLink_proofs`, `TonePlayer_proofs` - the
  theorems; `DevList_proofs` - the lemmas on the device list that two of them share.
* `MCAppTaskSwitch`, `MCSoundboxModes`, `MCParts`, `MCMusicPlayer`, `MCTwsLink` - the
  instances for TLC. `MCParts` holds the kernel, `DevManager`, `KeyDriver`, `TwsLink` and
  `TonePlayer` side by side: they share nothing, so its initial choice `part` lets one of them run.

Correspondence: a body's loop "get a message, handle it, poll" is `pc = "get"`,
an action of `Message`, `pc = "poll"`, then `PollNone` or `PollCommit`,
`PollClear` and `Close`. Callbacks (tones, system timers) run inside
`app_task_get_msg`, so they are enabled at `pc = "get"` and do not poll; the
power-off body never polls at all. Time is `phase`, the two limits the code
compares the uptime with (1300 ms in `user_power_on_init`,
4000 ms in `app_common.c`).

In `MusicPlayer` each message kind of `music_key_event_opr` is an action
(`Start`, `NextFile`, `End`, `ChangeDev`, `Quit`, `ModeKey`), so are the device
events (`DeviceIn`, `DeviceOut`: what the mode does, then what
`dev_status_event_filter` does to the list). A play function yields a set of
(state, error) pairs, one for each way files can turn out, and `ErrDeal` is
`music_player_err_deal` on it, which posts the next message. Starting on another device
goes through `pc = "scan"`, ended by `ScanFinds` or `ScanFails`; looking up a file goes through
`pc = "seek"` (by a break point, behind a scan) or `pc = "look"` (any other file), ended
by `LookedUp`. In all three `ScanTakes` is the break callback. A decoder that has to wait
for another sound (`file_wait_res_handler`) counts as started, `dec = "wait"`, until
`WaitEnds`: it then plays, or it fails and is released with no one told. `overtaken` is a history
variable: the cards with an event that a scan has posted again behind a later one of theirs. A socket holds a card with playable files
("good"), with files that do not decode ("bad") or with none ("empty"); it is "gone" when
pulled out unnoticed and "out" once the event is posted. The magic of a start is
kept as a mark on each end message, whether it is of the current start, which is
what the comparison decides; stamps are kept as ranks. Which file plays is abstracted away.

## Runs

| Run | Question | Result |
|---|---|---|
| `parts` (kernel) | Is every accepted request kept and acted on, and does a commit always change the mode? | holds, 5 properties; with timers kept out of the commit window |
| `switch_commit_window` | The same with the window, as compiled | `RequestKept` violated |
| `modes` | Does the stack stay inside the BT mode under keys, storage, calls and three ways to power off, and when the power is cut? | holds, and implements the kernel |
| `modes_leave` | Do start-up and BT end, do the keys come back, is a started stack left alone? | holds for mode keys, calls and a player that gives up |
| `bt_second_request` | BT under a line-in event in the window after its teardown | `BtLeaves` violated |
| `poweroff_unarmed` | Low battery during start-up | `PoweroffIsArmed` violated |
| `poweroff_forgotten` | Mode key behind a power-off request | `PoweroffKept` violated |
| `parts` (devices) | Do the device list and its searches stay consistent under any order of operations? | holds, 6 properties |
| `parts` (keys) | Does a bouncing key pad yield the gestures it promises, and every click in the end? | holds, 6 properties |
| `parts` (tws) | Whatever links come and go: one scheduler, true flags, never deaf, found again? | holds, 5 properties |
| `parts` (tones) | Does the player open files only, end every list and post its callback? | holds, 2 properties |
| `tws_exit` | Is the scheduler stopped when the stack is gone? | `NoTimerWithoutStack` violated |
| `music_player` | Does the music mode play from a device that is there, always when there is one, and does its list follow the cards? | holds, 6 properties |
| `music_settles` | Do the messages that follow errors come to an end? | holds |
| `music_late_error` | Does a late read error leave the other devices alone? | `HealthyMounted` violated |
| `music_repost` | Is an event that breaks off a scan handled as without the scan? | `RepostHarmless` violated |

Bounds. `MCAppTaskSwitch` has one mode of every kind (start-up, lingering, final)
and two plain ones; nothing in the kernel counts, so more modes of a kind only repeat.
In `SoundboxModes` the modes are the product's own. `MaxDev` 2 distinguishes "none", "one" and
"another to change to", all that the code tests of `dev_manager_get_total`.
`MaxIr` 1 allows one remote countdown at a time (each is independent of the
others). `Stimuli` splits the events over the runs so that each stays small;
`modes` takes every kind but line-in events, which ask for modes as the storage events do
and would triple the states (`SoundboxModes_proofs` covers them, for every `Stimuli`);
`modes_leave` has line-in and cards found during start-up. `BootKeys` is what
the key switch may be before the first mode sets it; the library's initial value
is not in `src/`, so the safety runs take both and `modes_leave` the harder one.

`MCParts`, devices: two cards, one with a record folder, so that the list holds
up to three nodes and a search from the middle wraps both ways; four addresses
let a freed one stay unused or come back. `MaxStamp` 4 gives every device
a use and one a second; the 32-bit wrap of the counter is out of reach of the
product's life and not modelled. Keys: two keys, one of which only clicks; the
times are scaled down from 5, 75, 90 and 20 scans to `FilterTime` 2, `LongTime` 5,
`HoldTime` 8 and `ClickDelayTime` 4, keeping their order, so that every mixture of a
bounce with a boundary occurs; `Active` 11 (35 in the code) outlasts the filter, a
click and its delay; one other pad (`Others`). `MaxClicks` 6 is one more than the code
names. TWS: `Phones` 1 with `ShortPages` and `LongPages` 1 is enough for a page that is the
last and one that another phone of the power-on follows; that the two time limits differ
matters to the proofs only (`LongPages` 2 passes too, in twice the time);
`QMax` 2 lets an event of the phone wait behind one of the sibling. Tones: two
mode tones of one file with a callback, the second to break the first, and one list
without a callback: a number, a repeat of two files, and a file behind it. The ring of a call
repeats 65535 times (`TONE_REPEAT_BEGIN(-1)`), here twice. `CbMax` 2 holds back whoever
plays or stops a tone while two callbacks wait, not the end of a file.

`MCMusicPlayer` has two cards, the smallest
number with "another device"; `Files` 1 distinguishes the first failure
of a card from the last; `QMax` 2 lets a device event and a key, the events of both cards, or
two of one card wait together (neither the messages the mode posts to itself nor the removal of
a card are bounded by it). A card may move again before its last event is handled. `Keys` is the mode key, which
breaks off a scan; the next key does what the end of a track does, and the two violation runs
and `music_settles` have it. The addresses are only compared with each other, so
they are symmetric (`Addresses`) in the run without a liveness property. `music_settles`
takes `QMax` 1 and the next key only: what it asks about begins when
the environment falls quiet, and one message at a time with failures at every
step already starts every kind of error chain.
The record folder is off in `MCMusicPlayer` as on the board
(`TCFG_RECORD_FOLDER_DEV_ENABLE`); `MCParts` has it on.

Deadlock is checked in the runs of the music mode and of `MCParts`, in which the kernel may stop
only once the power is cut (`PowerIsOff`). It is not in the runs of the modes, where that is a final
state too.

### Scope of the properties

`BtLeaves`, `StartUpEnds` and `KeysReturn` are claimed for the stimuli of
`modes_leave` only. With line-in or storage events BtLeaves fails as `bt_second_request` shows, and
with a power-off it fails because BT can be left before `BT_STATUS_INIT_OK`
(`app_power_manage.c:162`) or because `bt_status_event_filter` drops that event
while `goto_poweroff_flag` is set (`bt_event_fun.c:1040`). `StartUndisturbed` is
claimed, and proved, for the same stimuli with any initial key switch. To fail it
needs two requests between the entry of BT and the callback that starts its stack, so TLC finds it to hold with any one of the
other kinds of stimuli added and to fail with, say, `"irkey"` and `"lowpower"`: a
low-battery tone breaks off BT's own, a countdown to idle closes BT before the callback
has started the stack, `user_power_on_init` asks for BT again, and the callback then
starts the stack under the timer of that close.

`PlaysWhatThereIs` leaves out two moments (history variable `cut`). One is after a mode key has
broken off a scan or a lookup: the key is then turned into a device change that may
find no other device, or is ignored, and the mode stays silent until the next event. The other is
after a decoder has failed that had to wait for another sound: `file_wait_res_handler` returns
the error to the library, no end event is posted, and the mode is silent too.

`ListFollowsSockets` leaves out the cards in `overtaken`, until their next event:
`RepostHarmless` is the same claim without that exception, and `music_repost` shows how it
fails. `HealthyMounted` leaves them out as well, so that `music_late_error` shows the read
error and not the order of events.

`AwakeForItsShare` says how long `is_key_active` lasts: as many scans of pads without
a key as the constant says, all pads together. The comment "35*10Ms"
(`key_driver.c:78`) reads as 350 ms; with the AD and the infrared pad of this board
(`board_ac6966b_cfg.h:234`, `:338`) both scanned every 10 ms it is 175 ms. Two more things
the gestures show and `KeyGestures` allows: a change from one key to another
without a stable pause gives no UP after the LONG of the first, and taps of a
key that wait for their click delay are dropped when another key is pressed.

`PhoneCanConnect` leaves out a user who searches for the sibling for ever and a phone that
answers every page with "connected already", which buys new pages each time.
`KnowsSibling` and `NeverDeaf` speak of states in which every event is handled; before
that the flags lag behind by design.

What `TwsLink` assumes of the product's configuration: `CONFIG_TWS_PAIR_BY_CLICK`, no
common address, `CONFIG_TWS_PAIR_ALL_WAY` 1, one phone at a time, no test box,
`goto_poweroff_flag` 0 (the exit of the mode is modelled, not the power-off of
both speakers). Whether there is a call (`get_call_status`) is approximated by its audio
(`esco`); `tws_event_role_switch` is empty and `tws_event_esco_add_connect` only sends the
volume (`bt_tws.c:2617`, `:2634`), so neither is an action. Of the library: a link to the phone
that is lost is reported as a timeout or as a disconnection with that value; an unlinked speaker is a master, and the one with
the phone becomes the master; the audio of a call ends before its link; a
removal posts the detach and the removed pair in either order; a linked master
is told of the phone twice; what a timed operation opens ends with its event;
closing a scan that is not open does nothing. Events in the queue when the stack goes off
are dropped, since the next mode does not handle them. Two things the model shows
that no property claims: a search that ends just before a call opens the wait for a
sibling again during the call (the comment at `bt_tws.c:1583` wants it closed
then), and a search that fails starts the scheduler with a phone connected.

What `TonePlayer` assumes: `tone_dec_end_ctrl` does not run for a decoder that has been
closed (the library drops its end event), `os_taskq_post_type` finds room in the queue
of `app_core`, and lists come with paired marks that have files between them
(`Paired`), as `number_to_play_list` builds them. Of the list entries only their kind
matters, so a repeat count is a natural number and the index does not wrap at 8 bits (a list
has at most 34 entries). No caller in `src/` sets `follow`, so a handle
never holds a second list, and the two places that deal with one are not
modelled; `tone_dec_stop_spec_file` looks for a waiting list there by the name of the
list that plays (`audio_dec_tone.c:584`), which would matter if one did.

### Fairness

`AppTaskSwitch!FairSpec` asks for weak fairness of `app_core` as a whole; a body that
waits gets messages, because `app_task_switch_to` posts `APP_MSG_SWITCH_TASK`
itself. In `SoundboxModes`, `Body \/ OtherMessage` is weakly fair for that
reason (half-second and interface messages always come). Posted callbacks, the stack's
`BT_STATUS_INIT_OK` and the system timers are enabled only while `app_core`
waits, so they need strong fairness; the code gives it because the queue is a
FIFO, which keeps a posted message ahead of all later ones. Decoders and
hardware timers (`ToneEnds`, `PowerOnTimerFires`) go on whatever `app_core`
does: weak fairness. For `ToneEnds` this is not left as an assumption: `ImplementsTones`
includes the weak fairness of `ToneInterface!Ends`, from `ToneSpec`'s of `FileEnds`
(a decoder comes to the end of its file). No fairness is assumed of the user, of calls or of devices.
`MusicPlayer!FairSpec` asks for weak fairness of `CoreStep`, the message loop and the
scan, which never wait for anything but a message, and of `Noticed`, since the
detection of cards polls. Without the second the player may go round for as long as a card is
gone and not yet noticed: a failed decode posts "next", a file that is not found resets
the error count and posts "first", and so on. Cards, tracks and keys have no
fairness, and `MusicPlayer!Settles` speaks of behaviours in which they stop.

The pads are scanned by a periodic timer, so `KeySpec` has weak fairness of the
scan; `KeyDriver!Settles` asks nothing of the user but to leave the pad alone.
`TwsFairness`: the timer of the scheduler fires, `app_core` handles its queue, and what
has a time limit (a page, a search, a timed connection) runs out. Links, calls,
users and the end of the mode have none.

## Proofs

`AppTaskSwitch_proofs` proves for every set of modes, list, boot mode and choice
of final and lingering modes, from `TaskAssumption` and `TaskListAssumption`:

* `TypeCorrect` and `BodiesAreCurrent`: inductive as they stand.
* `CommitsChangeMode`: a pending request differs from the current mode outside
  the commit window, inductive together with `TypeOK`.
* `RequestsKept`: `RequestKept` for `~CommitWindow`. It is not inductive: in the
  middle of a commit `next` and `curr` coincide, and clearing `next` keeps the
  request only because of that. The inductive invariant `RequestInv` adds
  `CommitPending`, which says exactly this. `switch_commit_window` shows that
  the assumption cannot be dropped.
* `NextInListCorrect`: `app_task_switch_next` finds an admitted mode other than
  the current one when there is one, and returns nothing only if none of the
  other listed modes is admitted; it rests on `NextTryReaches` (the ring visits every
  other entry) and `LeastTry` (a least index exists).

`SoundboxModes_proofs` proves about the product's modes, for every `MaxDev` and
`MaxIr`, every set of `Stimuli` and every initial key switch, from
`ModesAssumption`:

* `ModesTypeCorrect`, and with it `ModesImplementSwitch`: the detailed modes
  implement the kernel. `MessagesAreQuiet` carries both: each handler of a
  message, whatever it asks for, changes the kernel's variables as one request
  does and leaves the stack's flags alone.
* `StackConfined` and `ExitFlagTruthful`, from the inductive invariant
  `StackInv`, which adds to the two what keeps them: `TeardownDone` (a BT body
  that waits to return, with no exit under way, has no stack and no timer: the
  body returns on these flags, not on the stack), `PowerOffStays` (the callback
  that cuts the power belongs to a body that is never left, so no other tone
  callback cuts it) and the kernel's `BodyIsCurrent` (`bt_tone_play_end_callback`
  asks for the current mode, not for the body that runs).
* `StartsUndisturbed`: the action property `StartUndisturbed`, for `Stimuli` within
  `OrdinaryUse` (mode key, devices found at start-up, calls, a player that gives up;
  the hypothesis is needed, see the scope above) and any `BootKeys`, from `StartInv`.
  Its core, `WaitingForTone`, is about the time between entering BT and the callback that
  starts the stack: the mode key is off (`KeysHeld`), so only `user_power_on_init` can
  take BT away, once (`TimerSpent`); then nothing is left that could ask for BT again and
  let the callback through. This is the case a second look finds: BT can
  indeed be closed with its stack still off, which leaves the timer armed, but BT is then
  not the current mode any more when the callback comes.

`DevManager_proofs` proves for all cards, record folders, addresses and numbers of
stamps, from `DevAssumption`:

* `DevTypeCorrect`, `DevicesOnce`, `ValidAreMounted` and `FindsLastUsed`, from the
  inductive invariant `DevInv`. `ActiveIsLastUsed` needs the most: stamps are
  distinct, below the counter, and order the nodes as they were used. The
  lemmas on `AddDevice` and `DelDevice` in `DevList_proofs` say what is kept when a card
  and its record folder come or go, whichever of the two fails.
* `NextGoesRound` (`NextVisitsAll`) and `IndicesEnumerate` (`IndexEnumerates`): what
  *repeated* searches visit. Neither needs an induction over the list: the first takes
  the valid device the walk misses at the least distance behind one it meets
  (`NextReaches`: that device is the next one found, or lies nearer to it), the second the least
  position at which `dev_manager_find_by_index` and the order of the list part
  (`Before`, `Ranks`: a device's index is the number of valid ones before it).

`MusicPlayer_proofs` proves for all cards, addresses, numbers of files, keys and
queue bounds, with or without record folders, from `DevAssumption` and
`PlayerAssumption`:

* `PlayerTypeCorrect`, `DecodesMounted`, `HandleMatches` and `PlayedFound`, from
  the inductive invariant `PlayerInv`. Its core, `Sane`, is about the record
  `[dm, pl, q]` that the handlers pass on, so each function of `music_player.c`
  has one lemma and the proof of a handler cites those it calls. `Sane` strengthens
  the properties in three ways: the handle is of *whatever* node has the
  remembered address, mounted or not, so that a freed address that is used again
  cannot meet it; the decoding node is valid and has the greatest
  stamp; and while a decoder runs no end message of its own start is in the queue,
  so no read error unmounts what is being played. `Parked` says what a scan
  relies on: the node it was started for is still valid, or gone.
* `ListFollows` (`ListFollowsSockets`), however fast cards move. The property is about cards
  with no event in the queue; the invariant `Told` says of every
  queue that the last event of a card agrees with its socket (`LastIs`), and that the list
  does for a card without one (`Quiet`). A scan takes the event at the head and may post it again at the
  tail: unless that puts it behind a later event of the same card, which `overtaken` records, the
  last event of each card stays the last. `Tells` is the relation between two
  states that every function of the player keeps but the handlers of device events: the same
  cards in the list, the same last events in the queue (`LastKept`).
* `NeverSilent` (`PlaysWhatThereIs`). `Owed` says that while
  nothing plays there is nothing to play or some message in the queue *drives* the mode: its
  handler, in the state it will find, decodes, scans, leaves the mode or posts another such message
  (`Drives`). Which messages those are depends on the state: "next" is nothing without
  a remembered device, "change device" nothing unless that device is no longer valid, the end of a file
  only with the magic of the present start; the lemmas ending in `Over` and `Owed`
  show that whatever the error handling invalidates, unmounts or stops on its way,
  the message it posts is one of them (`Lost`: a device that is given up is invalid when
  "change device" is posted for it).

`KeyDriver_proofs` proves for all keys and times, from `KeyAssumption`:

* `KeyTypeCorrect`, `LevelFollowed` and `OnlyDebounced`, from `KeyInv`, which is
  the type, `CountsBelong`, `FollowsLevel` and `FilterCounts` (the filter's count
  never says more than the readings did).
* `DriverImplementsGestures`: every scan is a step of `KeyGestures` or
  leaves its variables alone. `CountsBelong` is what the mapping needs of the invariant:
  taps that wait belong to the key the driver names (`CountsCorrect` states it by itself).
* `AwakeLongEnough` (`AwakeForItsShare`), for any number of pads and any `Active`, from
  `ShareLeft`: what has been counted off since a key was last read is no more than one for each
  pad and quiet period, of which the present one is paid in advance
  (`quiet < Active => is_key_active + (Others + 1) * quiet + Owed >= Active`).

`TwsLink_proofs` proves for any number of pages, phones and waiting events, from
`TwsAssumption`:

* `TwsTypeCorrect` and `TimerIsOne`, from the inductive invariant `LinkInv`. One
  lemma per function of `bt_tws.c` says that it keeps a sound record sound: typed,
  no timer overwritten, and `pair # "none"`, without which the scheduler
  would count past its last turn. The proof of a handler only cites them.
* `SiblingKnown`, from `KnowsInv`. `KnowsSibling` speaks of an empty queue; the
  invariant says what the events that wait still owe: the last CONNECTED or
  DETACH among them tells what the library has now, and where a removal waits
  its two events are neighbours, so that the one half handled leaves the other at
  the head. `Effect` says which fields each event's handler may touch.
* `AlwaysAwake` (`NeverDeaf`), from `Awake`: a speaker alone has something open or its timer
  armed, and the events that wait close nothing, or one of them will open something
  and those behind it close nothing (`Roused`). It needs `KnowsInv` and what the library keeps
  (`LibSane`). The case that took the strengthening is a removal: of its two events the
  first half handled must not count as the last word.

`TonePlayer_proofs` proves for any lists with paired marks, from `ToneAssumption`:

* `ToneTypeCorrect` and `FilesPlayed`, from `ToneInv`. `PlaysAFile` needs its last conjunct
  to be inductive: at an end mark the index goes back to `repeat_begin`, and only
  `InRepeat` says that this lies behind the mark of the same repeat, with a file there. The
  lemmas follow `Walk` through its two halves.
* `PlayerKeepsInterface`: the initial states map to initial states and every step to a
  step of `ToneInterface` or a stutter.

Every invariant and every action property of the passing runs is thus a theorem, each
refinement in its safety part. Model-checked only: liveness (`RequestActedOn`, `BtLeaves`, `StartUpEnds`,
`KeysReturn`, both `Settles`, `PhoneCanConnect`) and the fairness in `ImplementsTones`,
which are outside what the prover handles. Two theorems have a hypothesis on a
constant beyond the assumptions of its module: `RequestsKept` (`~CommitWindow`) and
`StartsUndisturbed` (`Stimuli` within `OrdinaryUse`); TLC finds each of the properties
violated without it.

## Findings

1. A hardware-timer request inside `app_task_exitting` is erased
   (`switch_commit_window`).
2. `app_bt_task` can start a second teardown that never ends
   (`bt_second_request`).
3. `bt_task_start` disarms a power-off under way; the power-off mode then hangs
   (`poweroff_unarmed`).
4. A request accepted after the one for the power-off replaces it, and
   `goto_poweroff_flag` blocks every later power-off (`poweroff_forgotten`).
5. A read error of a device that has been pulled out, handled when the player
   has moved to another device but no decoder has started there yet, passes the
   comparison with the magic and unmounts the healthy device (`music_late_error`).
6. A card's event that breaks off a scan is posted again at the tail of the queue. With a later event
   of the same card already waiting the two are handled in the wrong order: a card that
   is gone is in the list, or one that is plugged in is not (`music_repost`).
7. A link or page that ends after `bt_tws_poweroff` starts the TWS scheduler
   again, and its timer survives the stack (`tws_exit`).

## Plan

Done: `AppTaskSwitch`, `BtMode`, `SoundboxModes`, `DevList`, `DevManager`,
`MusicPlayer`, `KeyGestures`, `KeyDriver`, `ToneInterface`, `TonePlayer`, `TwsLink`, and
the proofs of the kernel, the modes, the device list, the music mode, the key driver, the
tone player and the TWS link. Next, in
this order:

1. `BtConnect`: reconnection, page and inquiry scan and their timers
   (`bt_wait_connect_and_phone_connect_switch`, `bt_wait_phone_connect_control`),
   composed with `BtMode`, whose teardown must stop them.
2. `FileDecoder`: `audio_dec_file.c` with the decoder task, the end event and its id,
   preemption by a tone and resumption; an abstract decoder (closed, waiting,
   playing, paused) for it to implement and `MusicPlayer` to use.
3. In `MusicPlayer`: pause, previous device, deletion, play by number, the
   break point's file and device, cycle modes.
4. How a pad turns voltages and codes into keys, the line-in filter, the clock manager's
   demands, the FM scan and the record writer's double buffer, as far as runs allow.

Not modelled, and why: the protocol below the events of the TWS library and the
Bluetooth stack (binary libraries), the charging box, PC, record, SPDIF and RTC modes (off on this
board), user interface, USB and register-level drivers (no decision about modes),
update (ends in a reset into a binary loader).
