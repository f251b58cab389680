# LeopardWM in TLA+

LeopardWM is a scrolling tiling window manager for Windows: a Rust daemon keeps
a strip of columns per workspace and monitor, listens to window events, takes
commands over a pipe, hotkeys, gestures and menus, and puts the windows where
the strip says. This directory models the parts of it where order, failure and
concurrency matter, checks them with TLC and proves the safety of several of
them with TLAPS. Paths are relative to `src/crates/`; `PROJECT.json` maps
every definition to the lines it models and lists the hazards the properties
are for.

## 1. Inventory

State, operations and what makes each part correct.

| Part | Code | State | Operations | Correct when | Model |
|---|---|---|---|---|---|
| Workspace, command and event handlers | `core_layout/src/{column,workspace/*}.rs`, `daemon/src/{command_handler,event_handler,ui_sync,main}.rs` | columns with rows and an active tab, focus, floating and minimized windows, fullscreen; `previous_focused_hwnd` | insert, remove, focus, move, swap, tab, minimize, float, fullscreen; window events | a window has one place, focus and tabs follow the windows they named | `Workspace`, `Strip`, abstract `Desk` |
| Sizing, scroll, rectangles | `core_layout/src/{workspace/{sizing,layout,operations},animation,types}.rs` | widths, heights, scroll offset | resize, cycle, equalize, placements | the focus is in view, tiles fill their column and stay off other monitors | `Scroll`, `Tiles` |
| Layout application | `daemon/src/layout_apply.rs`, retry and shutdown in `main.rs`, pause in `helpers.rs` | worker handle, epoch, cancellation, last layout, retry generation and timer, pause | apply, time out, defer, retry, recover, pause, cascade, shutdown | one thread places at a time, nothing a late thread did stays | `ApplyLayout` |
| Placement mover | `platform_win32/src/placement/mover.rs` | slots with generations, ready queue, call in flight | mark, seal, frame, cancel, forget, and the thread | the last target wins, a cancel holds, corrections end | `PlacementMover`, `Retain` |
| Win32 placement | `platform_win32/src/{placement,visibility}.rs` | records of queued moves, cloak reasons, inset caches | queue, land, park, cloak, measure | the window ends where and as it was last asked, insets are its own | `Placement`, `Insets` |
| Windows that move by themselves | `daemon/src/{event_handler,layout_apply,main}.rs` | acknowledged rectangle, maximize and settling marks | moved, maximized, restored, fullscreen | a tiled window returns, a floating one keeps its place | `Drift` |
| Maximize box | `platform_win32/src/window_style.rs` and its callers | taken boxes, worker queue, request in flight | take, give back, three rescuers | nobody is left without a box | `Boxes` |
| Window rescue | `platform_win32/src/visibility.rs` | positions, waiting owners, deadline | shutdown pass, emergency | no window stays outside the monitors | `Rescue` |
| Monitors, workspaces, sticky windows, scratchpad | `daemon/src/{monitors,sticky,scratchpad,helpers}.rs` and handlers | workspaces per monitor, stashed layouts, pins, scratchpad slot | reconcile, switch, move, pin, stash, toggle, prune, follow | no window lost, doubled or left as a ghost; layouts come back | `Desktops` |
| Quit fallback | `daemon/src/quit_fallback.rs`, `tray.rs` | one atomic byte, a channel, deadline thread | arm, started, complete, take over, restore | one side wins, never early, the process ends | `QuitFallback` |
| Animation worker, transitions | `daemon/src/{animation_worker,transitions,physical_placement,temporary_ignore}.rs` | frame queue, barrier, ghosts, fades, request ids | queue, barrier, abort, finish, reapply | recovery waits for idle and comes, no window is cloaked without a picture | `Frames` |
| Overview, tab strip | `platform_win32/src/{overview,tab_strip}.rs`, `daemon/src/{overview,ui_sync}.rs` | overlay windows with threads of their own, input session, bitmaps | show, refresh, hide, click, key, draw | open for the daemon is open on the screen, keys keep their order, what is drawn is what is believed | `Overview`, `TabStrip` |
| Admission | `daemon/src/{window_rules,temporary_ignore,managed_lifetime,recreated_window_slot,startup}.rs` | identity tokens, ignored windows, reserved slots | admit, depart, ignore, rejoin | an event of an old window never touches a new one with its handle | `Lifetimes` |
| Drag | `daemon/src/drag.rs`, `platform_win32/src/mouse_hook.rs` | source slot, placeholder, removed flag | start, preview, drop, cancel | the window returns or lands, once | `Drag` |
| Processes | `watchdog`, `cli/src/daemon_cmds.rs`, `daemon/src/startup.rs` | crash times, mutex, pipe | start, stop, crash, restart | restart budget, no windows left hidden | `Supervision`, `Retain` |
| IPC server | `daemon/src/{ipc_server,workspace_ipc,events}.rs`, `ipc/src` | permits, subscriptions, revisions | connect, ask, subscribe, lag | a snapshot is one state, no client starves the server | `EventStream` |
| Persistence | `daemon/src/persistence.rs`, `main.rs` | requests, writers, the file | save, crash, restore | the file is whole, windows come back | `SavedState` |
| Input | `platform_win32/src/{keyboard_hook,hotkeys,gestures,raw_touchpad}.rs` | swallowed keys, modifiers, contacts, hook threads | keys, reports, reloads, recording | a press acts once, one swipe per touch, nothing after a stop | `Keys`, `Touch` |
| Region clipping proof | `platform_win32/src/clipping_proof.rs` | three processes, window region, recovery file | clip, kill, recover | a passing case leaves the window as found | `Clipping` |
| Borders, overlays, dialogs, toasts, tray, configuration, settings, CLI formatting, locale, logging, updates, packaging, Win32 queries | the other files | data | drawing, parsing, OS calls | | not modelled |

**How they interact.** One main thread owns `AppState` behind a lock and
handles one message at a time from a bounded FIFO channel (window events, IPC
commands, hotkeys, tray, timers, display changes). Commands change a
`Workspace`, then call `apply_layout`, which hands the placements to a
**worker thread** and waits a bounded time; then the foreground window is
synchronised. Placements reach windows directly or, for windows that ignore
queued moves, through the **mover thread**. An **animation worker** sends
frames; the **overview** and each **tab strip** have window threads of their
own; a **style worker** takes and gives maximize boxes; the **keyboard hook**
and the **gesture thread** feed the main loop. Windows come, go and take the
foreground on their own; what the daemon knows of it is events that may be
missing, late or repeated. A **console handler thread** and the **deadline
thread** of the tray Exit share only atomics and a few tables with all of this.
A separate **watchdog** process restarts a daemon that crashes.

**What is hard.** Threads that cannot be killed and come back late (a call into
a hung window); numbers kept over a change (column and row, tab menus, floating
origins, stashes); locks let go in the middle of a handler; handlers that
return early when an apply fails; events that were missed; timers aborted after
they fired; displays that come and go while windows die or are restored;
recycled handles; a crash between a write and a rename.

## 2. The modules

A module's opening comment says what of the code it stands for and what it
leaves out. What follows is the correspondence and the assumptions that matter.

**Workspace, Strip, Desk.** `Workspace` has the operations of one workspace as
operators on a record `[cols, fc, fr, floating, full, minimized, origin]`; `fc`
and `fr` are the focused column and row counted from 1, `tab = 0` is a stacked
column, `origin` is `float_origin_column` with its neighbour. `Strip` adds
`tracked` (`previous_focused_hwnd`) and one action per handler, with the
trailing `apply_layout` (which may fail) and `sync_foreground_window`. Tab
menus may act on old coordinates; windows open at every place a rule or a
recreated slot can choose; the configuration values read at each use are free
at every step, since a reload may change them. `Desk` is what a workspace
promises whatever its columns look like; `ImplementsDesk` says that `Strip`
implements it under `managed <- Managed(ws)`,
`hidden <- ws.minimized \cap Managed(ws)`, `full <- ws.full`. One monitor and
workspace, no pause, no edge wrap, only automatic admissions.

**Scroll, Tiles.** The arithmetic, in pixels: `Scroll` has requested widths,
learned minima, presets, equalizing and the offset with its target, retargeted
during an animation (one midpoint stands for the easing); `Tiles` has heights
and weights, gaps, bleed and where scrolled and hidden windows are put, against
what the rectangles should cover. One window per column in `Scroll`; no floating
windows and no scale factor in `Tiles`: gaps and bleed are numbers of pixels.

**ApplyLayout.** `main` is the program counter of the main thread inside and
outside `apply_layout`, `wpc` that of each worker, `console` that of the signal
thread. A *layout* is a complete set of placements; `screen` is the last one
placed, or `"late"` (placed by a worker that was given up), `"mixed"` (failed
half way), `"recovered"`. `apply_epoch` is compared for equality only, so it is
kept as the set of workers that are still current. A worker may stop at any of
its steps for ever, fail, or panic. Thread slots are reused. Assumed: no
transition or idle reapply in progress, some window always to be placed, and
the last window placed stands for the set.

**PlacementMover.** One `slots[w]` record per window as in `Slot`, the `ready`
queue, the call in flight, the program counter `pc` of the thread with its
`job`. Callers of `seal` observe the window without the lock and then decide
with it: two actions, with anything in between. `cancel` returns when nothing
is in flight or after its bounded wait. `goal`, `late`, `held` and `stale` are
history and are read by no action of the code. Assumed: one seal and one cancel
in progress at a time; nobody else moves a marked window; a call without error
has moved the window. `Retain` is `Vec::retain` as a recursive function, which
proofs can unfold.

**Placement, Insets.** `Placement` follows one window through queued moves of the
animation worker, synchronous landings of a layout thread, parking and the
cloaks that several threads hold. The window manager is taken to obey
cloaking; maximized windows, failed moves and direct cloaks are left out. A
record judged drained by a coincidence of positions (`placement.rs:1647`) lets a
queued move overtake, which the model shows and the property excepts. `Insets`
is the cache of frame insets of one axis, with the generation of the cache,
measurements tried again and the minimum that is believed once it was seen twice.

**Drift.** One window and the events `MovedOrResized`; `excused` is a history of
the reasons why a window may be elsewhere (settling, gave up, refused, failed,
left fullscreen, never placed, awaiting its restoration).

**Boxes.** The worker with its request in flight, the four shared tables, and
the session-end handler, the shutdown that gave up waiting and the quit
fallback as rescuers; handles are not reused (tokens tell a window from the
same window readmitted), an owner that does not answer is a
delay. All boxes are asked back, or taken, in any order: the code goes through a hash
set or map. **Rescue.** The two passes of `visibility.rs`; moves queued without a
record (`blind`) and silent owners already marked (`silent`) are what the
passes cannot see, and are excepted; monitors that cannot be read are left out.

**Desktops.** `desk[m][i]` is workspace `i` of monitor `m` as three sets,
`stash[m]` the `StashedMonitorLayout`, `pad` the scratchpad slot, `os` what
Windows says of each window. `DisplayChange` is one reconcile followed by the
minimized resync and the possible adoption of the foreground window; displays
may leave, return and be swapped together; arriving monitors are handled one by
one in any order, leaving ones after them. The loop over the arriving ones is
given by its result (`Arrived`): each gets its stash without the windows that
stashes later in the order pull off it. `home` is history: where the user
last had a window (`at`), frozen while a stash remembers it, and whether two
stashes have held it at once since (`chained`). Assumed: monitors are known by
device name and handle values are not handed to another display; window handles
are not reused; no pause, drag or refused admission; events are handled when
they happen; a minimized window is not hidden.

**QuitFallback.** All threads of one Exit click, the byte, the wake-up channel
and three values of time. The tray's update and its spawn are separate steps;
the deadline thread's load and compare-exchange are, too.

**Frames, Overview, TabStrip.** Handlers of the daemon that let the lock go or
send a message to another thread are several steps; `todo` and `work` hold
what a thread had read before. `Frames`: one daemon lock, one worker, ghosts
and fades; the worker does not die. `Overview`: the overlay's timer tick and
paint drop the lock; keys are put off behind a move and replayed. A probe of
`Frames` is answered in time only by a worker that has nothing to do, and even
then it may time out, as `animation_worker.rs:176-182` says; its barrier stays
in the queue and is marked `late` if the worker was idle. The 100 ms of the
drain before an unmanage are a probe like the others. `TabStrip`:
drawing is begun, put on the screen and ended, from two threads; positional tab
actions of stale menus are in `Strip`.

**Lifetimes, Drag.** `Lifetimes` has the WinEvent queue in order, tokens on
recycled handles, temporary ignore, sleep and resume with reserved slots.
`Drag` edits the real strips at every hint; what the pointer is over is an
input. A preview takes the window out of its workspace (`out`); a refresh or a
reload meanwhile lists all windows, finds that one in no workspace and gives it
a column, of which the drag does not learn. `refound` is history: the dragged
windows for which this happened. What `DragSound` says of the place of a
dragged window, and of where a drop and Shift put it, it says of the others; that
these may end in two workspaces is said among the findings.
Floating windows, resizes, minimized marks and focus are left out.

**Keys, Touch.** The hook's statics with two sources of keys, the recorder and
the reloads; the pad's reports, the statics shared by successive gesture
threads, the forwarder. Left out: menu-mask taps, keys released behind the lock
screen; unreadable reports, a second pad, diagnostics.

**Supervision, EventStream, SavedState, Clipping.** One launch slot per
watchdog or bare daemon; permits, subscriptions and the lagging broadcast, with
revisions that wrap; the steps of a save with its writers and a crash between
any two; the native test harness with its deadlines and faults. For empty,
simple and complex cases a clip equals the original region, so `Clipping`, like
the matrix, cannot see a restore that does nothing there.

**MC modules.** `MCStrip` extends its module; `MCDesktops` explores three sizes of
`Desktops`, of which the initial state picks one. `MCThreads`
(`QuitFallback`, `Frames`, `Overview`, `TabStrip`), `MCWindows` (`Lifetimes`,
`Drag`), `MCPlacing` (`ApplyLayout`, `PlacementMover`), `MCEdges` (`Keys`,
`Supervision`, `EventStream`, `SavedState`, `Touch`, `Rescue`, `Clipping`) and
`MCGeometry` (`Scroll`, `Tiles`, `Placement`, `Insets`, `Drift`, `Boxes`)
explore components that share no state side by side: `Init` picks the `part` that moves, the
others rest. Their properties are those of the parts: `part = "x" => X!Prop`.

## 3. Runs

| Run | Instance | Shows |
|---|---|---|
| `threads` | 2 ghosts, 2-frame fades, 2 failures, 4 keys, 2 tabs, 2 clicks | one side of the Exit wins, never early, and the click ends (`OneWinner`, `RestoreAfterCancel`, `TakeoverOnTime`, `QuitEnds`); nothing cloaked without a picture, the strip's picture is what is believed (`PicturesSound`); a recovery that waits for idle runs unless a probe of an idle worker times out (`RecoveryRuns`); every overview key is answered in order (`KeysAnswered`) |
| `windows` | 2 handles, queue of 3; 3 tiles, 2 displays | `LifetimesSound`, `DragSound` |
| `strip` | 3 windows, failed applies, stale menus | `WellFormed`, `FullscreenHolds`, `OthersKeepFocus`, the refinement `ImplementsDesk` |
| `strip_wide` | 4 windows, at most one set aside, applies succeed | `FocusFollowsMove`, `TabsRemembered`, `FocusAgreementKept` |
| `placing` | 2 layouts, 2 thread slots; 2 windows, 3 marks | `OneWorker`, `StalledRecovered`, `FastPathSound`, `SuppressionSeen`, `ExitRecovered`, `MoverSound` |
| `placing_live` | 1 layout, 1 slot, 2 retries; 2 marks | `RetryOnTime`, `RetryResolved`, `SignalEnds`, `CorrectionsEnd` |
| `desktops` | 2 windows, 2 monitors; 1 window, 2 monitors of 2 workspaces; 1 window, 3 monitors | `WindowsAccounted`, `ComeBackWhole` |
| `edges` | see `MCEdges.cfg` | `InputSound`, `SupervisionSound`, `StreamSound`, `BroughtBack`, `SavedStateKept`, `ClippingSound`, `NoneStuck` |
| `geometry` | see `MCGeometry.cfg` | `ScrollSound`, `LandingsSound`, `DriftSound`, `BoxesSound`, `TilesKept` |
| `overview_stuck` (violation) | `Overview` | a toggle while the close animation ends leaves the overview open, hidden and without its keys |
| `lost_drop` (violation) | `Drag` | a window dragged out of a stacked column and dropped on nothing is in no workspace |
| `replug` (violation) | 3 monitors, 1 window | two monitors that leave in turn: the second to return takes the windows of the first |

Each property of a passing run also has a mutant: a named variant of one
definition (comments say "Variant") under which the same run fails.

**Bounds, and why they are enough.**
*Three windows* on a strip give a column before, at and after the focus, or a
two-row tab group and a neighbour, which is where the index repairs differ;
moves past a minimized column need a *fourth*, and with four the number of
windows set aside is bounded (`FewAside`). *Two thread slots* are one more than
the code may use; *two layouts* tell a stale record from a fresh one; a
*second retry generation* is what makes the message of an aborted timer a wrong
one. *Three marks* of the mover give a seal, a cancel and a later seal or
lifetime. The three instances of `Desktops` in `MCDesktops` are explored whole, without a
constraint, and vary one number each: *two windows* displace each other from the
scratchpad and share a stash, *two workspaces* are needed for switches, pins
and layouts of which only a part is shown, *three monitors* for a chain of
stashes and for returns in any order. Two monitors allow migration, return
and swap, but no chain; the steps of `Desktops` relate two windows only through
the scratchpad, the focus and the emptiness of a stash. `SnapBack` fails for a
window that two stashes hold at once (`replug`); `SnapsBackUnchained` excepts
these windows and no others. `NoStaleMark`, the other half of `ComeBackWhole`, excepts one step, a window that is put
in a workspace where it left its mark as a floating window (`remove_floating`
keeps the mark, see the findings). `Accounted` is proved without any bound.
*Three tiles* and one event besides the drag let a column be shared, left and found again.
*Two ghosts* let one be withdrawn while another fades; *two handles* with
tokens give an old window, its successor and a bystander. *Two launches and
users* race for the mutex; *two restarts in a window of two* reach the restart
budget. *Two clients and one permit* make one wait; a *revision bound of one*
makes revisions wrap. *One save in flight and two moves* let a change overtake
its writer; *three touches* let a swipe follow a blocked one. *One late owner
and one hang* make the emergency's deadline bite. `Boxes` has one window, two
tokens and a queue of two in `geometry`; two windows with one token and a queue
of one (5.8 million states) hold as well.

**Symmetry** is used for safety only (windows, monitors, layouts, thread slots:
no definition tells them apart). **Deadlock** is checked in the runs of `Strip`
and `Desktops`; in the composite runs budgets (inputs, marks, generations, asks)
run out, so a state without a step is normal there and the liveness properties
say instead what must not be stuck.

**Fairness.** `QuitFallback`: weak fairness of the deadline thread, which the OS
schedules and whose waits are all timed, and of the clock; none for main, tray
and restore thread, which is the situation the fallback exists for.
`ApplyLayout`: weak fairness of the main thread's steps inside an apply and a
shutdown (`recv_timeout` returns) and of timers; strong fairness of handling a
retry or shutdown message, because the event channel is first in first out and
handled by a main thread that may be busy, but returns, again and again; none
for workers. `PlacementMover`: weak fairness of the thread, which assumes that
Win32 calls return (a comment in `mover.rs:303` accepts that they may not), and
strong fairness of the two-second deadline, since time passes while the thread
is at other windows. `Frames`, `Overview`: the threads run and queued events
are handled. The timer of the idle reapply fires, but nothing is assumed of the
scheduler: the 1 ms probe may time out at an idle worker, again and again, and
keep a recovery waiting (`animation_worker.rs:180-182` accepts it). `RecoveryRuns`
therefore says what is left: without such a timeout nothing keeps it waiting for
good, and the fairness is that of the probes that are not late (`Fires`), so
that no recovery is saved by a timeout that need not come. `EventStream`: the daemon handles its queue, a client that asked
reads its answer and the server writes it; subscribers owe nothing. `Clipping`:
the supervisor runs and deadlines pass. `Rescue`: the emergency's thread runs
and its deadline passes; the owners owe nothing.

## 4. Findings

The three violation runs; `findings` in `PROJECT.json` quotes the line each one
disagrees with.

Disagreements met while modelling that have no run of their own (each is a
property that TLC refutes, or a reading of the code, left out for space):

- *Boxes*: a window readmitted under a new token while its restore is still
  queued loses its box for good (`window_style.rs:508`, `:590`,
  `managed_lifetime.rs:27`; `CHANGELOG.md:1171`); the property excepts it by the history `crossed`.
- *Drift*: a window opened maximized and restored by the user during a frame or
  a display change is never snapped back (`event_handler.rs:3432`;
  `CHANGELOG.md:439`).
- *Keys*: leaving the recorder forgets the key it captured, so the repeats of a
  key still held reach the application (`keyboard_hook.rs:366` against the comment at `:106`).
- *Supervision*: two daemons can start at once (`startup.rs:162`,
  `main.rs:3680`; `README.md:268`).
- *SavedState*: an older debounced write still under way may be renamed over
  the one of the stop (`persistence.rs:42`, `main.rs:2626`; `CHANGELOG.md:811`), so `SessionRestored`
  speaks of stops that no other write raced; the signature
  leaves out the tab mode and the active tab (`README.md:248`).
- *Scroll*: with room to center past the edges, some paths still clamp the
  target at the edges (`operations.rs:116`, `:612` against `mod.rs:94`).
- *Touch*: a report of more than five contacts blocks the touch, but its
  continuation with a count of zero lifts the block (`raw_touchpad.rs:228`, `:309`).
- *TabStrip*: a drop joins the strip's thread with the lock held
  (`tab_strip.rs:1515`), the deadlock hazard without a property.
- *Frames*: pausing while a ghost fades can leave its source cloaked
  (`helpers.rs:924` against `transitions.rs:334`).
- *Drag*: a refresh or a reload in the middle of a drag gives the window that a
  preview took out a column of its own (`window_rules.rs:201` asks
  `find_window_workspace` alone), and the drop puts it in a second place, so that
  it is in two workspaces (`CHANGELOG.md:1156` and `ipc-events.md:140` say
  otherwise). TLC refutes `NeverTwice`: x is dragged out of a column it shares
  with y, a refresh puts it on q, the drop on p puts it there too.
- *Desktops*: a floating window that leaves a workspace while it is minimized
  leaves its mark there (`mod.rs:245`), and is left out as if minimized when a
  command puts it there again, shown.
- *Overview*: a paint under way when the state changes leaves an older frame as
  the last one (`overview.rs:2908`, `:586`).
- *Strip*: minimizing the focus can land on another minimized window
  (`event_handler.rs:2757`, `tests.rs:11398`); closing a one-window column
  overwrites the remembered tab of the next one; a foreground event switches
  the workspace and leaves pinned windows behind.

## 5. Proofs

Eight modules, checked by tlapm to the last leaf, for every value of the
constants under the assumptions the modules name. A composite module's theorem
says that the invariant of a part holds whichever part moves, since the
others rest in their initial states. Each invariant was first checked by TLC.

**LifetimesProofs**, the end of the process. No constants. `OneWinner` is not inductive: that the
loser of the compare-exchange does nothing depends on how far both threads are.
`IInv` adds `Progress` (which states of the byte go with which places of main
and of the deadline thread), `Decision` (what the deadline thread can have
loaded) and `EpochAccounting` (each side bumps once, after cancelling). From it
follow `OneWinner`, `RestoreAfterCancel` and the action property `TakeoverOnTime`.

Its larger part is `LifetimesSound`, for any number of handles, steps and
events in flight (`LifetimesAssumption` bounds nothing: it says that the two
limits are numbers and which shapes there are). What the daemon believes is
compared with what will still be told, so `LifeInv` speaks of the queue. For
each handle, `Stamps`: tokens and lifetimes only grow, and the recorded lifetime
is the one on the handle exactly if the recorded token is. `Departs`: a recorded
member that is gone has a `destroyed`, one that is hidden has a `hidden`, on its
way. `Arrives`: a window on the screen that is neither a member nor kept out
has a `created` on its way, or is noted as too small and a `changed` comes if
it has grown since. `Answered`: what hid or ended an earlier window of a handle
that is on the screen now is followed in the queue by the word that it is there;
this is why an event believed wrongly loses nobody for good. A toggle that
waits with a token which is no longer on the window has a `created` ahead, too.
`InOrder`: times are coarse but never decrease along the queue, and no event is older than an
admission before it, so the timestamp guard of `Hidden` never drops one: with
one queue in order it is a second line of defence. `AdmitAdmits` says what an admission
makes of any record it may start with; `TakeStep`, `QuietStep` and `PostStep` what
a step has to show that takes an event, leaves the queue or posts, and one lemma
per action follows. `RejoinStep` is the action property.

**PlacingProofs**, applying a layout. For every number of layouts, slots and retry generations.
`IInv == TypeOK /\ Safety`: `Accounting` - any worker there is, is the awaited
one or in `pending`; this makes `OneWorker` hold across timeouts.
`Generations` - a retry is one that was given out and marked used. `Epochs` - a
pending worker is not current, a suppressed one is remembered as such.
`Cancelling` - the latch is never reset. `Pausing` - a timeout has paused, and a
stalled daemon has no current worker. `NoTrace` - stalled or ended, the screen
is recovered or somebody still has to recover it: the part that
`StalledRecovered` and `ExitRecovered` lack, as they speak only of the moment
when all have ended. `Confirmed` - what the fast path trusts is on the screen
and no worker was left since.

Its second part is the mover: `MoverSound` for any windows, targets and marks
(`PlacementMoverAssumption`: `MaxGen` is a natural number, targets are not
marks). `MoverInv` has the types and four parts. `JobFits`: the thread works on
one window with one target or correction, for a slot that can only have
become newer since. `Queue`: the ready queue has no window twice, every
window in it has work, and all work is queued or in flight, which is why the
unwrap of the thread cannot fail. `SlotFits`: a slot's
lifetime and last cancel are not newer than its generation, and it asks for one
thing at most. `WindowFits`: the last target asked for is in
the slot, in the thread's hands or on the screen (`Promised`); a completed
correction is still where it was put (`Completed`); a late move has somebody to
undo or follow it (`Recovers`); a window held by a cancel is quiet; a frame
prepared before has a smaller generation. One lemma per action from `Marking` to `Finishing`, and
`HeldStays` for the action property.

**RetainProofs.** `Retain` of any sequence and set: what it keeps, in which
order, each once. The prover has no induction over data, so the lemmas
take the least length that would be an exception (`LeastNumber`, from the
well-foundedness of the naturals) and unfold the recursive function once. The
mover's queue, the watchdog's list of crash times and the gestures that the
forwarder drops rest on them.

**EdgesProofs.** `SavedInv`: what was asked for last is the screen while the
daemon is up (`AskedIsSeen`), and after a stop that nothing raced the only
writer left, or the file, has the screen (`StopIsLast`); with it
`SavedStateKept`, its action property on restored sessions included, is
inductive. `RescueInv`: a recorded move is the last one of its window
(`Recorded`), and every window a pass answers for ends on the screen or is
ahead in its list (`PassLeft`), or, in the emergency, was late in time or has a
thread that is waited for (`EmergencyLeft`); it gives `BroughtBack` for any
number of windows and owners (`RescueAssumption`: the windows are finite and
no window is a step of a pass).

Of the watchdogs, `SupervisionInv`: `NoneLeft` (a watchdog that is not
waiting for a daemon has none), `Answered` (windows left hidden have a daemon
that tiles or cleans up, or a watchdog that will hear of its crash, or has),
`Timed` (the crashes a watchdog remembers are the last of its restarts, and
what it has forgotten has left the window) and `CrashBudget`, for any number of
launches and users. `Retain` enters where old crashes are forgotten.

**InputProofs.** `InputSound` joins two parts, each with its invariant.
`KeysInv`, for any hotkeys, keys and remappers: `HeldAlive` (what the hook
holds, swallows the release of or counts as a modifier is down, or its release
is the key in the callback), with `ServedHeld` (a press that acted is held, so
that no repeat of it is new, but for the moment of a reload in which no hook is
on). That the hook records exactly while the page does takes both ends of a
channel: `RecorderFits` says that the last mark on the wire to the daemon is
what the page shows (`LastMark`), and that with no mark on its way the hook
records if and only if the page does, will after the reload that is under way
(`WillRecord`), or has a chord on its way back (`Heard`). `MarkAdded`,
`MarkTaken` and their like say what sending and reading do to the last mark.
`TouchInv`, for any number of threads, points and pauses: `OneThread` (the
daemon holds one thread or waits for a retired one, only these may be hooked,
and the sender that is shared belongs to the one held), `Paced` (150 ms after a
scroll the engine is still cool, and what it carries over is less than a
notch), `SwipeOnce` (fingers that have not swiped leave nothing to count) and
`Prompt` (a gesture that is late comes from a registration that was cancelled,
and none of them reaches the queue of the main thread). The forwarder drops a
thread's gestures with `Retain`.

**StreamProofs.** `StreamSound` for any number of clients and any capacities
(`EventStreamAssumption`: capacities are positive numbers). The frames of a
connection pass through four hands (the receiver of the broadcasts, the frozen
snapshot, the pipe, the reader), so no part of the state says alone what the
client will have put together. `StreamInv` therefore claims, for each client
that reads, a tape: a function from places to frames on which everything that
was or is still to be written stands in order. `Grammar`: snapshots are whole
on it, unless word of a loss cuts one off, after which nothing comes.
`ReadUpTo`: the reader's state is a function of its place on the tape and its
last snapshot. `Piped` and `Ahead`: the pipe, the frozen snapshot and the
receiver hold the next pieces of it, in this order, and the handler is inside a
snapshot exactly when its place is. `Newest`: the last snapshot on the tape is
of the moment, or one that cannot be framed is to come. A broadcast writes at
the end of the tape or, when the receiver overflows, cuts it where the handler
is and ends it with word of the loss (`Offers`); a keepalive is the one frame
that is inserted before others (`Insert`), which is why it must wait for the end
of a snapshot. One lemma per action follows.

**DesktopsProofs.** `Accounted` for any windows, monitors and workspaces
(`DesktopsAssumption`: at least one workspace, finitely many monitors).
`DesktopsInv` adds `StashesFit`: no window is twice in one stash, without
which a layout that returns could double a window. The steps share their
primitives, so the proof does: for `Detach`, `PutAt`, `Migrate`, `Rehomed`,
`Resynced` a lemma says that a typed desk with one place per window and
nothing on monitors that are away (`DeskFits`) stays one, and which places each
window has afterwards. `ArrivedFits` is the hard one: of the stashes that hold a
window the last to arrive keeps it, all others and all workspaces lose it (the
greatest index exists because an order is finite). `MigratedFits`: the windows
of the monitors that leave move without one being doubled or lost. One lemma per
action follows, `DisplayChangeStep` from these two.

**GeometryProofs.** `BoxesSound` for any finitely many windows, tokens and
waiting requests (`BoxesAssumption`). `BoxInv` has, of the worker and the tables,
`Hand` (the published request is the one in hand), `Accounts` (a restore counter
is the number of restores in the queue and in hand, a cardinality that every
step on the queue has to keep) and `Phases` (the barrier is the last request).
The rest speaks of one live window at a time. `Fresh`: whatever waits for it
is for its present lifetime. `Turns`: removals and restores take turns in the
queue and in the worker's hand, and a removal that the daemon no longer wants is
followed by a restore; this is what makes a box that is missing come back even
though the tables have forgotten it. `Known`, `Rescue` and `Taken` then say
who knows of a missing box, what a rescuer has still to see and that the box of
a tiled window goes. Lemmas about the queue come first (what remains true of it
when a request leaves or a request for each window of a set, in any order, is
added), then one lemma per action; `Rests` spares each of them the windows it
does not touch.

**Only model-checked.** Liveness (`QuitEnds`, `RecoveryRuns`, `KeysAnswered`,
`RetryResolved`, `SignalEnds`, `CorrectionsEnd`, `NoneStuck`) and ENABLED are out
of the prover's reach. So is what a recursive definition computes for every
input, beyond the least-counterexample argument above, and with it the folds
over the columns of `Workspace`. `ClippingSound`,
`DriftSound`, `ComeBackWhole`, and everything about `Strip` with its refinement of `Desk`,
`Drag`, `Frames`, `Overview`, `TabStrip` and the modules of
`MCGeometry` other than `Boxes` is checked and not proved yet.

## 6. Plan

Modelling is as complete as the runs allow; the components left out are in the
inventory. What is left to prove, in order:

1. `ComeBackWhole`; the lemmas of
   `DesktopsProofs` about places and stashes carry over to `home`.
2. `LandingsSound` of `Placement`, `DragSound`.
3. `WellFormed` and the steps of the refinement of `Desk`, as far as the
   operations on columns do without folds.

Not planned: drawing, window procedures, configuration and settings, locale,
logging, packaging. They have little state or none that outlives a call, and
what they ask of the rest arrives as commands and events that the models
already take in any order.
