# LumenShell, specified

LumenShell is a desktop shell for Wayfire written in Vala and C: a panel, a
launcher drawer, a desktop, a lock screen, a notification daemon, an OSD, a
polkit agent, a session daemon that restores display layouts, a settings
program, the C library `wlhooks` that speaks the Wayland protocols GTK does
not, and a set of C++ plugins of the compositor. Each program is one GLib main
loop, and the plugins live in the compositor's; what makes them hard is what
these loops interleave: timers, bus calls, Wayland events, frames, worker
threads that post their answers back, animations, and child processes that
outlive what they were started for.

This directory holds TLA+ models of the parts whose behaviour is made by such
interleavings, TLC configurations that check them on small instances, and
proofs checked by TLAPS for every instance. All line numbers are of the
repository this directory is kept beside.

Run, inside this directory:

    tlc -workers 2 -config LockScreen.cfg MCLockScreen.tla
    tlapm AuthenticationProofs.tla

## 1. Inventory

The parts, the state they keep, what they do, how they meet, and what would
make them correct. "Modelled by" names the module; parts without one are in the
plan of section 2 or in section 7.

### lumen-lockscreen (modelled by `LockScreen`)
*State*: `LockManager` holds the session lock instance, whether the lock was
granted, the lock window of every monitor and which one carries the password
card, a flag that a PAM worker is running, the failure count, the generation of
the lock, the backoff timer, the 4 s suspend timer; `LogindBridge` holds the
delay inhibitor; `idle_notify.c` holds the idle notification.
*Operations*: lock (bus, idle, suspend), unlock (bus, logind), the
compositor's `locked`, `failed` and `unlocked`, a submitted password and the
PAM verdict, the backoff's end, monitors coming and going, PrepareForSleep in
both directions.
*Hard*: the verdict of a PAM thread arrives after anything may have happened;
hotplug moves the card while an attempt or the backoff is on; a suspend has to
be held until the lock is on screen, but not for ever.
*Correct when*: under a granted lock every monitor has one surface and one has
the card; no card takes input while a verdict is due; a verdict unlocks only
its own lock; the inhibitor is there for the next suspend and is not dropped
under a request; idle locking is armed whenever the session is open.

### lumen-session, display profiles, wlhooks output management (`SessionRestore` on `OutputManagement`)
*State*: `output_management.c` mirrors the compositor's heads in a fixed array,
with the last serial and the set of connectors last announced; the daemon has a
pending idle callback; the profiles on disk are keyed by the set of monitor
identities.
*Operations*: dispatch of head, state, finished and done events; roundtrip;
build a configuration, apply it and wait for its result; queue and run a
restore.
*Interaction*: the restore blocks in roundtrips that dispatch events, and those
fire the callback that queues another restore.
*Hard*: the mirror is as old as the last event dispatched; serials race; an
apply causes events of its own; two monitors of one model share an identity.
*Correct when*: no hotplug is lost and none is answered twice; only a layout
remembered for the monitors connected is ever applied; no screen goes dark for
good; the mirror is exact after every done.

### lumen-notifications (`Notifications`, implementing `NotificationServer`)
*State*: the store of notifications with their expiry timers, the active
banners, those whose leave is animated, the running "Clear all" cascades, the
window.
*Operations*: Notify with and without a replaced id, CloseNotification, click on
the card or an action, expiry, cascade tick, the end of an animation.
*Hard*: five ways to close one id in any order; a replacement while the old
timer is due; overlapping cascades over ids that close under them.
*Correct when*: each id is closed once and reports no action afterwards; timers
belong to what is stored; the stack shows the store; the window is up exactly
as long as needed.

### lumen-polkit-agent (`AuthFlow`)
*State*: per request a coroutine, the running `PolkitAgent.Session`, the chosen
identity, the attempts, the dialog's sensitivity, the cancellable.
*Operations*: run, session request/completion, submit, identity change, cancel
from the dialog and from polkitd.
*Hard*: `initiate` and `cancel` may complete the session from inside the call,
so the handlers nest; a success races two cancellations for one answer.
*Correct when*: a grant was earned by the identity shown last; a request in
progress always has a session and a usable dialog; an answer stands.

### lumen-settings, Display page (`DisplayPage`)
*State*: baseline and working copies of the output list, selection, drag, the
trial's countdown and banner, a pending reload, the saved profile.
*Operations*: edit, drag, apply, keep, revert, countdown, hotplug pump, reload.
*Hard*: a hotplug, or another client's change, between any two of them.
*Correct when*: lists, banner and countdown belong together; the page does not
turn off the last display; a trial that is left alone ends; every hotplug is shown.

### lumen-osd and lumen-osdctl (`Osd`)
*State*: a window per monitor with one primary, what they show, the hide timer,
the picker (active, highlight, Super seen, dismiss timer, grab), the processes
started for it.
*Operations*: notify, hide, hotplug, open/move/choose/abort of the picker,
focus and modifier events, answers of the processes that read and set the mode.
*Hard*: pill and picker share a window; Super may be released before the
keyboard grab has the focus; a process answers after its pick is over.
*Correct when*: one window per monitor; whatever is on screen has a timer or an
owner; the keyboard is always given back; a pick applies what the user chose in
it, and nothing of itself.

### lumen-common: services
* **Wi-Fi** (`Wifi`): the view of NetworkManager (radio, connection, scan,
  attempt), the `nmcli monitor` watcher with its debounce, restart and fallback
  timers, worker threads for polls, scans, power and connections. *Correct
  when*: no change is lost, no flag leaks, what changed is announced.
* **Bluetooth**: the same shape over BlueZ signals; a poll that is due while one
  runs is dropped; a signature decides what is announced. Not modelled yet.
* **Sound**: optimistic volume and device state against `pactl` polls and drags
  through a coalescer. Not modelled yet.
* **RadioState**: a JSON file read, changed and written by panel and settings.
  Not modelled yet.
* **logind bridge**: modelled with the lock screen as far as it uses it.
* **display_ctl**: the display modes are modelled with the OSD; saving the
  extend profile is not.

### lumen-panel: window list and app bar (`AppBar` on `Toplevels`)
*State*: `window_list.c` keeps each window's names, output, focus and whether it
was announced; `output.c` keeps the outputs bound; `ToplevelStore` keeps what
was announced; the `AppBar` of each panel keeps its entries in the order of the
box, the windows of each, which entries are pinned, and a drag with the order
taken down at its start; the pins are in one file.
*Operations*: the events of a window's handle, of the registry and of GDK's
monitor list; click, pin, drag and drop; the start and the rebuild of the panels.
*Hard*: a focus switch is two events in either order; a window takes another
app_id after it was announced; it changes monitors as a leave and an enter that
each bar judges by itself; entries come and go, and panels are rebuilt, under a
drag.
*Correct when*: each bar has exactly its windows, one entry for each app, and no
entry without a reason; when all is dispatched the panels show what the
compositor has, under the app_id each window was announced with; a drop moves
one entry.

### lumen-panel: the rest
The window of a panel that hides itself is modelled with the plugin it calls
(`ViewEffects`). Status notifier watcher, items and menus: asynchronous property
reads that answer out of order. Control center and trays: views of the services.
Not modelled yet.

### lumen-drawer, lumen-desktop, other settings pages, stores
The drawer reloads its app list while it is searched; the desktop writes its
widget configuration back by index; the stores write files after a delay. Not
modelled yet.

### wayfire-plugins: slide-peek, zoom-peek, curtain-peek (`Reveal` on `SlidePeek`, `ZoomPeek`, `CurtainPeek`, implementing `Peek`)
*State*: per output the machine IDLE, OPENING, OPEN, CLOSING with its animation,
the cached view of the drawer's grid and of the widget surface, the grid's
transformer, the picture of the desktop, the layers it turned off, the frame hook.
*Operations*: toggle, start and stop from IPC and bindings; a surface mapped or
unmapped; a frame; the lock's cancel; loading and unloading.
*Interaction*: the drawer's grid and the desktop's widgets are other programs'
surfaces; whichever plugin is loaded hides the grid between reveals.
*Hard*: a reversal in mid-animation; the grid is unmapped, or mapped, under it;
the lock cancels it; a plugin takes over from another.
*Correct when*: on an output without a reveal everything is drawn and nothing is
left of the last one; a mapped grid is hidden exactly between reveals; what moves
has a frame scheduled and ends.

### wayfire-plugins: desktop-peek, panel-push, with the panel's window (`ViewEffects` on `DesktopPeek`, `PanelPush`, `ViewScene`)
*State*: per plugin IDLE, OUT, PEEKED or PUSHED, IN, an animation, the views it
shifts with their transformers, the hook; of the panel whether it is revealed,
its slide and its collapse timer.
*Operations*: the plugins' verbs, map and unmap, frames, cancel; pointer enter
and leave, the collapse timer, the slide's end, the rebuild of the panel.
*Hard*: two animations over the same views, each reversed at any point; views
that leave sight and with it the drawing that drives the animation; a panel that
asks for the opposite of what is under way.
*Correct when*: no view stays shifted; a push that the panel began does not outlast
its reveal; a push ends.

### wayfire-plugins: night-light, startup-zoom (`OutputEffects` on `NightLight`, `StartupZoom`)
*State*: per output OFF, FADING_IN, ON, FADING_OUT and the node with the tint,
and one flag for all; per output PENDING, RUNNING, DONE, the scaled views and the
grace timer.
*Operations*: verbs for all outputs, outputs plugged and unplugged, windows
mapped and unmapped, frames, the timer.
*Hard*: a verb turns a fade that is under way on some outputs only; an output
comes with an instance that is dark; a window that is scaled moves or goes.
*Correct when*: nothing is left hooked, tinted or scaled; the outputs agree with
the flag, as far as they were there when it was set; what moves ends.

## 2. Plan

1. *Done*: lock screen, display layout (client, session daemon, settings page),
   notifications, polkit agent, OSD, Wi-Fi, window list and app bar, the
   compositor's plugins.
2. *Next*, by weight of their hazards:
   * `StatusNotifier`: watcher and items with property reads out of order;
   * `Bluetooth`, `Sound` and `RadioState`: the services with the polls of
     `Wifi`; the radio file as one variable shared by two of them;
   * the drawer's search and reload, and its window store on `Toplevels`; the
     settings' stores; the desktop's configuration;
   * `display_ctl.vala`'s extend profile together with `SessionRestore`.
3. *Abstract specifications*: `SessionLock`, `NotificationServer` and `Peek`
   exist; a window registry for the toplevels and a "last value wins" service for
   the polls are worth stating.
4. *Runs*: one fair run per component at the smallest bounds where each hazard
   happens, and a run for a disagreement with a comment that a reader should be
   able to replay.
5. *Theorems*: what section 6 lists is proved. Next are the components of item 2,
   as they come, and the safety part of the abstract specifications of item 3.

## 3. Modules

| Module | Models | Composition |
|---|---|---|
| `SessionLock` | what a session lock promises: surfaces on all outputs exactly while locked, through lock, grant and unlock in their order (safety only) | abstract |
| `LockScreen` | `manager.vala`, `auth.vala`, `dbus.vala`, `logind.vala`, `idle_notify.c` | implements `SessionLock` |
| `OutputManagement` | `output_management.c` and the compositor it talks to | |
| `SessionRestore` | `lumen-session/src/main.vala`, `display_profiles.vala` | extends `OutputManagement` |
| `DisplayPage` | `display_page.vala`, `output_manager.vala`, `display_arranger.vala` | relies on `MirrorExact` |
| `NotificationServer` | what a bus client is promised | abstract |
| `Notifications` | `notification_manager.vala`, `stack.vala`, `banner.vala`, `main.vala`, `dbus_service.vala` | implements `NotificationServer` |
| `AuthFlow` | `auth_flow.vala`, `dialog.vala`, `listener.vala` | |
| `Osd` | `dbus.vala`, `picker.vala`, `window_group.vala`, `presenter.vala`, `display_ctl.vala` | |
| `Wifi` | `wifi_service.vala`, `nmcli.vala`, `LineWatcher` | |
| `Toplevels` | `window_list.c`, `wlr_toplevel.c`, `output.c` and the compositor's windows and monitors | |
| `AppBar` | `wl/toplevels.vala`, `panel.vala`, `app.vala`, the building of panels in `main.vala` | extends `Toplevels` |
| `Peek` | what a peek promises: opening, open, closing and rest in that order, each coming to its end, and rest under the lock | abstract |
| `DrawerScene` | the surfaces, layers and frames of an output, and what the three reveals share | |
| `SlidePeek`, `ZoomPeek`, `CurtainPeek` | the plugin of that name | extend `DrawerScene` |
| `Reveal` | the plugins loaded in turn, on every output, and `ipc_wrapper.hpp` | instances of the three; implements `Peek` |
| `Animation` | `wf::animation` as the frames see it | |
| `ViewScene` | the views of one output, their stay in sight and their transformers | extends `Animation` |
| `DesktopPeek`, `PanelPush` | the plugin of that name | extend `ViewScene` |
| `ViewEffects` | both on one output, with `panel_window.vala` in push mode | instances of the two; implements `Peek` twice |
| `NightLight`, `StartupZoom` | the plugin of that name | extend `Animation` |
| `OutputEffects` | both on outputs that come and go | instances of the two |
| `MC...` | constants for TLC | extend the above |
| `AuthenticationProofs` | theorems about `LockScreen` and `AuthFlow` | extends both |
| `DisplayLayoutProofs` | theorems about `OutputManagement` and `SessionRestore` | extends `SessionRestore` |
| `SettingsProofs` | theorems about `Wifi` and `DisplayPage`, both behind lumen-settings | extends both |
| `WidgetProofs` | theorems about `Notifications` and `AppBar`, whose widgets follow a store | extends both |
| `OsdProofs`, `RevealProofs`, `ViewEffectsProofs`, `OutputEffectsProofs` | theorems about the module they are named for | extend it |

Variables have the names of the fields they stand for; an action has the name of
the handler, and contains every call the handler makes. A handler of a main loop
is one action. What is not one action is what the code makes several: a blocking
roundtrip that dispatches (`SessionRestore`), a thread that reads and later posts
(`Wifi`, the PAM worker), a child process (`Osd`), an animation (`Notifications`
and the plugins, where a frame runs every hook of its output).
Definitions with `Mutant:` in the comment before them are variants of the next
definition that are wrong in a way the code could be; no specification uses them.

Modelling decisions a reader should know:

* `LockScreen`: a PAM conversation is one of two verdicts. `lock_gen` and
  `epoch` are both kept: the code compares the former, the property the latter.
* `OutputManagement`: the compositor announces a change of its heads with one
  done, a connector is seen empty between two monitors, and `MaxHeads` is not
  below the number of connectors, so that running out of slots is not in the
  model but leaking one is. Positions, scales and transforms are left out.
* `SessionRestore`: a profile is a value, reading and writing the JSON is left
  out. A cancelled or failed configuration leaves the layout as it was.
* `Notifications`: the revealer's end of a leave is an event of each banner.
  Ids do not wrap.
* `AuthFlow`: `PolkitAgent.Session.cancel`, and `initiate` without a helper,
  complete the session inside the call; `run` may then be resumed before it has
  yielded, which re-enters the coroutine at its start. Requests share nothing, so
  there is one.
* `DisplayPage`: a refresh sees the monitors of the moment, which `MirrorExact`
  of the run `session_restore` allows: a roundtrip leaves nothing undelivered.
  The debounce and the pump have no durations, only order. A refused switch edits
  nothing but marks the page, as setting it back runs its handler again.
* `Osd`: Gdk is told of monitors one at a time; a primary that is moved to another
  monitor or unmapped loses the focus; an output may be without modes, as the
  protocol allows. `held` and `chosen` are histories of a pick: whether its window
  has seen Super held, and the tile the user went to last. What a hidden window
  would say is of no account.
* `Wifi`: of what `nmcli` says only the radio has a value; device and network
  listings are a step of the thread without one, as is the cache between them.
  A failing `nmcli`, which reads as a radio that is off, is left out, since an
  off radio is in the model. `nmcli monitor` is taken to deliver a line for every
  change from its start to its end. The 300 ms debounce fires as soon as lines
  pause; a stream of lines without a pause would put it off for ever.
* `Toplevels`: a window stands for its handle and its id. The compositor names a
  window before it reports state and outputs, as Wayfire does: of a window not
  yet announced, state and output are kept but never reported, not even at its
  announcement (`window_list.c:63`, `:92`). A window's `enter` follows the event
  of the output it enters. A window may be renamed at any time once the panel has
  bound the manager; `window_list_set_app_id` then replaces the list's string and
  makes no callback (`window_list.c:50`), so the store keeps the app_id of the
  announcement (`named`). The cap of eight outputs is left out.
* `AppBar`: removing a widget that is dragged may or may not end its gesture;
  both are in the model. `reorder_child_after` with a widget that is no child any
  more does nothing. A click asks the compositor, which need not comply. Writing
  the pins does not fail.
* The plugins: an animation has `Full` frames at most, and a frame may find it at
  any later position, so that frames may be late. What is drawn (transforms,
  shaders, framebuffers, the easing) is the progress that is shown. Logging is
  left out, and so is the keyboard focus. Wayfire's activation and inhibition of
  plugins are external and modelled from their use. A capture that fails leaves
  everything as it was and is a call that is declined.
* The reveals disable and enable scene nodes, and the compositor counts these
  calls: a node is drawn while its count, which starts at 1, is above 0. Layers and
  the widget surface have their counts (`enables`, `widgetEnables`), since the
  calls do not match: `hard_reset` enables the wallpaper once more than it was
  disabled (`slide-peek.cpp:536`), and `fini` shows the widgets again after
  `hard_reset` has (`:256`). The calls for the grid alternate, so it is just hidden
  or not.
* `Reveal`: one grid and one widget surface on an output at a time, and one
  reveal plugin loaded at a time, which is what the settings write once a switch
  of styles is over. As the counts only grow, no reveal starts and no plugin is
  unloaded once one has reached `MaxEnables`.
* `ViewEffects`: a window is away when minimized or on another workspace or
  output. One panel without a tray, which both plugins exclude. Where
  desktop-peek moves a window is the operator `Shift`, apart from the state.
* `OutputEffects`: at least one output stays plugged. The verbs of an instance
  that `set_all` does not call are left out (`night-light.cpp:246`), and so are the
  reload of startup-zoom and the resizing of an output while it fades or zooms.
  `replugged` is the history of the outputs plugged since a verb did anything.

## 4. Runs

| Run | Bounds | Checks |
|---|---|---|
| `lockscreen` | 3 monitors, 3 strikes, 4 locks, 4 signals | `SurfacesFollowLock`, `ShutWhileAnswering`, `HoldsWhatItNeeds`, `UndoneByItsOwn`, `SessionLockContract`, `SuspendNotStalled`, `AttemptSettles` |
| `session_restore` | 2 connectors, monitors of which two can be of one model, 4 profiles, serial to 3 | `MirrorExact`, `RestoresMatchHotplugs`, `LayoutsAreSafe`, `ComesToRest` |
| `notifications` | 3 ids, 4 submissions, 2 action keys | `TimersOwned`, `StackFollowsStore`, `NotificationContract`, `NothingStays` |
| `authflow` | 3 identities, 3 attempts, 2 answers typed ahead | `GrantIsEarned`, `RequestIsServed`, `AnswerStands` |
| `display_page` | 2 outputs, 2 modes, 1 outside change | `PageAgrees`, `BlanksOnlyWithoutModes`, `PageSettles` |
| `osd` | a panel and an output without modes, 3 inputs, 2 picks | `WindowsAgree`, `ScreenIsOwned`, `PicksApplyTheChoice`, `ScreenClears` |
| `wifi` | 1 network, 1 change by others or death of the monitor, 1 toggle, any number of connections and scans | `FlagsOwned`, `EventsArePolled`, `WorkEnds` |
| `app_bar` | 2 windows, 3 apps of which none or one is pinned at the start, 2 monitors, 2 changes, each a plug, an unplug or a window renamed, 1 click, pin or drag, one pending event when the compositor adds more; per-monitor bars | `BarsFollowStore`, `ShownWhereItIs`, `DropMovesOne` |
| `reveal` | 2 outputs, the 3 plugins, animations of 2 frames, counts to 3 | `GridFollowsReveal`, `RevealsComeAndGo`, `PeekContract` |
| `view_effects` | 2 windows and the panel, animations of 2 frames | `ViewsInPlace`, `PushEndsWithReveal`, `PeekContracts` |
| `output_effects` | 2 outputs, 1 window, animations of 2 frames | `NothingLeftBehind`, `InStep`, `EffectsEnd` |

The type invariant `TypeOK` of a module is a conjunct of one of the invariants
its run checks.

These hold. Why the bounds are enough: four locks and four signals give two locks
each with an attempt outlasting the first and a second suspend announced while the
first wakes up; three monitors let the card move twice. Two connectors with twins
is the smallest case of colliding identities, and serial 3 is two hotplugs inside
one restore. Three ids allow two overlapping cascades and a newcomer; the fourth
submission is the replacement. Two picks are what a late answer needs, and two
outputs are the smallest set with a primary and a mirror. In `wifi` the radio's
power command and connections are changes too, so that a change and a dead monitor
occur together. In `app_bar` two windows are a focus switch, and two of one entry
a cycle; three apps, one or none of them pinned at the start, give a drag every
direction and an entry that goes under it; the plug rebuilds the panels, and there
is a second change for a window that is renamed before, during or after it. Panels
that share all windows, and a single panel, are instances the module has and this
run does not. In the plugins nothing is capped but the length of an animation and
the counts of a reveal's nodes, where 3 is a second slide reveal after a first and
a widget surface that was shown too often. Two frames give a start, a middle where
it is reversed, and an end. Two outputs are a reveal that goes on while another is
cancelled, and a night light that is fading on one and dark on the other; two
windows are one that stays in sight while the other leaves or goes, and one that
is shifted by both plugins while the other is by one. `view_effects` has no views
of the other layers: the plugins treat those like windows that cannot leave sight,
and the theorems cover them.

One run ends in a violation and shows a disagreement between the code and what
it says of itself: in `lockscreen_stale_verdict`, `ShutOnlyWhileBusy` fails, as the
verdict of an attempt whose lock was undone from outside leaves the card of the
next lock insensitive for good (`manager.vala:242`; `password.vala:79` says input
is disabled while PAM runs).

Three more disagreements are what a passing property says, since the truth that the
comment leaves out is an exact one; each is a finding in `PROJECT.json`:

* `BlanksOnlyWithoutModes`: the guard against disabling the last display counts an
  output that Apply will turn off for want of a mode, so the last lit one can be
  disabled (`display_page.vala:155` against the comment in 156, and
  `output_manager.vala:216`). The property says when exactly.
* `InStep`: an output that is plugged in while the night light is on stays dark, and
  the next toggle turns the others off; if all that were lit are gone, the toggle
  does nothing at all until a start (`night-light.cpp:294` says that `enabled` keeps
  toggle in lockstep).
* `RevealsComeAndGo`: the wallpaper is left out of the picture of the first slide
  reveal of an output only, as it is enabled too often after it
  (`slide-peek.cpp:310` against 536). Widgets that `fini` or a mapping in mid-reveal
  left with a count of 2 are, likewise, not hidden by the next reveal (145).

Disagreements and oddities met while modelling that no run replays:

* Choosing another identity cancels the session, which completes, is counted as a
  failed password, and shows "Sorry, try again."; the third choice denies the
  request (`auth_flow.vala:93`).
* The answer of a process started for one pick sets the highlight of the next,
  though the user had moved in the first (`picker.vala:193`, against line 67).
* The signature of the connected set is made of connector names, so that a monitor
  replaced by another between two done events is no change of the set
  (`output_management.c:79`).
* A revert ignores the result of its apply, and an apply may be made on a list that
  a hotplug has outdated (`display_page.vala:278`, `output_manager.vala:215`).

* A third wrong password whose verdict arrives while no monitor is connected
  starts no backoff, since there is no card (`manager.vala:257`); the card of the
  next monitor is open.
* `DisplayArranger.set_outputs` does not reset `dragging`; after a hotplug
  in mid-drag the index is of another output or past the list
  (`display_arranger.vala:48`, `:124`).
* A restore whose configuration is cancelled by the compositor is not tried
  again (`lumen-session/src/main.vala:159`).
* Keep stays offered after an apply that failed, and saves what was not applied.
* An output that is off cannot be selected in the arranger.
* In the polkit agent a helper that cannot be started completes the session
  before `run` has yielded, and the coroutine starts over.
* The confirmation of a chosen mode is dropped when a new pick is open by then.
* A poll's reading from before `set_enabled` is applied while it blocks, and the
  switch bounces back (`wifi_service.vala:222`), which line 93 says it does not;
  at a start with a remembered state the two always run side by side.
* `ToplevelStore.on_output` compares the window's output with the one reported,
  which is "" for a leave: the store keeps the output that was left
  (`toplevels.vala:83`), so that a window on no monitor is not "unknown" to the
  tray host, which is to catch those; the next `enter` repairs it.
* Each panel keeps its own pins and saves them to the one file, over the
  others' (`panel.vala:248`). When two entries went during one drag, a drop may
  move others too: `reorder_child_after` with an entry that is gone is skipped.
* A scan's reading of the radio is applied when its listing is over, over newer
  readings of polls; two toggles in quick succession run in two threads whose
  order is not determined; a device listing read before `invalidate_devices` can
  be stored after it and answer the poll the invalidation was for
  (`nmcli.vala:91`, `:122`).
* A window that takes another app_id stays in the entry of its first one
  (`window_list.c:50`), until the panel starts anew.
* A fade-out of the night light schedules no frame (`night-light.cpp:240`), and a
  desktop-peek asks for frames only through the windows it moves
  (`desktop-peek.cpp:267`): either stalls while nothing else is drawn.
  `EffectsEnd` and `PeekContracts` exclude these two stalls by a condition, and so
  would not catch them: a fade is promised an end on an output that something
  keeps drawing, a peek while a window it moves is in sight.
* A start of the push while it is on its way back is dropped, so that a panel that
  is revealed again in that time stands over views that are not pushed
  (`panel_window.vala:162`). A panel rebuilt while it is shown leaves its push on
  (`lumen-panel/src/main.vala:118`), which `ours` keeps out of `PushEndsWithReveal`;
  and a stop goes to the output that is active by then (`ipc_wrapper.hpp`), so that
  on several outputs it may miss the one that is pushed. The property speaks of
  pushes that the panel window began and that were left to it, not of these.
* A view of the overlay layer that is mapped during a push is pushed, which one
  that was there before is not (`panel-push.cpp:52` says BACKGROUND to TOP).
* A widget surface that is mapped while a reveal is open is not hidden.
* A switch of the reveal's style writes the plugin list three times, and between
  two of them no reveal plugin or two may be loaded (`drawer_page.vala:49`).

## 5. Fairness

Fairness is assumed of what the program's own scheduling provides, and of the
systems it asks where it cannot go on without an answer: a ready source of the
main loop is dispatched sooner or later (timers, idle callbacks, dispatch), worker
threads and child processes end, the compositor answers roundtrips and
configurations, logind sleeps when nothing holds it. It is never assumed of users,
hotplugs, other clients, the compositor's answer to a lock request, or
NetworkManager changing. In `DisplayPage` an apply that is accepted puts a new
countdown in the place of the running one (`display_page.vala:247`), so the timer
is fair only if such applies end: a user who edits and applies for ever keeps the
trial for ever, and `PageSettles` promises its end to all others. In `LockScreen`
fairness is strong where every sleep of the machine pauses the main loop: a
verdict or a timer that is enabled again after each wake-up is not starved by
suspends for ever. In `Notifications` the expiry timers are fair as a set, which
is enough as each is removed when it fires; `Osd` needs only its two timers, as
the inputs that start them over end. `authflow` checks no liveness: a request
waits for its user. In the plugins a frame that is scheduled is drawn (weakly
fair, per output) and the grace timer of startup-zoom fires; that anything
schedules a frame is the plugin's own doing and is not assumed.

## 6. Proofs

The assumptions are those the modules state of their constants: null values are
none of the others, bounds are naturals, strikes are positive, an animation has a
frame. Bounds are arbitrary in the theorems; monitors, outputs, identities,
networks and views are any sets. What the display modules list in some order is
finite: `CapacityAssumption` says that there are no more connectors than the
array of the client has slots (`output_management.c` drops a head beyond them),
`OutputsAssumption` that a machine has finitely many outputs. `ModesAssumption`
keeps "off" and "leave" from being modes, and `ProfilesAssumption` says what
`save_or_update` of `display_profiles.vala` ensures: one profile for a set of
monitors. Where one module holds the proofs of two components that share
nothing, the definitions of one of them have a prefix (`RequestSpec`, `PageSpec`,
`PanelSpec`). `PinsAssumption` says what `save_pins` of `panel.vala` ensures, that
the file of the pins has each app once, and `GoneAssumption` that the mark for an
entry that is gone is no app.

**`AuthenticationProofs`, the lock screen.** `TypeCorrect` ([]`TypeOK`),
`SurfacesFollowMonitors` ([]`SurfacesFollowLock`), `InputShutWhileAnswering`,
`HoldsAlwaysWhatItNeeds`, `NothingElseUndoes` ([]-step property `UndoneByItsOwn`)
and `ImplementsSessionLock` (the refinement). None of the properties is inductive
by itself. That a monitor change keeps one surface per monitor needs that the
handler is connected exactly under a lock and that windows are gone without one;
that the card stays shut needs that a running attempt of this generation is one
`authenticating` knows of, which needs that generations only grow; that the
inhibitor is held when awake and idle needs an invariant about the signals in
flight: a wake-up is still ahead whenever a suspend has spent the inhibitor
(`WakeUpAhead`). These are the invariants `SInv`, `AInv` and the ones after them
in the module, proved in that order, each from the ones before. The refinement
then follows from the surfaces, step by step.

**`AuthenticationProofs`, the polkit agent.** `OnlyTheShownIdentityGrants`,
`RequestsAreServed` and `AnswersStand`. What has to be added is `AnsweredOnce`:
the flow is done exactly when it is answered, in spite of the coroutine that may
start over. The nested completions of `start_session` are the set `Started`, of
which a lemma says that each member either has a session of the identity asked for
or is done.

**`DisplayLayoutProofs`.** `MirrorIsExact`
([]`MirrorExact`), `EveryHotplugIsRestoredOnce` ([]`RestoresMatchHotplugs`) and
`RestoredLayoutsAreSafe` (`LayoutsAreSafe`, whose step properties are shown of
each step under the invariant). None of these is inductive: what holds when the
wire is empty depends on what is on the wire before, which may be several changes
at once, in the middle of one of which the client may be blocked. The invariant
therefore speaks of *points* and *journeys*. A point is what the client holds at
some moment: the monitors it sees, those of the last done, the serial of that
done, and the restores due by then. An event leads from a point to the next, and
`MirrorInv` says that the client is at a point from which the wire leads to what
the compositor has. Dispatching an event takes the first step off the journey,
and whatever the compositor does adds steps at its end, so that each action touches one
end only. A journey of no events has arrived, which is `MirrorExact`. Restores
are counted against the point (`restores + Pending <= a.due`): a done that changes
the set pays for one, and a change that is on the wire has been counted by
`hotplugs`, hence `NoApplyLoop`; the done of an apply pays for none and causes
none. For what is applied, `RequestInv` says that a request whose serial is
the compositor's was computed for the monitors connected now: serials grow along a
journey, and two points of one serial saw the same monitors at their last done.
That the compositor refuses older serials then gives `OnlyRememberedLayouts`;
`NeverBlanks` is the guard of `do_restore` carried over to what is applied; and
`EveryHeadConfigured` rests on `disambiguate` giving different identities to
different connectors, a lemma of the module. Slots and announcements are lists
made of sets; the lemmas about them come first.

**`OsdProofs`.** `TypeCorrect`, `OneWindowPerMonitor` ([]`WindowsAgree`),
`EverythingHasAnOwner` ([]`ScreenIsOwned`) and `PicksApplyChoices`
(`PicksApplyTheChoice`). The inductive invariant is the conjunction of the
properties themselves with `PickOnly`: the pick and the pills have to be proved
together, as each is interrupted by the other's actions. What a pick
asks for follows from how the flags of the code relate to the histories (`saw_super`
to `held`, the highlight to `chosen`).

**`SettingsProofs`, the Wi-Fi service.** `TypeCorrect`, `NoChangeIsLost`
([]`EventsArePolled`) and `FlagsAreOwned` ([]`FlagsOwned`). For the first two the
inductive invariant is the two together: that a restart of the monitor may take
the fallback poll away needs that the restart timer runs only while the monitor is
down, which is part of `TypeOK`. The third counts a worker and its posted answers;
it is proved as `OInv`, which says without counting that at most one of them is
out, and what an append to and a take from the queue of callbacks do to the
answers of one kind.

**`SettingsProofs`, the Display page.** `PageListsAgree` ([]`PageAgrees`) and
`PageBlanksOnlyWithoutModes` (`BlanksOnlyWithoutModes`, a step property). The
invariant is that of the first with one fact more: a page whose baseline has a
display enabled has one in its working copy, whatever is edited, reverted or
reloaded. That rests on the guard, since more than one enabled output is one
besides the selected one; the step then follows from what `apply_all` makes of a
list. For the first the work is in what an edit or a revert leaves of the lists'
names.

**`WidgetProofs`, the notifications.** `TimersAreOwned`, `StackShowsStore` and
`KeepsTheContract` (the refinement of `NotificationServer`). The invariant adds
`ClosedGone` to the two: a closed id is never stored again, as ids only grow.
Every way to close ends in the same step `CloseReporting`, so that a lemma about
it serves the five actions that close.

**`WidgetProofs`, the app bars.** `BarsFollowTheStore` ([]`BarsFollowStore`). The
tables of a bar have to be proved together: that an entry without windows goes
needs that the windows of the entries are exactly those shown, that a click finds
its window needs that a removal puts the cycle back, and that a drop keeps the
entries needs that the order taken down at the start of the drag has none twice
and none that is not in the box, unless it is marked as gone (`GoodBar`). What a
bar shows follows the store only if a window is announced once and closed after
all that is said of it; as that is settled when the compositor sends the events,
and not when the panel dispatches them, the invariant `PanelInv` says of the whole
wire that the client can take each event when it comes to it (`WireFits`), and
that every mapped window is in its list or on the wire (`Alive`). The lemmas come
in three layers: the operators on lists (`RemoveAt`, `InsertAt`, `RemoveFirst` on
lists without repetition, and the recursive functions of the pins, the reordering
and the new bar, each proved to have a value at every place by a least
counterexample); the operations of one bar; and the handlers, where a lemma says
that the client can still take what is left of the wire (`DispatchFits`).

`PanelShowsWhereItIs` ([]`ShownWhereItIs`) speaks of a quiet wire, so its
invariant `ShownInv` has to say what the events still on it will do. For a window,
what the client holds now (`Now`, with the first and the last app_id) is taken by
those events, one after the other (`Leads`, `Journey`), to what the compositor has
(`Goal`); with an empty wire the two are equal. A step of the compositor adds to
the end of the journey (`Onward`), a handler takes its first step (`OneStepOn`).
To this come that the store repeats the list but for a leave that is not passed on
(`StoreMirrors`), that a window is renamed only for a client that has bound the
manager (`NamedFits`), that a window is on a monitor there is (`Homed`), and that
the bars stand on the outputs that are bound (`BarsPlaced`); the rest is
`PanelInv` of the theorem before.

`DropsMoveOne` ([]`DropMovesOne`). A drop goes through the order taken down at the
start of the drag and puts each entry behind the one before it; what order this
ends in is an induction over these steps (`Lined`): after n of them the first n
stand in order, those up to an entry that is gone stand before all that are to be
placed, and newcomers, in their own order, come after both. That the newcomers
were last before the drop (`NewcomersLast`) is an invariant of the drag: what is
new is appended, and an entry that goes is marked in the order taken down.

**`RevealProofs`.** `GridsFollowReveals`, `EachRevealComesAndGoes` and
`RevealsArePeeks` (the safety part of the refinement of `Peek`). The invariant
speaks of one output at a time: its surfaces, what rest means, what a reveal in
progress holds, how often each node is enabled (`Counts`), and that a plugin
undoes no more than what it does (`OwnWork`), without which the unloading of one
would not restore what another is about to use. Each step of the three plugins is
first shown to be an instance of a few common shapes, and those to preserve the
invariant.

**`ViewEffectsProofs`.** `ViewsStayInPlace`, `OwnPushEndsWithReveal`,
`BothArePeeks` (the safety part of `Peek`, for each plugin), and
`PeekLeavesAStrip`, a fact about the arithmetic of desktop-peek's shift.
**`OutputEffectsProofs`.** `EffectsLeaveNothing` and `NightLightInStep`. In both the
invariant ties what is shown to the animation: a view is at the position of the
last frame, from which the next goes on, so that what settles has arrived.

Only model-checked: all liveness, also of `Peek`, since the prover does not do
liveness under fairness, nor what needs ENABLED. Every invariant and every action
property that a run checks has its theorem. What a recursive definition computes
for every input is proved only as far as an argument from the least
counterexample goes (the fold of a drop, the pins, a new bar); the rest is left
to TLC.

## 7. Not modelled

Drawing, themes, layout and parsing; command line clients without state
(`lumen-lockctl`, most of `lumen-osdctl`), whose calls are actions of the
services; the forms of the settings program, whose state is the stores'; the
Wayfire option pages, generated from metadata; build files, units and docs.
The parts of section 1 marked "not modelled yet" are in the plan; `PROJECT.json`
lists every component with its sources and status, every definition with the
lines it models, and the hazards of the code with the properties that cover
them.
