------------------------------- MODULE AppBar -------------------------------
(***************************************************************************)
(* lumen-panel: ToplevelStore over the window list, an AppBar in the panel *)
(* of each monitor with its pinned apps and its dragged entry, and the     *)
(* rebuild of the panels when monitors come and go.                        *)
(***************************************************************************)
EXTENDS Toplevels

CONSTANTS
  MultiMonitor,     \* PanelConfig.multi_monitor
  PerMonitorApps,   \* PanelConfig.per_monitor_apps
  SavedPins,        \* what pinned-apps.txt may hold at the start
  MaxActs           \* bound: clicks, pins and drags

ASSUME ConfigAssumption == MultiMonitor \in BOOLEAN /\ PerMonitorApps \in BOOLEAN

\* save_pins writes each app once.
ASSUME PinsAssumption == \A file \in SavedPins : file \in Seq(Apps) /\ IsInjective(file)

VARIABLES
  toplevels,   \* ToplevelStore.by_id
  bars,        \* the AppBar of each panel window, the tray host first
  pins_file,   \* pinned-apps.txt
  acts         \* the user's clicks, pins and drags so far

barVars   == <<toplevels, bars, pins_file>>
panelVars == <<compositorVars, wire, clientVars, barVars, acts>>

(***************************************************************************)
(* An app bar: its entries in the order of the box, each with its windows  *)
(* and the next one a click activates.  entries_by_window is "shown".      *)
(* drag.order is drag_order, in which Gone stands for an entry that was    *)
(* removed from the box.                                                   *)
(***************************************************************************)
Gone == "gone"

ASSUME GoneAssumption == Gone \notin Apps \union {None}

NoDrag == [app |-> None, order |-> <<>>, target |-> 0]

Accepts(bar, t) ==
  \/ bar.only_output = None
  \/ t.output = bar.only_output
  \/ t.output = None /\ bar.is_tray_host

Open(bar, app) == bar.windows[app] # <<>>

BarAdded(bar, id, t) ==
  IF ~Accepts(bar, t) THEN bar
  ELSE [bar EXCEPT !.order = IF t.app_id \in ToSet(@) THEN @ ELSE Append(@, t.app_id),
                   !.windows[t.app_id] = IF id \in ToSet(@) THEN @ ELSE Append(@, id),
                   !.shown = Extend(@, id, t.app_id)]

\* The pinned entries, in the order of the box.
PinnedOrder(bar) ==
  LET kept[n \in 0 .. Len(bar.order)] ==
        IF n = 0 THEN <<>>
        ELSE IF bar.order[n] \in bar.pinned THEN Append(kept[n - 1], bar.order[n])
        ELSE kept[n - 1]
  IN  kept[Len(bar.order)]

(***************************************************************************)
(* Dragging.  reorder_child_after does nothing when the entry, or the one  *)
(* it is to follow, is no child of the box any more.                       *)
(***************************************************************************)
ReorderAfter(order, e, prev) ==
  IF e = Gone \/ prev = Gone THEN order
  ELSE LET rest == RemoveFirst(order, e)
           at   == IF prev = None THEN 1
                   ELSE 1 + CHOOSE i \in DOMAIN rest : rest[i] = prev
       IN  InsertAt(rest, at, e)

\* Mutant: the dragged entry goes behind the one at the target.
TargetOrderBehind(drag) ==
  LET rest == RemoveFirst(drag.order, drag.app)
  IN  InsertAt(rest, IF drag.target > Len(rest) THEN drag.target ELSE drag.target + 1,
               drag.app)

\* The committed order: the dragged entry removed and put back at the target.
TargetOrder(drag) ==
  InsertAt(RemoveFirst(drag.order, drag.app), drag.target, drag.app)

\* Each entry of the target order is put behind the one before it.
Reordered(order, target) ==
  LET placed[n \in 0 .. Len(target)] ==
        IF n = 0 THEN order
        ELSE ReorderAfter(placed[n - 1], target[n], IF n = 1 THEN None ELSE target[n - 1])
  IN  placed[Len(target)]

Dropped(bar) ==
  [bar EXCEPT !.order = Reordered(bar.order, TargetOrder(bar.drag)),
              !.drag = NoDrag]

Dragging(bar) == bar.drag.app \notin {None, Gone}

\* Removing a widget may end its gesture, and with it the drag; if it does
\* not, AppBar.dragged is left with the entry that is gone.
RemoveEntry(bar, app, ends) ==
  LET b == IF ends /\ Dragging(bar) /\ bar.drag.app = app THEN Dropped(bar) ELSE bar
      r == [b EXCEPT !.order = RemoveFirst(@, app)]
  IN  IF r.drag = NoDrag THEN r
      ELSE [r EXCEPT !.drag.order = ReplaceAll(@, app, Gone),
                     !.drag.app = IF @ = app THEN Gone ELSE @]

\* Mutant: the entry stays without windows.
BarRemovedKeepsEntry(bar, id, ends) ==
  IF id \notin DOMAIN bar.shown THEN bar
  ELSE [bar EXCEPT !.windows[bar.shown[id]] = RemoveFirst(@, id),
                   !.cycle[bar.shown[id]] = 0,
                   !.shown = Omit(@, id)]

BarRemoved(bar, id, ends) ==
  IF id \notin DOMAIN bar.shown THEN bar
  ELSE LET app  == bar.shown[id]
           left == RemoveFirst(bar.windows[app], id)
           b    == [bar EXCEPT !.windows[app] = left,
                               !.cycle[app] = IF @ >= Len(left) THEN 0 ELSE @,
                               !.shown = Omit(@, id)]
       IN  IF app \notin b.pinned /\ left = <<>> THEN RemoveEntry(b, app, ends) ELSE b

BarFocused(bar, id) ==
  IF id \notin DOMAIN bar.shown THEN bar
  ELSE LET ids == bar.windows[bar.shown[id]]
           i   == CHOOSE n \in DOMAIN ids : ids[n] = id
       IN  [bar EXCEPT !.cycle[bar.shown[id]] = i % Len(ids)]

BarOutputChanged(bar, id, t, ends) ==
  CASE bar.only_output = None                              -> bar
    [] Accepts(bar, t) /\ id \notin DOMAIN bar.shown       -> BarAdded(bar, id, t)
    [] ~Accepts(bar, t) /\ id \in DOMAIN bar.shown         -> BarRemoved(bar, id, ends)
    [] OTHER                                               -> bar

(***************************************************************************)
(* Building the panels.  store.all() has no order of its own.              *)
(***************************************************************************)
NewBar(only_output, is_tray_host, file, st) ==
  LET ids == SetToSeq(DOMAIN st)
      filled[n \in 0 .. Len(ids)] ==
        IF n = 0
        THEN [only_output |-> only_output, is_tray_host |-> is_tray_host,
              order |-> file, windows |-> [app \in Apps |-> <<>>],
              cycle |-> [app \in Apps |-> 0], shown |-> [id \in {} |-> None],
              pinned |-> ToSet(file), drag |-> NoDrag]
        ELSE BarAdded(filled[n - 1], ids[n], st[ids[n]])
  IN  filled[Len(ids)]

BuildWindows(ms, file, st) ==
  IF ~MultiMonitor \/ ms = <<>> THEN <<NewBar(None, TRUE, file, st)>>
  ELSE [i \in DOMAIN ms |->
          NewBar(IF PerMonitorApps THEN ms[i] ELSE None, i = 1, file, st)]

\* save_pins, by the bar whose drag ends.
SavedBy(file, before, after) ==
  LET ended == {i \in DOMAIN before : Dragging(before[i]) /\ after[i].drag = NoDrag}
  IN  IF ended = {} THEN file ELSE PinnedOrder(after[CHOOSE i \in ended : TRUE])

\* A signal of the store reaches every bar.
EachBar(Change(_)) ==
  /\ bars' = [i \in DOMAIN bars |-> Change(bars[i])]
  /\ pins_file' = SavedBy(pins_file, bars, bars')

RebuildWindows(ms, ends) ==
  LET left == [i \in DOMAIN bars |->
                 IF ends /\ Dragging(bars[i]) THEN Dropped(bars[i]) ELSE bars[i]]
      file == SavedBy(pins_file, bars, left)
  IN  IF MultiMonitor
        THEN bars' = BuildWindows(ms, file, toplevels) /\ pins_file' = file
        ELSE UNCHANGED <<bars, pins_file>>

(***************************************************************************)
(* ToplevelStore.  Every handler is one event of the wire, with the        *)
(* callback of window_list.c and all it does to the store and the bars.    *)
(***************************************************************************)
Dispatch(kind) ==
  /\ bound
  /\ wire # <<>>
  /\ Head(wire).kind = kind
  /\ wire' = Tail(wire)
  /\ UNCHANGED <<compositorVars, bound>>

OnToplevel ==
  /\ Dispatch("toplevel")
  /\ list' = Extend(list, Head(wire).window, NewWindow)
  /\ UNCHANGED <<outputs, barVars>>

\* The window is announced when its second name arrives: on_new, on_added.
OnNew(w) ==
  IF list'[w].announced /\ ~list[w].announced
  THEN LET t == [app_id |-> list'[w].app_id, activated |-> FALSE, output |-> None]
       IN  /\ toplevels' = Extend(toplevels, w, t)
           /\ EachBar(LAMBDA bar : BarAdded(bar, w, t))
  ELSE UNCHANGED barVars

OnTitle ==
  /\ Dispatch("title")
  /\ list' = SetTitle(Head(wire).window, Head(wire).value)
  /\ OnNew(Head(wire).window)
  /\ UNCHANGED outputs

OnAppId ==
  /\ Dispatch("app_id")
  /\ list' = SetAppId(Head(wire).window, Head(wire).value)
  /\ OnNew(Head(wire).window)
  /\ UNCHANGED outputs

\* on_focus: one window at most is active in the store.
OnFocus(id) ==
  /\ toplevels' = [k \in DOMAIN toplevels |-> [toplevels[k] EXCEPT !.activated = (k = id)]]
  /\ EachBar(LAMBDA bar : BarFocused(bar, id))

OnState ==
  LET w == Head(wire).window  activated == Head(wire).value IN
  /\ Dispatch("state")
  /\ list' = [list EXCEPT ![w].activated = activated]
  /\ \/ FocusCallback(w, activated) = {} /\ UNCHANGED barVars
     \/ \E id \in FocusCallback(w, activated) : OnFocus(id)
  /\ UNCHANGED outputs

\* on_output compares with the output the callback reports, which is "" when
\* the window left the one it was on.
Output(t, output, entered) ==
  IF entered THEN output ELSE IF t.output = output THEN None ELSE t.output

OnOutput(w, entered) ==
  /\ toplevels' = [toplevels EXCEPT ![w].output = Output(toplevels[w], list'[w].output, entered)]
  /\ \E ends \in BOOLEAN :
       EachBar(LAMBDA bar : BarOutputChanged(bar, w, toplevels'[w], ends))

OutputEvent(kind, entered) ==
  LET w == Head(wire).window  m == Head(wire).value IN
  /\ Dispatch(kind)
  /\ \/ Known(m) /\ list' = SetOutput(w, m, entered)
     \/ ~Known(m) /\ UNCHANGED list
  /\ IF Known(m) /\ OutputCallback(w, m, entered)
       THEN OnOutput(w, entered)
       ELSE UNCHANGED barVars
  /\ UNCHANGED outputs

OnOutputEnter == OutputEvent("enter", TRUE)
OnOutputLeave == OutputEvent("leave", FALSE)

OnClosed ==
  LET w == Head(wire).window IN
  /\ Dispatch("closed")
  /\ list' = Omit(list, w)
  /\ \/ /\ list[w].announced
        /\ toplevels' = Omit(toplevels, w)
        /\ \E ends \in BOOLEAN : EachBar(LAMBDA bar : BarRemoved(bar, w, ends))
     \/ ~list[w].announced /\ UNCHANGED barVars
  /\ UNCHANGED outputs

\* A monitor is bound or dropped by output.c and by GDK, whose items_changed
\* rebuilds the panels.
OnGlobal ==
  /\ Dispatch("global")
  /\ outputs' = Append(outputs, Head(wire).value)
  /\ \E ends \in BOOLEAN : RebuildWindows(outputs', ends)
  /\ UNCHANGED <<list, toplevels>>

OnGlobalRemove ==
  /\ Dispatch("global_remove")
  /\ outputs' = RemoveFirst(outputs, Head(wire).value)
  /\ \E ends \in BOOLEAN : RebuildWindows(outputs', ends)
  /\ UNCHANGED <<list, toplevels>>

(***************************************************************************)
(* The panel starts: the roundtrips of registry_init fill the list before  *)
(* a callback is registered, and each registration replays what is there.  *)
(***************************************************************************)
Bind ==
  /\ ~bound
  /\ bound' = TRUE
  /\ outputs' = monitors
  /\ list' = [w \in Mapped |->
                [app_id |-> apps[w], title |-> apps[w], output |-> places[w],
                 activated |-> (w = focus), announced |-> TRUE]]
  /\ toplevels' = [w \in Mapped |->
                 [app_id |-> apps[w], activated |-> (w = focus), output |-> places[w]]]
  /\ bars' = BuildWindows(monitors, pins_file, toplevels')
  /\ UNCHANGED <<compositorVars, wire, pins_file>>

(***************************************************************************)
(* The user at the panel.                                                  *)
(***************************************************************************)
OnBar(i, bar, file) ==
  /\ bars' = [bars EXCEPT ![i] = bar]
  /\ pins_file' = file
  /\ UNCHANGED <<compositorVars, wire, clientVars, toplevels>>

\* The pointer is free: no entry is dragged.
Begins ==
  /\ \A i \in DOMAIN bars : ~Dragging(bars[i])
  /\ acts < MaxActs
  /\ acts' = acts + 1

\* A click activates the next window of the entry; the compositor decides
\* whether it is focused.
Click(i, app) ==
  /\ Begins
  /\ Open(bars[i], app)
  /\ OnBar(i, [bars[i] EXCEPT !.cycle[app] = (@ + 1) % Len(bars[i].windows[app])],
           pins_file)

TogglePin(i, app) ==
  LET bar == [bars[i] EXCEPT !.pinned = IF app \in @ THEN @ \ {app} ELSE @ \union {app}]
  IN  /\ Begins
      /\ OnBar(i, IF app \notin bar.pinned /\ ~Open(bar, app)
                    THEN RemoveEntry(bar, app, FALSE) ELSE bar,
               PinnedOrder(bar))

DragStarted(i, app) ==
  LET order == bars[i].order IN
  /\ Begins
  /\ OnBar(i, [bars[i] EXCEPT !.drag = [app |-> app, order |-> order,
                 target |-> CHOOSE n \in DOMAIN order : order[n] = app]], pins_file)

DragMoved(i, target) ==
  /\ Dragging(bars[i])
  /\ UNCHANGED acts
  /\ target # bars[i].drag.target
  /\ OnBar(i, [bars[i] EXCEPT !.drag.target = target], pins_file)

DragDropped(i) ==
  /\ Dragging(bars[i])
  /\ UNCHANGED acts
  /\ OnBar(i, Dropped(bars[i]), PinnedOrder(Dropped(bars[i])))

User ==
  \E i \in DOMAIN bars :
    \/ \E app \in ToSet(bars[i].order) :
         Click(i, app) \/ TogglePin(i, app) \/ DragStarted(i, app)
    \/ \E target \in DOMAIN bars[i].drag.order : DragMoved(i, target)
    \/ DragDropped(i)

Handle ==
  \/ OnToplevel \/ OnTitle \/ OnAppId \/ OnState \/ OnOutputEnter
  \/ OnOutputLeave \/ OnClosed \/ OnGlobal \/ OnGlobalRemove

PanelInit ==
  /\ apps = [w \in {} |-> None] /\ named = apps /\ places = [w \in {} |-> None]
  /\ focus = None
  /\ monitors \in {ms \in SeqOf(Monitors, 2) : IsInjective(ms)}
  /\ maps = 0 /\ changes = 0 /\ wire = <<>>
  /\ bound = FALSE /\ list = [w \in {} |-> NewWindow] /\ outputs = <<>>
  /\ toplevels = [w \in {} |-> None] /\ bars = <<>>
  /\ pins_file \in SavedPins /\ acts = 0

PanelNext ==
  \/ Compositor /\ UNCHANGED <<barVars, acts>>
  \/ Bind /\ UNCHANGED acts
  \/ Handle /\ UNCHANGED acts
  \/ User
PanelSpec == PanelInit /\ [][PanelNext]_panelVars

(***************************************************************************)
(* Properties.                                                             *)
(***************************************************************************)
Toplevel == [app_id: Apps, activated: BOOLEAN, output: Monitors \union {None}]

BarTypeOK(bar) ==
  /\ bar.only_output \in Monitors \union {None}
  /\ bar.is_tray_host \in BOOLEAN
  /\ bar.order \in Seq(Apps)
  /\ bar.windows \in [Apps -> Seq(Windows)]
  /\ \A app \in Apps : bar.cycle[app] = 0 \/ bar.cycle[app] < Len(bar.windows[app])
  /\ DOMAIN bar.shown \subseteq DOMAIN toplevels
  /\ bar.pinned \subseteq ToSet(bar.order)
  /\ bar.drag.order \in Seq(Apps \union {Gone})
  /\ bar.drag # NoDrag => bar.drag.target \in DOMAIN bar.drag.order

\* The store and the bars are well formed: a click always finds a window at
\* cycle_idx and a drop a slot at drag_target_index (app.vala, panel.vala).
PanelTypeOK ==
  /\ DOMAIN toplevels = {w \in DOMAIN list : list[w].announced}
  /\ \A w \in DOMAIN toplevels : toplevels[w] \in Toplevel
  /\ \A i \in DOMAIN bars : BarTypeOK(bars[i])
  /\ pins_file \in Seq(Apps)

BarFollowsStore(bar) ==
  LET shown == bar.shown IN
  /\ DOMAIN shown = {id \in DOMAIN toplevels : Accepts(bar, toplevels[id])}
  /\ \A id \in DOMAIN shown : shown[id] = toplevels[id].app_id
  /\ \A app \in Apps :
       /\ ToSet(bar.windows[app]) = {id \in DOMAIN shown : shown[id] = app}
       /\ IsInjective(bar.windows[app])
  /\ ToSet(bar.order) = bar.pinned \union {app \in Apps : Open(bar, app)}
  /\ IsInjective(bar.order)

PinsSaved == Len(bars) = 1 => pins_file = PinnedOrder(bars[1])

\* Whatever is announced, moved, pinned, dragged or rebuilt, a bar has exactly
\* the windows it accepts, under one entry for each app, an entry stays as long
\* as it is pinned or has a window, and the pins on file are those of the panel
\* if there is one (AppBar's three tables, its box and save_pins).
BarsFollowStore ==
  PanelTypeOK /\ PinsSaved /\ \A i \in DOMAIN bars : BarFollowsStore(bars[i])

\* When the wire is quiet, what the panel shows is what the compositor has:
\* every window on the bar of its monitor and, with per-monitor apps, on no
\* other, and the focused one is the one drawn active (window_list.c through
\* ToplevelStore and App.rebuild_windows).  Its entry is that of the app_id the
\* window was announced with: a later one replaces the string of the list
\* (window_list.c:50-54), no callback is made, and the store keeps the first.
ShownWhereItIs ==
  bound /\ wire = <<>> =>
    /\ DOMAIN toplevels = Mapped
    /\ \A w \in Mapped :
         /\ toplevels[w].app_id = named[w]
         /\ list[w].app_id = apps[w]
         /\ toplevels[w].activated = (w = focus)
    /\ MultiMonitor =>
         \A i \in DOMAIN bars, w \in Mapped :
           i \in DOMAIN monitors =>
             (w \in DOMAIN bars[i].shown
                <=> ~PerMonitorApps \/ monitors[i] = places[w])
    /\ MultiMonitor /\ monitors # <<>> => Len(bars) = Len(monitors)
    /\ monitors = <<>> => \A i \in DOMAIN bars : DOMAIN bars[i].shown = Mapped

\* x stands before y in the list s.
StandsBefore(s, x, y) == \E i, j \in DOMAIN s : i < j /\ s[i] = x /\ s[j] = y

\* The box has the entries of the bar: first those that were in it when the drag
\* started, in that order but for the dragged one, which is at the target, then
\* the others as they came.
MovesOne(bar, box) ==
  LET others == RemoveFirst(bar.drag.order, bar.drag.app)
      target == bar.drag.target
      lined  == SubSeq(others, 1, target - 1) \o <<bar.drag.app>>
                  \o SubSeq(others, target, Len(others))
      newcomers == ToSet(bar.order) \ ToSet(bar.drag.order)
  IN  /\ ToSet(box) = ToSet(bar.order)
      /\ IsInjective(box)
      /\ \A x, y \in ToSet(box) :
           StandsBefore(box, x, y) <=>
             \/ StandsBefore(lined, x, y)
             \/ x \notin newcomers /\ y \in newcomers
             \/ {x, y} \subseteq newcomers /\ StandsBefore(bar.order, x, y)

\* A drop moves the dragged entry and no other, although windows come and go
\* during the drag, unless several entries went meanwhile: of those that stay,
\* the order is the committed one, and newcomers follow (on_drag_dropped).
DropMovesOne ==
  [][\A i \in DOMAIN bars :
       /\ Dragging(bars[i]) /\ IsInjective(bars[i].drag.order)
       /\ DOMAIN bars' = DOMAIN bars /\ wire' = wire
       /\ bars'[i].drag = NoDrag
       => MovesOne(bars[i], bars'[i].order)]_panelVars
=============================================================================
