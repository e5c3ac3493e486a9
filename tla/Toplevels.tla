----------------------------- MODULE Toplevels -----------------------------
(***************************************************************************)
(* wlhooks/protocols/window_list.c, wlr_toplevel.c and output.c: the       *)
(* client's list of windows, kept from the events of                       *)
(* wlr-foreign-toplevel-management, and the compositor that sends them.    *)
(* Events wait on the wire and are dispatched one by one.  A window stands *)
(* for its handle and for the id window_list_create gives it, which is     *)
(* never 0 and never used again.  AppBar adds what the callbacks do.       *)
(***************************************************************************)
EXTENDS Naturals, SequencesExt

CONSTANTS
  Apps,          \* app_ids
  Monitors,      \* connectors that may be plugged in
  None,          \* no app_id, no output, no window: NULL, "" and 0
  MaxWindows,    \* bound: windows mapped in a behaviour
  MaxChanges,    \* bound: monitors plugged or unplugged and windows renamed
  WireCap        \* bound: events on the wire when the compositor adds to it

ASSUME NoneAssumption  == None \notin Apps \union Monitors \union Nat
ASSUME BoundAssumption ==
  MaxWindows \in Nat /\ MaxChanges \in Nat /\ WireCap \in Nat

VARIABLES
  \* the compositor
  apps,            \* the app_id of each mapped window
  named,           \* history: the app_id each was mapped with
  places,          \* the monitor of each mapped window
  focus,           \* the window with the keyboard focus
  monitors,        \* the monitors, in the order they were announced
  maps, changes,   \* windows mapped, changes of monitors and names so far
  wire,            \* events the client has not dispatched
  \* the client
  bound,           \* init_toplevel_with_display has run
  list,            \* the toplevel_window_t of each handle
  outputs          \* the entries of output.c, in the order of GDK's monitor list

compositorVars == <<apps, named, places, focus, monitors, maps, changes>>
clientVars     == <<bound, list, outputs>>

Windows == 1..MaxWindows
Mapped  == DOMAIN apps

Extend(f, x, v)  == [y \in DOMAIN f \union {x} |-> IF y = x THEN v ELSE f[y]]
Omit(f, x)       == [y \in DOMAIN f \ {x} |-> f[y]]
Event(kind, w, value) == [kind |-> kind, window |-> w, value |-> value]

(***************************************************************************)
(* The compositor.  It tells a client that has bound the manager.          *)
(***************************************************************************)
Send(events) ==
  /\ Len(wire) < WireCap
  /\ wire' = IF bound THEN wire \o events ELSE wire

Leaves(w)    == IF places[w] = None THEN <<>> ELSE <<Event("leave", w, places[w])>>
Enters(w, m) == IF m = None THEN <<>> ELSE <<Event("enter", w, m)>>

\* A window on no monitor is one that has none to be on.
Homes(ms) == IF ms = <<>> THEN {None} ELSE ToSet(ms)

\* A window appears.  Its title and app_id come first, in either order.
MapWindow(app, m) ==
  LET w == maps + 1 IN
  /\ w \in Windows
  /\ maps' = w
  /\ apps' = Extend(apps, w, app)
  /\ named' = Extend(named, w, app)
  /\ places' = Extend(places, w, m)
  /\ \E names \in {<<"title", "app_id">>, <<"app_id", "title">>} :
       Send(<<Event("toplevel", w, None), Event(names[1], w, app),
              Event(names[2], w, app)>> \o Enters(w, m))
  /\ UNCHANGED <<focus, monitors, changes, clientVars>>

Unmap(w) ==
  /\ apps' = Omit(apps, w)
  /\ named' = Omit(named, w)
  /\ places' = Omit(places, w)
  /\ focus' = IF focus = w THEN None ELSE focus
  /\ Send(<<Event("closed", w, None)>>)
  /\ UNCHANGED <<monitors, maps, changes, clientVars>>

\* A mapped window takes another app_id.  A client that has not bound the manager
\* cannot tell it from one that was mapped with it.
Rename(w, app) ==
  /\ bound
  /\ changes < MaxChanges
  /\ app # apps[w]
  /\ changes' = changes + 1
  /\ apps' = [apps EXCEPT ![w] = app]
  /\ Send(<<Event("app_id", w, app)>>)
  /\ UNCHANGED <<named, places, focus, monitors, maps, clientVars>>

\* The focus moves to a window or, when the desktop is shown, to none.  The
\* states of the old and the new window are sent in either order.
Focus(w) ==
  LET off == IF focus = None THEN <<>> ELSE <<Event("state", focus, FALSE)>>
      on  == IF w = None THEN <<>> ELSE <<Event("state", w, TRUE)>>
  IN /\ w # focus
     /\ focus' = w
     /\ Send(off \o on) \/ Send(on \o off)
     /\ UNCHANGED <<apps, named, places, monitors, maps, changes, clientVars>>

MoveWindow(w, m) ==
  /\ m # places[w]
  /\ places' = [places EXCEPT ![w] = m]
  /\ Send(Leaves(w) \o Enters(w, m))
  /\ UNCHANGED <<apps, named, focus, monitors, maps, changes, clientVars>>

\* Windows that had no monitor go to the new one.
Plug(m) ==
  LET homeless == SetToSeq({w \in Mapped : places[w] = None}) IN
  /\ changes < MaxChanges
  /\ m \notin ToSet(monitors)
  /\ changes' = changes + 1
  /\ monitors' = Append(monitors, m)
  /\ places' = [w \in Mapped |-> IF places[w] = None THEN m ELSE places[w]]
  /\ Send(<<Event("global", None, m)>>
            \o [i \in DOMAIN homeless |-> Event("enter", homeless[i], m)])
  /\ UNCHANGED <<apps, named, focus, maps, clientVars>>

\* The windows of a monitor leave it before it is gone.
Unplug(m) ==
  LET rest  == RemoveFirst(monitors, m)
      moved == SetToSeq({w \in Mapped : places[w] = m})
  IN /\ changes < MaxChanges
     /\ changes' = changes + 1
     /\ monitors' = rest
     /\ \E home \in Homes(rest) :
          /\ places' = [w \in Mapped |-> IF places[w] = m THEN home ELSE places[w]]
          /\ Send(FlattenSeq([i \in DOMAIN moved |->
                                Leaves(moved[i]) \o Enters(moved[i], home)])
                    \o <<Event("global_remove", None, m)>>)
     /\ UNCHANGED <<apps, named, focus, maps, clientVars>>

Compositor ==
  \/ \E app \in Apps, m \in Homes(monitors) : MapWindow(app, m)
  \/ \E w \in Mapped : Unmap(w)
  \/ \E w \in Mapped, app \in Apps : Rename(w, app)
  \/ \E w \in Mapped \union {None} : Focus(w)
  \/ \E w \in Mapped, m \in ToSet(monitors) : MoveWindow(w, m)
  \/ \E m \in Monitors : Plug(m)
  \/ \E m \in ToSet(monitors) : Unplug(m)

(***************************************************************************)
(* window_list.c.  Each operator gives the new list; the callback it makes *)
(* follows from the list before and after, as the operators below it say.  *)
(***************************************************************************)
NewWindow == [app_id |-> None, title |-> None, output |-> None,
              activated |-> FALSE, announced |-> FALSE]

\* emit_new_if_ready, once a callback is registered.
Announced(e) == [e EXCEPT !.announced = @ \/ (e.app_id # None /\ e.title # None)]

SetTitle(w, title)   == [list EXCEPT ![w] = Announced([@ EXCEPT !.title = title])]
SetAppId(w, app_id)  == [list EXCEPT ![w] = Announced([@ EXCEPT !.app_id = app_id])]

\* Mutant: the sentinel is emitted whatever else is active.
FocusCallbackAlways(w, activated) ==
  IF list[w].activated = activated \/ ~list[w].announced THEN {}
  ELSE {IF activated THEN w ELSE None}

\* The ids set_activated calls back with: the window, the "no window" sentinel,
\* or none at all.
FocusCallback(w, activated) ==
  IF list[w].activated = activated \/ ~list[w].announced THEN {}
  ELSE IF activated THEN {w}
  ELSE IF \E other \in DOMAIN list \ {w} : list[other].activated THEN {}
  ELSE {None}

\* output_name_for_proxy: an output that is not known has no name.
Known(m) == m \in ToSet(outputs)

SetOutput(w, m, entered) ==
  [list EXCEPT ![w].output =
     IF entered THEN m ELSE IF @ = m THEN None ELSE @]

\* A leave of another output than the last entered one is not reported.
OutputCallback(w, m, entered) ==
  list[w].announced /\ (entered \/ list[w].output = m)
=============================================================================
