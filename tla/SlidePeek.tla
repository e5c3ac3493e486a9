----------------------------- MODULE SlidePeek -----------------------------
(***************************************************************************)
(* wayfire-plugins/slide-peek: a frozen picture of windows and panel moves *)
(* off one edge while the live grid comes in from the other.               *)
(***************************************************************************)
EXTENDS DrawerScene

\* The wallpaper is disabled once for the picture of the reveal and then enabled
\* again: it is in the picture if it is drawn nevertheless.
WallpaperInPicture(o) == enables[o]["BACKGROUND"] - 1 > 0

start_open(o) ==
  /\ Opens(o)
  /\ set_desktop_visible({o}, TRUE)
  /\ set_widgets_visible({o}, FALSE)
  /\ AddTransformer(o)
  /\ Disable(o, {"WORKSPACE", "TOP"})
  /\ screenshot' = [screenshot EXCEPT ![o] = 0]
  /\ UNCHANGED <<backdrop, slid>>

start_close(o) == Closes(o) /\ UNCHANGED <<picture, grid, widgets>>

ipc_toggle(o) == start_open(o) \/ start_close(o)
ipc_start(o)  == start_open(o)
ipc_stop(o)   == start_close(o)

apply_progress(o, p) ==
  /\ screenshot' = ShowAt(screenshot, o, p)
  /\ offset' = IF o \in desktop_tr \intersect desktop_view
               THEN [offset EXCEPT ![o] = p] ELSE offset
  /\ redraw' = redraw \union {o}

\* Mutant: the panel's layer stays off.
restoreWindows(S) ==
  /\ screenshot' = On(screenshot, S, None)
  /\ RemTransformer(S)
  /\ Enable(S, {"BACKGROUND", "WORKSPACE"})
  /\ slid' = slid \union S
  /\ UNCHANGED backdrop

\* The part of hard_reset that puts the layers back, and the wallpaper once more
\* than it was off.
restore(S) ==
  /\ screenshot' = On(screenshot, S, None)
  /\ RemTransformer(S)
  /\ Enable(S, Layers)
  /\ slid' = slid \union S
  /\ UNCHANGED backdrop

hard_reset(S) ==
  /\ restore(S)
  /\ set_widgets_visible(S, TRUE)
  /\ set_desktop_visible(S, FALSE)
  /\ Rests(S)

on_frame(o) ==
  \E p \in Ahead(o) :
    IF state[o] = "CLOSING" /\ p = 0
    THEN hard_reset({o})
    ELSE /\ apply_progress(o, p)
         /\ Advances(o, p)
         /\ UNCHANGED <<backdrop, layerVars, desktop_tr, grid, widgets>>

on_view_mapped(o) == GridMaps(o) /\ UNCHANGED <<course, picture, widgets>>

on_view_unmapped(o) ==
  \/ GridUnmaps(o) /\ UNCHANGED <<course, screenshot, backdrop, layerVars, widgets>>
  \/ WidgetsUnmap(o) /\ widget_view' = widget_view \ {o}
     /\ UNCHANGED <<course, picture, grid>>

\* On every output: a grid that is there already is hidden.
init == set_desktop_visible(Outputs, FALSE) /\ UNCHANGED <<course, picture, widgets>>

\* On every output: neither surface is left hidden when the plugin goes.
fini ==
  /\ restore(Open)
  /\ gridHidden' = gridHidden \ (desktop_view \union gridUp)
  /\ FiniShows
  /\ desktop_view' = {} /\ widget_view' = {}
  /\ Rests(Open)
  /\ UNCHANGED <<gridUp, widgetUp>>
=============================================================================
