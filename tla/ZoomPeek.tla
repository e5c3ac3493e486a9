------------------------------ MODULE ZoomPeek ------------------------------
(***************************************************************************)
(* wayfire-plugins/zoom-peek: the grid zooms in over a picture of the      *)
(* wallpaper and the windows that is blurred as the grid arrives.  The     *)
(* panel stays live, and the widget surface is not touched.                *)
(***************************************************************************)
EXTENDS DrawerScene

start_open(o) ==
  /\ Opens(o)
  /\ screenshot' = [screenshot EXCEPT ![o] = 0]
  /\ Disable(o, {"WORKSPACE"})
  /\ set_desktop_visible({o}, TRUE)
  /\ AddTransformer(o)
  /\ UNCHANGED <<backdrop, slid, widgets>>

start_close(o) == Closes(o) /\ UNCHANGED <<picture, grid, widgets>>

ipc_toggle(o) == start_open(o) \/ start_close(o)
ipc_start(o)  == start_open(o)
ipc_stop(o)   == start_close(o)

apply_progress(o, p) ==
  /\ offset' = IF o \in desktop_tr \intersect desktop_view
               THEN [offset EXCEPT ![o] = p] ELSE offset
  /\ screenshot' = ShowAt(screenshot, o, p)
  /\ redraw' = redraw \union {o}

restore(S) ==
  /\ screenshot' = On(screenshot, S, None)
  /\ RemTransformer(S)
  /\ Enable(S, {"WORKSPACE"})
  /\ UNCHANGED <<backdrop, slid>>

hard_reset(S) ==
  /\ restore(S)
  /\ set_desktop_visible(S, FALSE)
  /\ Rests(S)
  /\ UNCHANGED widgets

on_frame(o) ==
  \E p \in Ahead(o) :
    IF state[o] = "CLOSING" /\ p = 0
    THEN hard_reset({o})
    ELSE /\ apply_progress(o, p)
         /\ Advances(o, p)
         /\ UNCHANGED <<backdrop, layerVars, desktop_tr, grid, widgets>>

on_view_mapped(o) == GridMaps(o) /\ UNCHANGED <<course, picture, widgets>>

on_view_unmapped(o) ==
  \/ GridUnmaps(o) /\ UNCHANGED <<course, screenshot, backdrop, layerVars, widgets>>
  \/ WidgetsUnmap(o) /\ UNCHANGED <<course, picture, grid, widget_view>>

init == set_desktop_visible(Outputs, FALSE) /\ UNCHANGED <<course, picture, widgets>>

fini ==
  /\ restore(Open)
  /\ gridHidden' = gridHidden \ (desktop_view \union gridUp)
  /\ desktop_view' = {}
  /\ Rests(Open)
  /\ UNCHANGED <<gridUp, widgets>>
=============================================================================
