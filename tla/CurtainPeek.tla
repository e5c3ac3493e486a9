---------------------------- MODULE CurtainPeek ----------------------------
(***************************************************************************)
(* wayfire-plugins/curtain-peek: a frozen picture of the whole output is   *)
(* gathered to both sides like a curtain.  The grid stands still behind    *)
(* it, on a grey fill, so it needs no transformer.                         *)
(***************************************************************************)
EXTENDS DrawerScene

start_open(o) ==
  /\ Opens(o)
  /\ set_desktop_visible({o}, TRUE)
  /\ set_widgets_visible({o}, FALSE)
  /\ backdrop' = backdrop \union {o}
  /\ Disable(o, Layers)
  /\ screenshot' = [screenshot EXCEPT ![o] = 0]
  /\ UNCHANGED <<slid, desktop_tr, offset>>

start_close(o) == Closes(o) /\ UNCHANGED <<picture, grid, widgets>>

ipc_toggle(o) == start_open(o) \/ start_close(o)
ipc_start(o)  == start_open(o)
ipc_stop(o)   == start_close(o)

\* Without a picture nothing is damaged, and no further frame is asked for.
apply_progress(o, p) ==
  /\ screenshot' = ShowAt(screenshot, o, p)
  /\ redraw' = IF screenshot[o] = None THEN redraw \ {o} ELSE redraw \union {o}

restore(S) ==
  /\ screenshot' = On(screenshot, S, None)
  /\ Enable(S, Layers)
  /\ backdrop' = backdrop \ S
  /\ UNCHANGED <<slid, desktop_tr, offset>>

hard_reset(S) ==
  /\ restore(S)
  /\ set_widgets_visible(S, TRUE)
  /\ set_desktop_visible(S, FALSE)
  /\ Rests(S)

on_frame(o) ==
  \E p \in Ahead(o) :
    IF state[o] = "CLOSING" /\ p = 0
    THEN hard_reset({o})
    ELSE /\ apply_progress(o, p)
         /\ Advances(o, p)
         /\ UNCHANGED <<backdrop, layerVars, desktop_tr, offset, grid, widgets>>

on_view_mapped(o) == GridMaps(o) /\ UNCHANGED <<course, picture, widgets>>

on_view_unmapped(o) ==
  \/ GridUnmaps(o) /\ UNCHANGED <<course, screenshot, backdrop, layerVars, widgets>>
  \/ WidgetsUnmap(o) /\ widget_view' = widget_view \ {o}
     /\ UNCHANGED <<course, picture, grid>>

init == set_desktop_visible(Outputs, FALSE) /\ UNCHANGED <<course, picture, widgets>>

fini ==
  /\ restore(Open)
  /\ gridHidden' = gridHidden \ (desktop_view \union gridUp)
  /\ FiniShows
  /\ desktop_view' = {} /\ widget_view' = {}
  /\ Rests(Open)
  /\ UNCHANGED <<gridUp, widgetUp>>
=============================================================================
