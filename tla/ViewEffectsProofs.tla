------------------------- MODULE ViewEffectsProofs -------------------------
(***************************************************************************)
(* Proofs about ViewEffects for any views and length of the animations:    *)
(* that no view is left shifted, that a hidden panel pushes nothing, and   *)
(* where desktop-peek moves a window.                                      *)
(***************************************************************************)
EXTENDS ViewEffects, Integers, TLAPS

-----------------------------------------------------------------------------
(***************************************************************************)
(* Animations.                                                             *)
(***************************************************************************)
LEMMA Ends == 0 \in Progress /\ Full \in Progress /\ Still \in Anims
BY FullAssumption DEF Progress, Anims, Still

LEMMA Positions ==
  ASSUME NEW a \in Anims
  PROVE  Now(a) \subseteq Progress /\ Next1(a) \subseteq Progress /\ a.to \in Progress
BY DEF Now, Next1, Anims

\* What has arrived is where it goes.
LEMMA Arrived == ASSUME NEW a \in Anims, a.at = a.to PROVE Now(a) \subseteq {a.to}
BY DEF Now, Anims, Progress

\* The plugins' animations are these, and so are their views.
LEMMA Same ==
  /\ Desk!Still = Still /\ Push!Still = Still
  /\ \A a : Desk!Now(a) = Now(a) /\ Desk!Next1(a) = Next1(a)
  /\ \A a : Push!Now(a) = Now(a) /\ Push!Next1(a) = Next1(a)
  /\ Push!Views = Views
<1>1. Desk!Progress = Progress /\ Push!Progress = Progress
  BY DEF Desk!Progress, Push!Progress, Progress
<1>2. \A a : Desk!Now(a) = Now(a) /\ Push!Now(a) = Now(a)
  BY <1>1 DEF Desk!Now, Push!Now, Now
<1>3. \A a : Desk!Next1(a) = Next1(a) /\ Push!Next1(a) = Next1(a)
  BY <1>2 DEF Desk!Next1, Push!Next1, Next1
<1>4. Desk!Still = Still /\ Push!Still = Still
  BY DEF Desk!Still, Push!Still, Still
<1>5. Push!Views = Views
  BY DEF Push!Views, Desk!Views, Views
<1> QED
  BY <1>2, <1>3, <1>4, <1>5

-----------------------------------------------------------------------------
(***************************************************************************)
(* The scene.                                                              *)
(***************************************************************************)
SceneInv ==
  /\ mapped \subseteq Views /\ away \subseteq Toplevels \intersect mapped
  /\ redraw \in BOOLEAN /\ inhibited \in BOOLEAN

PanelInv ==
  /\ reveal_target \in BOOLEAN /\ slide_tick \in BOOLEAN
  /\ collapse_timeout \in BOOLEAN /\ ours \in BOOLEAN

-----------------------------------------------------------------------------
(***************************************************************************)
(* The peek.  That what has settled has moved all of the way needs where   *)
(* an animation that opens goes.                                           *)
(***************************************************************************)
PeekInv ==
  /\ peekState \in {"IDLE", "OUT", "PEEKED", "IN"}
  /\ peeked \in Shifts /\ peekAnim \in Anims
  /\ peekHook \in BOOLEAN /\ peekActive \in BOOLEAN
  /\ \A v \in Views : peeked[v] # None => v \in mapped
  /\ peekActive <=> peekState # "IDLE"
  /\ peekActive <=> \E v \in Views : peeked[v] # None
  /\ peekHook <=> peekState \in {"OUT", "IN"}
  /\ inhibited => ~peekActive
  /\ peekState = "OUT" => peekAnim.to = Full
  /\ peekState = "PEEKED" => \A v \in Views : peeked[v] \in {None, Full}

LEMMA PeekStarts ==
  ASSUME PeekInv, SceneInv, Desk!start_peek, UNCHANGED <<mapped, inhibited>>
  PROVE  PeekInv'
<1> DEFINE windows == {v \in Toplevels : v \in mapped \ away}
<1>1. /\ ~inhibited /\ windows # {}
      /\ peekState' = "OUT" /\ peekAnim' = [at |-> 0, to |-> Full]
      /\ peekHook' = TRUE /\ peekActive' = TRUE
      /\ peeked' = [v \in Views |-> IF v \in windows THEN 0 ELSE None]
  BY DEF Desk!start_peek, Desk!Starts, Desk!Seen, Desk!Shifted, Views
<1>2. windows \subseteq Views
  BY DEF SceneInv
<1>3. \E v \in Views : peeked'[v] # None
  BY <1>1, <1>2, Ends, NoneAssumption
<1>4. peeked' \in Shifts /\ peekAnim' \in Anims
  BY <1>1, Ends DEF Shifts, Anims
<1>5. \A v \in Views : peeked'[v] # None => v \in mapped'
  BY <1>1
<1> QED
  BY <1>1, <1>3, <1>4, <1>5 DEF PeekInv

LEMMA PeekRestores ==
  ASSUME PeekInv, Desk!start_restore, UNCHANGED <<mapped, inhibited>>
  PROVE  PeekInv'
<1>1. /\ peekState \in {"PEEKED", "OUT"} /\ peekState' = "IN"
      /\ peekHook' = TRUE
      /\ UNCHANGED <<peeked, peekActive>>
  BY DEF Desk!start_restore, Desk!Restores, PeekInv
<1>2. peekAnim' \in Anims
  <2>1. PICK p \in Desk!Now(peekAnim) : peekAnim' = [at |-> p, to |-> 0]
    BY DEF Desk!start_restore, Desk!Restores
  <2>2. p \in Progress
    BY <2>1, Same, Positions DEF PeekInv
  <2> QED
    BY <2>1, <2>2, Ends DEF Anims
<1> QED
  BY <1>1, <1>2 DEF PeekInv

\* Everything is given back, whoever asks for it.
LEMMA PeekResets ==
  ASSUME PeekInv, Desk!hard_reset \/ Desk!fini
  PROVE  PeekInv'
<1>1. /\ peeked' = [v \in Views |-> None]
      /\ peekState' = "IDLE" /\ peekHook' = FALSE /\ peekActive' = FALSE
  BY DEF Desk!hard_reset, Desk!fini, Desk!Shifted, Views
<1>2. peekAnim' \in Anims
  BY Ends, Same DEF Desk!hard_reset, Desk!fini, PeekInv
<1>3. peeked' \in Shifts
  BY <1>1 DEF Shifts
<1>4. \A v \in Views : peeked'[v] = None
  BY <1>1
<1> QED
  BY <1>1, <1>2, <1>3, <1>4 DEF PeekInv

LEMMA PeekDrops ==
  ASSUME PeekInv, NEW u \in Views, Desk!drop_view(u), mapped' = mapped \ {u},
         inhibited' = inhibited
  PROVE  PeekInv'
<1>1. CASE Desk!Tracked = {u}
  BY <1>1, PeekResets DEF Desk!drop_view
<1>2. CASE Desk!Tracked # {u}
  <2>1. /\ peeked' = [peeked EXCEPT ![u] = None]
        /\ UNCHANGED <<peekState, peekAnim, peekHook, peekActive>>
    BY <1>2 DEF Desk!drop_view
  <2>2. peeked' \in Shifts
    BY <2>1 DEF PeekInv, Shifts
  <2>3. \A v \in Views : peeked'[v] = IF v = u THEN None ELSE peeked[v]
    BY <2>1 DEF PeekInv, Shifts
  <2>4. (\E v \in Views : peeked[v] # None) => \E v \in Views : v # u /\ peeked[v] # None
    <3>1. Desk!Tracked = {v \in Views : peeked[v] # None}
      BY DEF Desk!Tracked, Views
    <3> QED
      BY <1>2, <3>1
  <2>5. (\E v \in Views : peeked'[v] # None) <=> \E v \in Views : peeked[v] # None
    BY <2>3, <2>4
  <2>6. \A v \in Views : peeked'[v] # None => v \in mapped'
    BY <2>3 DEF PeekInv
  <2> QED
    BY <2>1, <2>2, <2>3, <2>5, <2>6 DEF PeekInv
<1> QED
  BY <1>1, <1>2

\* A frame moves what is tracked, settles it or brings all to an end.
LEMMA PeekFrame ==
  ASSUME PeekInv, peekHook, Desk!on_frame, UNCHANGED <<mapped, inhibited>>
  PROVE  PeekInv'
<1>1. peekState \in {"OUT", "IN"} /\ peekActive /\ ~inhibited
  BY DEF PeekInv
<1>2. PICK p \in Desk!Next1(peekAnim) :
        IF p # peekAnim.to
        THEN /\ Desk!apply_progress(p)
             /\ peekAnim' = [peekAnim EXCEPT !.at = p]
             /\ UNCHANGED <<peekState, peekHook, peekActive>>
        ELSE IF peekState = "OUT"
             THEN /\ Desk!apply_progress(Full)
                  /\ peekAnim' = [peekAnim EXCEPT !.at = p]
                  /\ peekState' = "PEEKED" /\ peekHook' = FALSE
                  /\ UNCHANGED peekActive
             ELSE /\ peeked' = Desk!Shifted({}, 0)
                  /\ peekAnim' = [peekAnim EXCEPT !.at = p]
                  /\ peekState' = "IDLE" /\ peekHook' = FALSE /\ peekActive' = FALSE
  BY DEF Desk!on_frame, Desk!Steps
<1>3. p \in Progress
  BY Same, Positions DEF PeekInv
<1>4. peekAnim' \in Anims /\ peekAnim'.to = peekAnim.to
  BY <1>2, <1>3 DEF PeekInv, Anims
<1>5. \A q \in Progress : Desk!apply_progress(q) =>
        /\ peeked' \in Shifts
        /\ \A v \in Views : peeked'[v] = IF peeked[v] # None THEN q ELSE None
  BY DEF Desk!apply_progress, Desk!Shifted, Desk!Tracked, Views, Shifts
<1>6. CASE p # peekAnim.to
  <2>1. /\ peeked' \in Shifts
        /\ \A v \in Views : peeked'[v] # None <=> peeked[v] # None
    BY <1>2, <1>3, <1>5, <1>6, NoneAssumption
  <2>2. UNCHANGED <<peekState, peekHook, peekActive>>
    BY <1>2, <1>6
  <2> QED
    BY <1>1, <1>4, <2>1, <2>2 DEF PeekInv
<1>7. CASE p = peekAnim.to /\ peekState = "OUT"
  <2>1. /\ peekState' = "PEEKED" /\ peekHook' = FALSE /\ UNCHANGED peekActive
        /\ Desk!apply_progress(Full)
    BY <1>2, <1>7
  <2>2. /\ peeked' \in Shifts
        /\ \A v \in Views : peeked'[v] \in {None, Full}
        /\ \A v \in Views : peeked'[v] # None <=> peeked[v] # None
    BY <1>5, <2>1, Ends, NoneAssumption
  <2> QED
    BY <1>1, <1>4, <2>1, <2>2 DEF PeekInv
<1>8. CASE p = peekAnim.to /\ peekState = "IN"
  <2>1. /\ peekState' = "IDLE" /\ peekHook' = FALSE /\ peekActive' = FALSE
        /\ peeked' = [v \in Views |-> None]
    BY <1>2, <1>8 DEF Desk!Shifted, Views
  <2>2. peeked' \in Shifts /\ \A v \in Views : peeked'[v] = None
    BY <2>1 DEF Shifts
  <2> QED
    BY <1>4, <2>1, <2>2 DEF PeekInv
<1> QED
  BY <1>1, <1>6, <1>7, <1>8

\* Views that map and windows that leave the sight do nothing to it.
LEMMA PeekStays ==
  ASSUME PeekInv, UNCHANGED peekVars, mapped \subseteq mapped',
         inhibited' => inhibited \/ ~peekActive
  PROVE  PeekInv'
BY DEF PeekInv, peekVars, Shifts

-----------------------------------------------------------------------------
(***************************************************************************)
(* The push.  It may go on without a view, and takes in views that map, at *)
(* the place the animation has reached.                                    *)
(***************************************************************************)
PushInv ==
  /\ pushState \in {"IDLE", "OUT", "PUSHED", "IN"}
  /\ pushed \in Shifts /\ pushAnim \in Anims
  /\ pushHook \in BOOLEAN /\ pushActive \in BOOLEAN
  /\ \A v \in Views : pushed[v] # None => v \in mapped
  /\ pushed[Panel] = None
  /\ pushActive <=> pushState # "IDLE"
  /\ \A v \in Views : pushed[v] # None => pushActive
  /\ pushHook <=> pushState \in {"OUT", "IN"}
  /\ inhibited => ~pushActive
  /\ pushState \in {"OUT", "PUSHED"} => pushAnim.to = Full
  /\ pushState = "PUSHED" => pushAnim.at = Full /\ \A v \in Views : pushed[v] \in {None, Full}

LEMMA PanelIsView == Panel \in Views
BY DEF Views, Desk!Views

LEMMA PushStarts ==
  ASSUME PushInv, SceneInv, Push!start_push, UNCHANGED <<mapped, inhibited>>
  PROVE  PushInv'
<1>1. PICK few \in SUBSET (Push!Scene \intersect away), p \in Push!Now(pushAnim) :
        Push!Starts(Push!Scene \ few) /\ pushed' = Push!Shifted(Push!Scene \ few, p)
  BY DEF Push!start_push
<1>2. p \in Progress
  BY Same, Positions DEF PushInv
<1>3. Push!Scene \subseteq mapped /\ Panel \notin Push!Scene
  BY PanelAssumption DEF Push!Scene
<1>4. /\ ~inhibited
      /\ pushState' = "OUT" /\ pushAnim' = [at |-> 0, to |-> Full]
      /\ pushHook' = TRUE /\ pushActive' = TRUE
  BY <1>1 DEF Push!Starts
<1>5. pushed' = [v \in Views |-> IF v \in Push!Scene \ few THEN p ELSE None]
  BY <1>1, Same DEF Push!Shifted
<1>6. pushed' \in Shifts /\ pushAnim' \in Anims /\ pushAnim'.to = Full
  BY <1>2, <1>4, <1>5, Ends DEF Shifts, Anims
<1>7. \A v \in Views : pushed'[v] # None => v \in mapped'
  BY <1>3, <1>5
<1>8. pushed'[Panel] = None
  BY <1>3, <1>5, PanelIsView
<1> QED
  BY <1>4, <1>6, <1>7, <1>8 DEF PushInv

LEMMA PushRestores ==
  ASSUME PushInv, Push!start_restore, UNCHANGED <<mapped, inhibited>>
  PROVE  PushInv'
<1>1. /\ pushState \in {"PUSHED", "OUT"} /\ pushState' = "IN"
      /\ pushHook' = TRUE
      /\ UNCHANGED <<pushed, pushActive>>
  BY DEF Push!start_restore, Push!Restores, PushInv
<1>2. pushAnim' \in Anims
  <2>1. PICK p \in Push!Now(pushAnim) : pushAnim' = [at |-> p, to |-> 0]
    BY DEF Push!start_restore, Push!Restores
  <2>2. p \in Progress
    BY <2>1, Same, Positions DEF PushInv
  <2> QED
    BY <2>1, <2>2, Ends DEF Anims
<1> QED
  BY <1>1, <1>2 DEF PushInv

LEMMA PushResets ==
  ASSUME PushInv, Push!hard_reset \/ Push!fini
  PROVE  PushInv'
<1>1. /\ pushed' = [v \in Views |-> None]
      /\ pushState' = "IDLE" /\ pushHook' = FALSE /\ pushActive' = FALSE
  BY Same DEF Push!hard_reset, Push!fini, Push!Shifted
<1>2. pushAnim' \in Anims
  BY Ends, Same DEF Push!hard_reset, Push!fini, PushInv
<1>3. pushed' \in Shifts /\ pushed'[Panel] = None
  BY <1>1, PanelIsView DEF Shifts
<1>4. \A v \in Views : pushed'[v] = None
  BY <1>1
<1> QED
  BY <1>1, <1>2, <1>3, <1>4 DEF PushInv

LEMMA PushDrops ==
  ASSUME PushInv, NEW u \in Views, Push!drop_view(u), mapped' = mapped \ {u},
         inhibited' = inhibited
  PROVE  PushInv'
<1>1. /\ pushed' = [pushed EXCEPT ![u] = None]
      /\ UNCHANGED <<pushState, pushAnim, pushHook, pushActive>>
  BY DEF Push!drop_view
<1>2. pushed' \in Shifts /\ \A v \in Views : pushed'[v] = IF v = u THEN None ELSE pushed[v]
  BY <1>1 DEF PushInv, Shifts
<1>3. pushed'[Panel] = None
  BY <1>2, PanelIsView DEF PushInv
<1> QED
  BY <1>1, <1>2, <1>3 DEF PushInv

\* A view that maps goes with what is pushed, all of the way when it has settled.
LEMMA PushTakesIn ==
  ASSUME PushInv, NEW u \in Views, Push!on_view_mapped(u), mapped' = mapped \union {u},
         inhibited' = inhibited
  PROVE  PushInv'
<1>1. UNCHANGED <<pushState, pushAnim, pushHook, pushActive>>
  BY DEF Push!on_view_mapped
<1>2. CASE pushState \in {"OUT", "PUSHED"} /\ u # Panel
  <2>1. PICK p \in Push!Now(pushAnim) : pushed' = [pushed EXCEPT ![u] = p]
    BY <1>2 DEF Push!on_view_mapped
  <2>2. p \in Progress /\ (pushState = "PUSHED" => p = Full)
    BY <2>1, Same, Positions, Arrived DEF PushInv
  <2>3. pushed' \in Shifts /\ \A v \in Views : pushed'[v] = IF v = u THEN p ELSE pushed[v]
    BY <2>1, <2>2 DEF PushInv, Shifts
  <2>4. pushed'[Panel] = None
    BY <1>2, <2>3, PanelIsView DEF PushInv
  <2> QED
    BY <1>1, <1>2, <2>2, <2>3, <2>4 DEF PushInv
<1>3. CASE ~(pushState \in {"OUT", "PUSHED"} /\ u # Panel)
  <2>1. pushed' = pushed
    BY <1>3 DEF Push!on_view_mapped
  <2> QED
    BY <1>1, <2>1 DEF PushInv, Shifts
<1> QED
  BY <1>2, <1>3

LEMMA PushFrame ==
  ASSUME PushInv, pushHook, Push!on_frame, UNCHANGED <<mapped, inhibited>>
  PROVE  PushInv'
<1>1. pushState \in {"OUT", "IN"} /\ pushActive /\ ~inhibited
  BY DEF PushInv
<1>2. PICK p \in Push!Next1(pushAnim) :
        IF p # pushAnim.to
        THEN /\ Push!apply_progress(p)
             /\ pushAnim' = [pushAnim EXCEPT !.at = p]
             /\ UNCHANGED <<pushState, pushHook, pushActive>>
        ELSE IF pushState = "OUT"
             THEN /\ Push!apply_progress(Full)
                  /\ pushAnim' = [pushAnim EXCEPT !.at = p]
                  /\ pushState' = "PUSHED" /\ pushHook' = FALSE
                  /\ UNCHANGED pushActive
             ELSE /\ pushed' = Push!Shifted({}, 0)
                  /\ pushAnim' = [pushAnim EXCEPT !.at = p]
                  /\ pushState' = "IDLE" /\ pushHook' = FALSE /\ pushActive' = FALSE
  BY DEF Push!on_frame, Push!Steps
<1>3. p \in Progress
  BY Same, Positions DEF PushInv
<1>4. pushAnim' \in Anims /\ pushAnim'.to = pushAnim.to /\ pushAnim'.at = p
  BY <1>2, <1>3 DEF PushInv, Anims
<1>5. \A q \in Progress : Push!apply_progress(q) =>
        /\ pushed' \in Shifts
        /\ \A v \in Views : pushed'[v] = IF pushed[v] # None THEN q ELSE None
  BY Same DEF Push!apply_progress, Push!Shifted, Push!Tracked, Shifts
<1>6. CASE p # pushAnim.to
  <2>1. /\ pushed' \in Shifts
        /\ \A v \in Views : pushed'[v] # None <=> pushed[v] # None
    BY <1>2, <1>3, <1>5, <1>6, NoneAssumption
  <2>2. UNCHANGED <<pushState, pushHook, pushActive>>
    BY <1>2, <1>6
  <2>3. pushed'[Panel] = None
    BY <2>1, PanelIsView DEF PushInv
  <2> QED
    BY <1>1, <1>4, <2>1, <2>2, <2>3 DEF PushInv
<1>7. CASE p = pushAnim.to /\ pushState = "OUT"
  <2>1. /\ pushState' = "PUSHED" /\ pushHook' = FALSE /\ UNCHANGED pushActive
        /\ Push!apply_progress(Full) /\ p = Full
    BY <1>2, <1>7 DEF PushInv
  <2>2. /\ pushed' \in Shifts
        /\ \A v \in Views : pushed'[v] \in {None, Full}
        /\ \A v \in Views : pushed'[v] # None <=> pushed[v] # None
    BY <1>5, <2>1, Ends, NoneAssumption
  <2>3. pushed'[Panel] = None
    BY <2>2, PanelIsView DEF PushInv
  <2>4. pushAnim'.to = Full /\ pushAnim'.at = Full
    BY <1>4, <1>7, <2>1
  <2> QED
    BY <1>1, <1>4, <2>1, <2>2, <2>3, <2>4 DEF PushInv
<1>8. CASE p = pushAnim.to /\ pushState = "IN"
  <2>1. /\ pushState' = "IDLE" /\ pushHook' = FALSE /\ pushActive' = FALSE
        /\ pushed' = [v \in Views |-> None]
    BY <1>2, <1>8, Same DEF Push!Shifted
  <2>2. pushed' \in Shifts /\ \A v \in Views : pushed'[v] = None
    BY <2>1 DEF Shifts
  <2>3. pushed'[Panel] = None
    BY <2>2, PanelIsView
  <2> QED
    BY <1>4, <2>1, <2>2, <2>3 DEF PushInv
<1> QED
  BY <1>1, <1>6, <1>7, <1>8

LEMMA PushStays ==
  ASSUME PushInv, UNCHANGED pushVars, mapped \subseteq mapped',
         inhibited' => inhibited \/ ~pushActive
  PROVE  PushInv'
BY DEF PushInv, pushVars, Shifts

\* What the panel asks for is a verb or nothing.
LEMMA PushRevealed ==
  ASSUME PushInv, SceneInv, NEW reveal \in BOOLEAN, set_reveal(reveal),
         UNCHANGED <<mapped, inhibited>>
  PROVE  PushInv'
<1>1. Push!ipc_start \/ Push!ipc_stop \/ UNCHANGED pushVars
  BY DEF set_reveal
<1> QED
  BY <1>1, PushStarts, PushRestores, PushStays DEF Push!ipc_start, Push!ipc_stop

-----------------------------------------------------------------------------
(***************************************************************************)
(* All together.                                                           *)
(***************************************************************************)
IInv == SceneInv /\ PanelInv /\ PeekInv /\ PushInv

LEMMA Start == Init => IInv
<1> SUFFICES ASSUME Init PROVE IInv
  OBVIOUS
<1>1. SceneInv /\ PanelInv
  BY PanelIsView DEF Init, SceneInv, PanelInv
<1>2. peeked \in Shifts /\ pushed \in Shifts /\ \A v \in Views : peeked[v] = None /\ pushed[v] = None
  BY DEF Init, Shifts
<1>3. PeekInv
  BY <1>2, Ends DEF Init, PeekInv
<1>4. PushInv
  BY <1>2, Ends, PanelIsView DEF Init, PushInv
<1> QED
  BY <1>1, <1>3, <1>4 DEF IInv

LEMMA Step == IInv /\ [Next]_vars => IInv'
<1> SUFFICES ASSUME IInv, [Next]_vars PROVE IInv'
  OBVIOUS
<1> USE DEF IInv
<1>1. ASSUME NEW v \in Views, Map(v) PROVE IInv'
  <2>1. SceneInv' /\ PanelInv'
    BY <1>1 DEF Map, SceneInv, PanelInv, panelVars
  <2>2. PeekInv'
    BY <1>1, PeekStays DEF Map
  <2>3. PushInv'
    BY <1>1, PushTakesIn DEF Map
  <2> QED
    BY <2>1, <2>2, <2>3
<1>2. ASSUME NEW v \in Views, Unmap(v) PROVE IInv'
  <2>1. SceneInv' /\ PanelInv'
    BY <1>2 DEF Unmap, SceneInv, PanelInv, panelVars
  <2> QED
    BY <1>2, <2>1, PeekDrops, PushDrops DEF Unmap
<1>3. ASSUME NEW v \in Views, Leave(v) PROVE IInv'
  <2>1. SceneInv' /\ PanelInv'
    BY <1>3 DEF Leave, SceneInv, PanelInv, panelVars
  <2> QED
    BY <1>3, <2>1, PeekStays, PushStays DEF Leave
<1>4. ASSUME Frame PROVE IInv'
  <2>1. SceneInv' /\ PanelInv'
    BY <1>4 DEF Frame, SceneInv, PanelInv, panelVars
  <2>2. PeekInv'
    BY <1>4, PeekFrame, PeekStays DEF Frame
  <2>3. PushInv'
    BY <1>4, PushFrame, PushStays DEF Frame
  <2> QED
    BY <2>1, <2>2, <2>3
<1>5. ASSUME Damage \/ Allow PROVE IInv'
  <2>1. SceneInv' /\ PanelInv'
    BY <1>5 DEF Damage, Allow, SceneInv, PanelInv, panelVars
  <2> QED
    BY <1>5, <2>1, PeekStays, PushStays DEF Damage, Allow
<1>6. ASSUME Inhibit PROVE IInv'
  <2>1. SceneInv' /\ PanelInv'
    BY <1>6 DEF Inhibit, SceneInv, PanelInv, panelVars
  <2>2. PeekInv'
    BY <1>6, PeekResets, PeekStays DEF Inhibit
  <2>3. PushInv'
    BY <1>6, PushResets, PushStays DEF Inhibit
  <2> QED
    BY <2>1, <2>2, <2>3
<1>7. ASSUME CallPeek PROVE IInv'
  <2>1. Desk!start_peek \/ Desk!start_restore
    BY <1>7 DEF CallPeek, Desk!ipc_toggle, Desk!ipc_start, Desk!ipc_stop
  <2>2. redraw' \in BOOLEAN
    BY <2>1 DEF Desk!start_peek, Desk!Starts, Desk!start_restore, Desk!Restores, SceneInv
  <2>3. SceneInv' /\ PanelInv'
    BY <1>7, <2>2 DEF CallPeek, SceneInv, PanelInv, panelVars
  <2> QED
    BY <1>7, <2>1, <2>3, PeekStarts, PeekRestores, PushStays DEF CallPeek
<1>8. ASSUME CallPush PROVE IInv'
  <2>1. Push!start_push \/ Push!start_restore
    BY <1>8 DEF CallPush, Push!ipc_toggle, Push!ipc_start, Push!ipc_stop
  <2>2. redraw' \in BOOLEAN
    BY <2>1 DEF Push!start_push, Push!Starts, Push!start_restore, Push!Restores, SceneInv
  <2>3. SceneInv' /\ PanelInv'
    BY <1>8, <2>2 DEF CallPush, SceneInv, PanelInv, panelVars
  <2> QED
    BY <1>8, <2>1, <2>3, PushStarts, PushRestores, PeekStays DEF CallPush
<1>9. ASSUME Reload PROVE IInv'
  <2>1. SceneInv' /\ PanelInv'
    BY <1>9 DEF Reload, SceneInv, PanelInv, panelVars
  <2>2. PeekInv'
    BY <1>9, PeekResets, PeekStays DEF Reload
  <2>3. PushInv'
    BY <1>9, PushResets, PushStays DEF Reload
  <2> QED
    BY <2>1, <2>2, <2>3
<1>10. ASSUME NEW reveal \in BOOLEAN, set_reveal(reveal), collapse_timeout' = FALSE,
              UNCHANGED <<mapped, away, inhibited, peekVars>>
       PROVE  IInv'
  <2>1. redraw' \in BOOLEAN /\ PanelInv'
    BY <1>10 DEF set_reveal, Push!ipc_start, Push!ipc_stop, Push!start_push, Push!Starts,
                 Push!start_restore, Push!Restores, SceneInv, PanelInv
  <2>2. SceneInv'
    BY <1>10, <2>1 DEF SceneInv
  <2> QED
    BY <1>10, <2>1, <2>2, PushRevealed, PeekStays
<1>11. ASSUME PointerEnters \/ CollapseTimeout PROVE IInv'
  BY <1>10, <1>11 DEF PointerEnters, CollapseTimeout
<1>12. ASSUME RebuildPanel \/ PointerLeaves \/ SlideEnds PROVE IInv'
  <2>1. SceneInv' /\ PanelInv'
    BY <1>12 DEF RebuildPanel, PointerLeaves, SlideEnds, sceneVars, SceneInv, PanelInv
  <2> QED
    BY <1>12, <2>1, PeekStays, PushStays DEF RebuildPanel, PointerLeaves, SlideEnds, sceneVars
<1>13. CASE UNCHANGED vars
  <2>1. SceneInv' /\ PanelInv'
    BY <1>13 DEF vars, sceneVars, panelVars, SceneInv, PanelInv
  <2> QED
    BY <1>13, <2>1, PeekStays, PushStays DEF vars, sceneVars
<1> QED
  BY <1>1, <1>2, <1>3, <1>4, <1>5, <1>6, <1>7, <1>8, <1>9, <1>11, <1>12, <1>13 DEF Next

\* Whatever maps, unmaps, leaves the sight, is called or locked, a view is shifted
\* only by a plugin that is at work on it and will be told when it goes.
THEOREM ViewsStayInPlace == Spec => []ViewsInPlace
<1>1. IInv => ViewsInPlace
  <2> SUFFICES ASSUME IInv PROVE ViewsInPlace
    OBVIOUS
  <2>1. TypeOK
    BY DEF IInv, SceneInv, PanelInv, PeekInv, PushInv, TypeOK
  <2>2. /\ Desk!Tracked = {v \in Views : peeked[v] # None}
        /\ Push!Tracked = {v \in Views : pushed[v] # None}
    BY Same DEF Desk!Tracked, Push!Tracked, Views
  <2>3. /\ Desk!Tracked \subseteq mapped
        /\ peekActive = (peekState # "IDLE")
        /\ peekHook = (peekState \in {"OUT", "IN"})
        /\ inhibited => ~peekActive
        /\ peekState = "PEEKED" => \A v \in Desk!Tracked : peeked[v] = Full
    BY <2>2 DEF IInv, PeekInv
  <2>4. peekActive = (Desk!Tracked # {})
    BY <2>2 DEF IInv, PeekInv
  <2>5. /\ Push!Tracked \subseteq mapped
        /\ pushActive = (pushState # "IDLE") /\ (Push!Tracked # {} => pushActive)
        /\ pushHook = (pushState \in {"OUT", "IN"})
        /\ inhibited => ~pushActive
        /\ pushState = "PUSHED" => \A v \in Push!Tracked : pushed[v] = Full
        /\ pushed[Panel] = None
    BY <2>2 DEF IInv, PushInv
  <2> QED
    BY <2>1, <2>3, <2>4, <2>5 DEF ViewsInPlace
<1> QED
  BY <1>1, Start, Step, PTL DEF Spec

\* A push that the panel window began and that was left to it ends no later than its
\* reveal: whoever turns the reveal back has stopped it, or found it stopped.  Of
\* pushes by hand, and of one that outlives its panel window, it says nothing.
THEOREM OwnPushEndsWithReveal == Spec => []PushEndsWithReveal
<1>1. Init => PushEndsWithReveal
  BY DEF Init, PushEndsWithReveal
<1>2. PushEndsWithReveal /\ IInv /\ [Next]_vars => PushEndsWithReveal'
  <2> SUFFICES ASSUME PushEndsWithReveal, IInv, [Next]_vars PROVE PushEndsWithReveal'
    OBVIOUS
  <2> DEFINE out == pushState \in {"OUT", "PUSHED"}
  <2>1. ASSUME UNCHANGED <<reveal_target, ours>>, out' => out PROVE PushEndsWithReveal'
    BY <2>1 DEF PushEndsWithReveal
  <2>2. UNCHANGED pushVars => (out' => out)
    BY DEF pushVars
  <2>3. ASSUME NEW v \in Views, Map(v) \/ Unmap(v) \/ Leave(v) PROVE PushEndsWithReveal'
    BY <2>1, <2>2, <2>3
       DEF Map, Unmap, Leave, panelVars, Push!on_view_mapped, Push!drop_view
  <2>4. ASSUME Frame PROVE PushEndsWithReveal'
    <3>1. CASE pushHook
      <4>1. out' => out
        BY <2>4, <3>1 DEF Frame, Push!on_frame, Push!Steps, IInv, PushInv
      <4> QED
        BY <2>1, <2>4, <4>1 DEF Frame, panelVars
    <3>2. CASE ~pushHook
      BY <2>1, <2>2, <2>4, <3>2 DEF Frame, panelVars
    <3> QED
      BY <3>1, <3>2
  <2>5. ASSUME Damage \/ Allow \/ CallPeek PROVE PushEndsWithReveal'
    BY <2>1, <2>2, <2>5 DEF Damage, Allow, CallPeek, panelVars
  <2>6. ASSUME Inhibit PROVE PushEndsWithReveal'
    <3>1. out' => out
      BY <2>2, <2>6 DEF Inhibit, Push!hard_reset
    <3> QED
      BY <2>1, <2>6, <3>1 DEF Inhibit, panelVars
  <2>7. ASSUME CallPush \/ RebuildPanel PROVE PushEndsWithReveal'
    BY <2>7 DEF CallPush, RebuildPanel, PushEndsWithReveal
  <2>8. ASSUME Reload PROVE PushEndsWithReveal'
    <3>1. CASE Push!fini
      BY <3>1 DEF Push!fini, PushEndsWithReveal
    <3>2. CASE UNCHANGED <<pushVars, ours>>
      BY <2>1, <2>2, <2>8, <3>2 DEF Reload, panelVars
    <3> QED
      BY <2>8, <3>1, <3>2 DEF Reload
  <2>9. ASSUME NEW reveal \in BOOLEAN, set_reveal(reveal) PROVE PushEndsWithReveal'
    <3>1. CASE reveal = reveal_target /\ ~slide_tick
      BY <2>1, <2>2, <2>9, <3>1 DEF set_reveal
    <3>2. CASE ~(reveal = reveal_target /\ ~slide_tick) /\ reveal
      BY <2>9, <3>2 DEF set_reveal, PushEndsWithReveal
    <3>3. CASE ~(reveal = reveal_target /\ ~slide_tick) /\ ~reveal
      BY <2>9, <3>3
         DEF set_reveal, Push!ipc_stop, Push!start_restore, Push!Restores, Push!StopDeclined,
             pushVars, PushEndsWithReveal
    <3> QED
      BY <3>1, <3>2, <3>3
  <2>10. ASSUME PointerEnters \/ CollapseTimeout PROVE PushEndsWithReveal'
    BY <2>9, <2>10 DEF PointerEnters, CollapseTimeout
  <2>11. ASSUME PointerLeaves \/ SlideEnds \/ UNCHANGED vars PROVE PushEndsWithReveal'
    BY <2>1, <2>2, <2>11 DEF PointerLeaves, SlideEnds, vars, panelVars
  <2> QED
    BY <2>3, <2>4, <2>5, <2>6, <2>7, <2>8, <2>10, <2>11 DEF Next
<1> QED
  BY <1>1, <1>2, Start, Step, PTL DEF Spec

-----------------------------------------------------------------------------
(***************************************************************************)
(* Both plugins are peeks.  A step takes the state of one from s to t.     *)
(***************************************************************************)
Moves(s, t, settled) ==
  \/ UNCHANGED inhibited /\ t = s
  \/ UNCHANGED inhibited /\ ~inhibited /\ s = "IDLE" /\ t = "OUT"
  \/ UNCHANGED inhibited /\ s = "OUT" /\ t = settled
  \/ UNCHANGED inhibited /\ s \in {"OUT", settled} /\ t = "IN"
  \/ UNCHANGED inhibited /\ t = "IDLE"
  \/ ~inhibited /\ inhibited' /\ t = "IDLE"
  \/ inhibited /\ ~inhibited' /\ t = s

LEMMA DeskMaps ==
  ASSUME Moves(peekState, peekState', "PEEKED")
  PROVE  [DeskPeek!Next]_(DeskPeek!vars)
<1> USE DEF Phase
<1>1. CASE UNCHANGED <<inhibited, peekState>>
  BY <1>1 DEF DeskPeek!vars, Locked
<1>2. CASE UNCHANGED inhibited /\ ~inhibited /\ peekState = "IDLE" /\ peekState' = "OUT"
  <2>1. DeskPeek!Open(0)
    BY <1>2 DEF DeskPeek!Open, DeskPeek!Move, Locked
  <2> QED
    BY <2>1 DEF DeskPeek!Next
<1>3. CASE UNCHANGED inhibited /\ peekState = "OUT" /\ peekState' = "PEEKED"
  <2>1. DeskPeek!Settle(0)
    BY <1>3 DEF DeskPeek!Settle, DeskPeek!Move, Locked
  <2> QED
    BY <2>1 DEF DeskPeek!Next
<1>4. CASE UNCHANGED inhibited /\ peekState \in {"OUT", "PEEKED"} /\ peekState' = "IN"
  <2>1. DeskPeek!Close(0)
    BY <1>4 DEF DeskPeek!Close, DeskPeek!Move, Locked
  <2> QED
    BY <2>1 DEF DeskPeek!Next
<1>5. CASE UNCHANGED inhibited /\ peekState' = "IDLE"
  <2>1. DeskPeek!Drop({0})
    BY <1>5 DEF DeskPeek!Drop, DeskPeek!Rest, Locked
  <2> QED
    BY <2>1 DEF DeskPeek!Next
<1>6. CASE ~inhibited /\ inhibited' /\ peekState' = "IDLE"
  <2>1. DeskPeek!Inhibit({0})
    BY <1>6 DEF DeskPeek!Inhibit, DeskPeek!Rest, Locked
  <2> QED
    BY <2>1 DEF DeskPeek!Next
<1>7. CASE inhibited /\ ~inhibited' /\ UNCHANGED peekState
  <2>1. DeskPeek!Allow({0})
    BY <1>7 DEF DeskPeek!Allow, Locked
  <2> QED
    BY <2>1 DEF DeskPeek!Next
<1> QED
  BY <1>1, <1>2, <1>3, <1>4, <1>5, <1>6, <1>7 DEF Moves

LEMMA PushMaps ==
  ASSUME Moves(pushState, pushState', "PUSHED")
  PROVE  [PushPeek!Next]_(PushPeek!vars)
<1> USE DEF Phase
<1>1. CASE UNCHANGED <<inhibited, pushState>>
  BY <1>1 DEF PushPeek!vars, Locked
<1>2. CASE UNCHANGED inhibited /\ ~inhibited /\ pushState = "IDLE" /\ pushState' = "OUT"
  <2>1. PushPeek!Open(0)
    BY <1>2 DEF PushPeek!Open, PushPeek!Move, Locked
  <2> QED
    BY <2>1 DEF PushPeek!Next
<1>3. CASE UNCHANGED inhibited /\ pushState = "OUT" /\ pushState' = "PUSHED"
  <2>1. PushPeek!Settle(0)
    BY <1>3 DEF PushPeek!Settle, PushPeek!Move, Locked
  <2> QED
    BY <2>1 DEF PushPeek!Next
<1>4. CASE UNCHANGED inhibited /\ pushState \in {"OUT", "PUSHED"} /\ pushState' = "IN"
  <2>1. PushPeek!Close(0)
    BY <1>4 DEF PushPeek!Close, PushPeek!Move, Locked
  <2> QED
    BY <2>1 DEF PushPeek!Next
<1>5. CASE UNCHANGED inhibited /\ pushState' = "IDLE"
  <2>1. PushPeek!Drop({0})
    BY <1>5 DEF PushPeek!Drop, PushPeek!Rest, Locked
  <2> QED
    BY <2>1 DEF PushPeek!Next
<1>6. CASE ~inhibited /\ inhibited' /\ pushState' = "IDLE"
  <2>1. PushPeek!Inhibit({0})
    BY <1>6 DEF PushPeek!Inhibit, PushPeek!Rest, Locked
  <2> QED
    BY <2>1 DEF PushPeek!Next
<1>7. CASE inhibited /\ ~inhibited' /\ UNCHANGED pushState
  <2>1. PushPeek!Allow({0})
    BY <1>7 DEF PushPeek!Allow, Locked
  <2> QED
    BY <2>1 DEF PushPeek!Next
<1> QED
  BY <1>1, <1>2, <1>3, <1>4, <1>5, <1>6, <1>7 DEF Moves

LEMMA DeskMoves == IInv /\ [Next]_vars => Moves(peekState, peekState', "PEEKED")
<1> SUFFICES ASSUME IInv, [Next]_vars PROVE Moves(peekState, peekState', "PEEKED")
  OBVIOUS
<1>t. PeekInv /\ inhibited \in BOOLEAN
  BY DEF IInv, SceneInv
<1>1. ASSUME UNCHANGED <<inhibited, peekVars>> PROVE Moves(peekState, peekState', "PEEKED")
  BY <1>1 DEF Moves, peekVars
<1>2. ASSUME NEW v \in Views, Map(v) \/ Leave(v) PROVE UNCHANGED <<inhibited, peekVars>>
  BY <1>2 DEF Map, Leave
<1>3. ASSUME NEW v \in Views, Unmap(v) PROVE Moves(peekState, peekState', "PEEKED")
  <2>1. UNCHANGED inhibited /\ (peekState' = peekState \/ peekState' = "IDLE")
    BY <1>3 DEF Unmap, Desk!drop_view, Desk!hard_reset
  <2> QED
    BY <2>1 DEF Moves
<1>4. ASSUME Frame PROVE Moves(peekState, peekState', "PEEKED")
  <2>1. CASE peekHook
    <3>1. Desk!on_frame /\ UNCHANGED inhibited /\ peekState \in {"OUT", "IN"}
      BY <1>4, <1>t, <2>1 DEF Frame, PeekInv
    <3>2. \/ peekState' = peekState
          \/ peekState = "OUT" /\ peekState' = "PEEKED"
          \/ peekState' = "IDLE"
      BY <3>1 DEF Desk!on_frame, Desk!Steps
    <3> QED
      BY <3>1, <3>2 DEF Moves
  <2>2. CASE ~peekHook
    BY <1>1, <1>4, <2>2 DEF Frame
  <2> QED
    BY <2>1, <2>2
<1>5. ASSUME Inhibit PROVE Moves(peekState, peekState', "PEEKED")
  <2>1. ~inhibited /\ inhibited'
    BY <1>5 DEF Inhibit
  <2>2. peekState' = "IDLE"
    BY <1>5, <1>t DEF Inhibit, Desk!hard_reset, PeekInv, peekVars
  <2> QED
    BY <2>1, <2>2 DEF Moves
<1>6. ASSUME Allow PROVE Moves(peekState, peekState', "PEEKED")
  BY <1>6 DEF Allow, peekVars, Moves
<1>7. ASSUME CallPeek PROVE Moves(peekState, peekState', "PEEKED")
  <2>1. UNCHANGED inhibited /\ (Desk!start_peek \/ Desk!start_restore)
    BY <1>7 DEF CallPeek, Desk!ipc_toggle, Desk!ipc_start, Desk!ipc_stop
  <2> QED
    BY <2>1 DEF Desk!start_peek, Desk!Starts, Desk!start_restore, Desk!Restores, Moves
<1>8. ASSUME Reload PROVE Moves(peekState, peekState', "PEEKED")
  <2>1. UNCHANGED inhibited /\ (peekState' = peekState \/ peekState' = "IDLE")
    BY <1>8 DEF Reload, Desk!fini, peekVars
  <2> QED
    BY <2>1 DEF Moves
<1>9. ASSUME \/ Damage \/ CallPush \/ RebuildPanel \/ PointerEnters \/ PointerLeaves
             \/ CollapseTimeout \/ SlideEnds \/ UNCHANGED vars
      PROVE  UNCHANGED <<inhibited, peekVars>>
  BY <1>9 DEF Damage, CallPush, RebuildPanel, PointerEnters, PointerLeaves, CollapseTimeout,
              SlideEnds, vars, sceneVars
<1> QED
  BY <1>1, <1>2, <1>3, <1>4, <1>5, <1>6, <1>7, <1>8, <1>9 DEF Next

LEMMA PushMoves == IInv /\ [Next]_vars => Moves(pushState, pushState', "PUSHED")
<1> SUFFICES ASSUME IInv, [Next]_vars PROVE Moves(pushState, pushState', "PUSHED")
  OBVIOUS
<1>t. PushInv /\ inhibited \in BOOLEAN
  BY DEF IInv, SceneInv
<1>1. ASSUME UNCHANGED <<inhibited, pushVars>> PROVE Moves(pushState, pushState', "PUSHED")
  BY <1>1 DEF Moves, pushVars
<1>2. ASSUME NEW v \in Views, Map(v) \/ Unmap(v) \/ Leave(v)
      PROVE  Moves(pushState, pushState', "PUSHED")
  <2>1. UNCHANGED <<inhibited, pushState>>
    BY <1>2 DEF Map, Unmap, Leave, Push!on_view_mapped, Push!drop_view, pushVars
  <2> QED
    BY <2>1 DEF Moves
<1>3. ASSUME Frame PROVE Moves(pushState, pushState', "PUSHED")
  <2>1. CASE pushHook
    <3>1. Push!on_frame /\ UNCHANGED inhibited /\ pushState \in {"OUT", "IN"}
      BY <1>3, <1>t, <2>1 DEF Frame, PushInv
    <3>2. \/ pushState' = pushState
          \/ pushState = "OUT" /\ pushState' = "PUSHED"
          \/ pushState' = "IDLE"
      BY <3>1 DEF Push!on_frame, Push!Steps
    <3> QED
      BY <3>1, <3>2 DEF Moves
  <2>2. CASE ~pushHook
    BY <1>1, <1>3, <2>2 DEF Frame
  <2> QED
    BY <2>1, <2>2
<1>4. ASSUME Inhibit PROVE Moves(pushState, pushState', "PUSHED")
  <2>1. ~inhibited /\ inhibited'
    BY <1>4 DEF Inhibit
  <2>2. pushState' = "IDLE"
    BY <1>4, <1>t DEF Inhibit, Push!hard_reset, PushInv, pushVars
  <2> QED
    BY <2>1, <2>2 DEF Moves
<1>5. ASSUME Allow PROVE Moves(pushState, pushState', "PUSHED")
  BY <1>5 DEF Allow, pushVars, Moves
<1>6. ASSUME Push!start_push \/ Push!start_restore, UNCHANGED inhibited
      PROVE  Moves(pushState, pushState', "PUSHED")
  <2>1. CASE Push!start_push
    BY <1>6, <2>1 DEF Push!start_push, Push!Starts, Moves
  <2>2. CASE Push!start_restore
    BY <1>6, <2>2 DEF Push!start_restore, Push!Restores, Moves
  <2> QED
    BY <1>6, <2>1, <2>2
<1>7. ASSUME CallPush PROVE Moves(pushState, pushState', "PUSHED")
  BY <1>6, <1>7 DEF CallPush, Push!ipc_toggle, Push!ipc_start, Push!ipc_stop
<1>8. ASSUME Reload PROVE Moves(pushState, pushState', "PUSHED")
  <2>1. UNCHANGED inhibited /\ (pushState' = pushState \/ pushState' = "IDLE")
    BY <1>8 DEF Reload, Push!fini, pushVars
  <2> QED
    BY <2>1 DEF Moves
<1>9. ASSUME NEW reveal \in BOOLEAN, set_reveal(reveal), UNCHANGED inhibited
      PROVE  Moves(pushState, pushState', "PUSHED")
  <2>1. Push!ipc_start \/ Push!ipc_stop \/ UNCHANGED pushVars
    BY <1>9 DEF set_reveal
  <2> QED
    BY <1>1, <1>6, <1>9, <2>1 DEF Push!ipc_start, Push!ipc_stop
<1>10. ASSUME PointerEnters \/ CollapseTimeout PROVE Moves(pushState, pushState', "PUSHED")
  BY <1>9, <1>10 DEF PointerEnters, CollapseTimeout
<1>11. ASSUME Damage \/ CallPeek \/ RebuildPanel \/ PointerLeaves \/ SlideEnds \/ UNCHANGED vars
       PROVE  UNCHANGED <<inhibited, pushVars>>
  BY <1>11 DEF Damage, CallPeek, RebuildPanel, PointerLeaves, SlideEnds, vars, sceneVars
<1> QED
  BY <1>1, <1>2, <1>3, <1>4, <1>5, <1>7, <1>8, <1>10, <1>11 DEF Next

\* Whatever comes, goes and is called, both plugins open, settle, close and rest in
\* that order, and are at rest while the lock inhibits the output.
THEOREM BothArePeeks == Spec => DeskPeek!Safe /\ PushPeek!Safe
<1>1. Init => DeskPeek!Init /\ PushPeek!Init
  BY DEF Init, DeskPeek!Init, PushPeek!Init, Phase, Locked
<1>2. IInv /\ [Next]_vars => [DeskPeek!Next]_(DeskPeek!vars) /\ [PushPeek!Next]_(PushPeek!vars)
  BY DeskMoves, PushMoves, DeskMaps, PushMaps
<1> QED
  BY <1>1, <1>2, Start, Step, PTL DEF Spec, DeskPeek!Safe, PushPeek!Safe

-----------------------------------------------------------------------------
(***************************************************************************)
(* Where desktop-peek moves a window.                                      *)
(***************************************************************************)
\* Whatever the option says and wherever the window is: in each dimension as many
\* pixels of it stay on the output as the option asks for, or all of a smaller one.
THEOREM PeekLeavesAStrip ==
  ASSUME NEW opt \in Int, NEW near \in BOOLEAN,
         NEW x \in Int, NEW w \in Nat \ {0}, NEW W \in Nat, Desk!PeekPx(opt) <= W
  PROVE  LET peek  == Desk!PeekPx(opt)
             shown == Desk!Shown(x + Desk!Shift(near, peek, x, w, W), w, W)
         IN  shown = IF w < peek THEN w ELSE peek
<1> DEFINE peek == Desk!PeekPx(opt)
           s    == x + Desk!Shift(near, peek, x, w, W)
<1>1. peek \in Nat
  BY DEF Desk!PeekPx
<1>2. CASE near
  <2>1. s = peek - w
    BY <1>1, <1>2 DEF Desk!Shift, Desk!Target
  <2> QED
    BY <1>1, <2>1 DEF Desk!Shown
<1>3. CASE ~near
  <2>1. s = W - peek
    BY <1>1, <1>3 DEF Desk!Shift, Desk!Target
  <2> QED
    BY <1>1, <2>1 DEF Desk!Shown
<1> QED
  BY <1>2, <1>3
=============================================================================
