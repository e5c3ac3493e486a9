------------------------ MODULE OutputEffectsProofs ------------------------
(***************************************************************************)
(* Proofs about OutputEffects for any outputs, windows and length of the   *)
(* animations: what the plugins hold, and that the night light stays in    *)
(* step with its one flag.                                                 *)
(***************************************************************************)
EXTENDS OutputEffects, TLAPS

-----------------------------------------------------------------------------
(***************************************************************************)
(* Animations.                                                             *)
(***************************************************************************)
LEMMA Ends == 0 \in Progress /\ Full \in Progress /\ Still \in Anims
BY FullAssumption DEF Progress, Anims, Still

\* The plugins' animations are these.
LEMMA Same ==
  /\ Night!Progress = Progress /\ Night!Still = Still
  /\ \A a : Night!Now(a) = Now(a) /\ Night!Next1(a) = Next1(a)
  /\ Zoom!Progress = Progress /\ Zoom!Still = Still
  /\ \A a : Zoom!Now(a) = Now(a) /\ Zoom!Next1(a) = Next1(a)
<1>1. Night!Progress = Progress /\ Zoom!Progress = Progress
  BY DEF Night!Progress, Zoom!Progress, Progress
<1>2. \A a : Night!Now(a) = Now(a) /\ Zoom!Now(a) = Now(a)
  BY <1>1 DEF Night!Now, Zoom!Now, Now
<1>3. \A a : Night!Next1(a) = Next1(a) /\ Zoom!Next1(a) = Next1(a)
  BY <1>2 DEF Night!Next1, Zoom!Next1, Next1
<1>4. Night!Still = Still /\ Zoom!Still = Still
  BY DEF Night!Still, Zoom!Still, Still
<1> QED
  BY <1>1, <1>2, <1>3, <1>4

\* Where an animation is now, and at the next frame, is a progress.
LEMMA Positions ==
  ASSUME NEW a \in Anims PROVE Now(a) \subseteq Progress /\ Next1(a) \subseteq Progress
BY DEF Now, Next1, Anims

\* One that turns is an animation.
LEMMA Turning ==
  ASSUME NEW T \in SUBSET Outputs, NEW p \in Progress, fade \in [Outputs -> Anims],
         Night!Turns(T, p)
  PROVE  fade' \in [Outputs -> Anims]
<1>1. PICK at \in [T -> Progress] :
        fade' = [o \in Outputs |-> IF o \in T THEN [at |-> at[o], to |-> p] ELSE fade[o]]
  BY Same DEF Night!Turns
<1>2. \A o \in T : [at |-> at[o], to |-> p] \in Anims
  BY DEF Anims
<1> QED
  BY <1>1, <1>2

-----------------------------------------------------------------------------
(***************************************************************************)
(* The night light.  Its invariant needs of the scene only that redraws    *)
(* are of outputs that are there.                                          *)
(***************************************************************************)
NInv == SceneTypeOK /\ NightTypeOK /\ TintsOwned /\ ShowsTheFlag

LEMMA NightInit == Init => NInv
<1> SUFFICES ASSUME Init PROVE NInv
  OBVIOUS
<1>1. SceneTypeOK
  BY DEF Init, SceneTypeOK
<1>2. NightTypeOK
  BY Ends DEF Init, NightTypeOK
<1>3. TintsOwned
  BY DEF Init, TintsOwned
<1>4. ShowsTheFlag
  BY DEF Init, ShowsTheFlag, Lit
<1> QED
  BY <1>1, <1>2, <1>3, <1>4 DEF NInv

\* A verb that turns some fades leaves nothing unowned, and the flag true of all.
LEMMA Verb ==
  ASSUME NInv, NEW on \in BOOLEAN, Night!set_all(on), plugged' = plugged,
         replugged' = IF night' = night THEN replugged ELSE {}
  PROVE  NightTypeOK' /\ TintsOwned' /\ ShowsTheFlag' /\ redraw' \subseteq plugged
<1> DEFINE T == {o \in plugged : IF on THEN Night!CanStart(o) ELSE Night!CanStop(o)}
<1>1. T \subseteq Outputs
  BY DEF NInv, SceneTypeOK
<1>2. CASE T = {}
  <2>1. UNCHANGED <<night, fade, tint, lit_hook, enabled, redraw>>
    BY <1>2 DEF Night!set_all, Night!instances
  <2> QED
    BY <2>1 DEF NInv, SceneTypeOK, NightTypeOK, TintsOwned, ShowsTheFlag, Lit
<1>3. CASE T # {} /\ on
  <2>1. enabled' = TRUE /\ Night!ipc_start(T)
    BY <1>3 DEF Night!set_all
  <2>2. fade' \in [Outputs -> Anims]
    BY <1>1, <2>1, Turning, Ends DEF Night!ipc_start, NInv, NightTypeOK
  <2>3. night' = [o \in Outputs |-> IF o \in T THEN "FADING_IN" ELSE night[o]]
    BY <2>1 DEF Night!ipc_start
  <2>4. \A o \in T : night[o] \in {"OFF", "FADING_OUT"}
    BY <1>3 DEF Night!CanStart
  <2>5. \A o \in plugged \ T : Lit(o)
    BY <1>3 DEF Night!CanStart, Lit, NInv, SceneTypeOK, NightTypeOK
  <2>6. replugged' = {}
    BY <1>1, <1>3, <2>3, <2>4
  <2>7. /\ tint' = [o \in Outputs |-> IF o \in T /\ night[o] = "OFF" THEN 0 ELSE tint[o]]
        /\ lit_hook' = lit_hook \union {o \in T : night[o] = "OFF"}
        /\ redraw' = redraw \union {o \in T : night[o] = "OFF"}
    BY <2>1 DEF Night!ipc_start, Night!setup
  <2>8. NightTypeOK'
    BY <2>1, <2>2, <2>3, <2>6, <2>7, Ends, <1>3 DEF NInv, NightTypeOK
  <2>9. TintsOwned'
    <3>1. lit_hook' = {o \in Outputs : night'[o] \in {"FADING_IN", "FADING_OUT"}}
      BY <1>1, <2>3, <2>4, <2>7 DEF NInv, TintsOwned
    <3>2. \A o \in Outputs : (night'[o] = "OFF") = (tint'[o] = None)
      BY <1>1, <2>3, <2>4, <2>7, Ends, NoneAssumption DEF NInv, TintsOwned
    <3>3. \A o \in Outputs : /\ night'[o] = "ON" => tint'[o] = Full
                             /\ o \notin plugged' => night'[o] = "OFF"
      BY <1>1, <2>3, <2>4, <2>7 DEF NInv, TintsOwned
    <3> QED
      BY <3>1, <3>2, <3>3 DEF TintsOwned
  <2>10. ShowsTheFlag'
    BY <1>1, <2>1, <2>3, <2>5 DEF ShowsTheFlag, Lit, NInv, SceneTypeOK
  <2> QED
    BY <1>1, <2>7, <2>8, <2>9, <2>10 DEF NInv, SceneTypeOK
<1>4. CASE T # {} /\ ~on
  <2>1. enabled' = FALSE /\ Night!ipc_stop(T)
    BY <1>4 DEF Night!set_all
  <2>2. fade' \in [Outputs -> Anims]
    BY <1>1, <2>1, Turning, Ends DEF Night!ipc_stop, NInv, NightTypeOK
  <2>3. /\ night' = [o \in Outputs |-> IF o \in T THEN "FADING_OUT" ELSE night[o]]
        /\ lit_hook' = lit_hook \union T
        /\ UNCHANGED <<tint, redraw>>
    BY <2>1 DEF Night!ipc_stop
  <2>4. \A o \in T : night[o] \in {"ON", "FADING_IN"}
    BY <1>4 DEF Night!CanStop
  <2>5. \A o \in plugged \ T : ~Lit(o)
    BY <1>4 DEF Night!CanStop, Lit
  <2>6. replugged' = {}
    BY <1>1, <1>4, <2>3, <2>4
  <2>7. NightTypeOK'
    BY <2>1, <2>2, <2>3, <2>6, <1>4 DEF NInv, NightTypeOK
  <2>8. TintsOwned'
    BY <1>1, <2>3, <2>4 DEF NInv, TintsOwned
  <2>9. ShowsTheFlag'
    BY <1>1, <2>1, <2>3, <2>5 DEF ShowsTheFlag, Lit, NInv, SceneTypeOK
  <2> QED
    BY <1>1, <2>3, <2>7, <2>8, <2>9 DEF NInv, SceneTypeOK
<1> QED
  BY <1>2, <1>3, <1>4

\* A frame settles a fade, takes the tint away or goes on.
LEMMA NightFrame ==
  ASSUME NInv, NEW o \in lit_hook, Night!on_frame(o), UNCHANGED <<plugged, enabled, replugged>>
  PROVE  NightTypeOK' /\ TintsOwned' /\ ShowsTheFlag'
<1>1. o \in Outputs /\ night[o] \in {"FADING_IN", "FADING_OUT"} /\ fade[o] \in Anims
  BY DEF NInv, TintsOwned, NightTypeOK
<1>2. PICK p \in Progress :
        /\ fade' = [fade EXCEPT ![o].at = p]
        /\ IF p = 0 /\ night[o] = "FADING_OUT" THEN Night!teardown(o)
           ELSE /\ tint' = [tint EXCEPT ![o] = p]
                /\ IF p = Full /\ night[o] = "FADING_IN"
                   THEN /\ night' = [night EXCEPT ![o] = "ON"]
                        /\ lit_hook' = lit_hook \ {o}
                   ELSE UNCHANGED <<night, lit_hook>>
  BY <1>1, Positions, Same DEF Night!on_frame
<1>3. fade' \in [Outputs -> Anims]
  BY <1>1, <1>2 DEF NInv, NightTypeOK, Anims
<1>4. CASE p = 0 /\ night[o] = "FADING_OUT"
  <2>1. /\ lit_hook' = lit_hook \ {o}
        /\ tint' = [tint EXCEPT ![o] = None]
        /\ night' = [night EXCEPT ![o] = "OFF"]
    BY <1>2, <1>4 DEF Night!teardown
  <2> QED
    BY <1>1, <1>3, <1>4, <2>1 DEF NInv, NightTypeOK, TintsOwned, ShowsTheFlag, Lit
<1>5. CASE ~(p = 0 /\ night[o] = "FADING_OUT") /\ p = Full /\ night[o] = "FADING_IN"
  <2>1. /\ lit_hook' = lit_hook \ {o}
        /\ tint' = [tint EXCEPT ![o] = p]
        /\ night' = [night EXCEPT ![o] = "ON"]
    BY <1>2, <1>5
  <2> QED
    BY <1>1, <1>3, <1>5, <2>1, NoneAssumption DEF NInv, NightTypeOK, TintsOwned, ShowsTheFlag, Lit
<1>6. CASE ~(p = 0 /\ night[o] = "FADING_OUT") /\ ~(p = Full /\ night[o] = "FADING_IN")
  <2>1. UNCHANGED <<night, lit_hook>> /\ tint' = [tint EXCEPT ![o] = p]
    BY <1>2, <1>6
  <2> QED
    BY <1>1, <1>3, <2>1, NoneAssumption DEF NInv, NightTypeOK, TintsOwned, ShowsTheFlag, Lit
<1> QED
  BY <1>4, <1>5, <1>6

\* What the other plugin and the scene do to it: nothing while the outputs stay.
LEMMA NightStays ==
  ASSUME NInv, UNCHANGED <<plugged, nightVars>>
  PROVE  NightTypeOK' /\ TintsOwned' /\ ShowsTheFlag'
BY DEF NInv, nightVars, instances, NightTypeOK, TintsOwned, ShowsTheFlag, Lit

\* An output comes dark, and excused until the next verb.
LEMMA NightPlug ==
  ASSUME NInv, NEW o \in Outputs, Plug(o)
  PROVE  NightTypeOK' /\ TintsOwned' /\ ShowsTheFlag'
<1>1. /\ o \notin plugged /\ plugged' = plugged \union {o}
      /\ replugged' = replugged \union {o}
      /\ UNCHANGED <<night, fade, tint, lit_hook, enabled>>
  BY DEF Plug, instances
<1>2. NightTypeOK'
  BY <1>1 DEF NInv, NightTypeOK
<1>3. TintsOwned'
  BY <1>1 DEF NInv, TintsOwned
<1>4. ShowsTheFlag'
  BY <1>1 DEF NInv, TintsOwned, ShowsTheFlag, Lit
<1> QED
  BY <1>2, <1>3, <1>4

\* One that goes takes its instance along.
LEMMA NightUnplug ==
  ASSUME NInv, NEW o \in Outputs, Unplug(o)
  PROVE  NightTypeOK' /\ TintsOwned' /\ ShowsTheFlag'
<1>1. /\ plugged' = plugged \ {o} /\ replugged' = replugged \ {o}
      /\ lit_hook' = lit_hook \ {o}
      /\ tint' = [tint EXCEPT ![o] = None]
      /\ night' = [night EXCEPT ![o] = "OFF"]
      /\ fade' = [fade EXCEPT ![o] = Still]
      /\ enabled' = enabled
  BY Same DEF Unplug, Night!fini, Night!teardown
<1>2. NightTypeOK'
  BY <1>1, Ends DEF NInv, NightTypeOK
<1>3. TintsOwned'
  BY <1>1 DEF NInv, NightTypeOK, TintsOwned
<1>4. ShowsTheFlag'
  BY <1>1 DEF NInv, SceneTypeOK, NightTypeOK, ShowsTheFlag, Lit
<1> QED
  BY <1>2, <1>3, <1>4

\* A plugin that is loaded again is dark everywhere, and knows it.
LEMMA NightReload ==
  ASSUME NInv, Reload
  PROVE  NightTypeOK' /\ TintsOwned' /\ ShowsTheFlag'
<1>1. /\ night' = [o \in Outputs |-> "OFF"] /\ fade' = [o \in Outputs |-> Still]
      /\ tint' = [o \in Outputs |-> None] /\ lit_hook' = {}
      /\ enabled' = FALSE /\ replugged' = {} /\ plugged' = plugged
  BY Same DEF Reload, Night!plugin_fini
<1>2. NightTypeOK'
  BY <1>1, Ends DEF NInv, NightTypeOK
<1>3. TintsOwned'
  BY <1>1 DEF NInv, TintsOwned
<1>4. ShowsTheFlag'
  BY <1>1 DEF NInv, SceneTypeOK, ShowsTheFlag, Lit
<1> QED
  BY <1>2, <1>3, <1>4

-----------------------------------------------------------------------------
(***************************************************************************)
(* The zoom.                                                               *)
(***************************************************************************)
ZInv == ZoomTypeOK /\ ZoomsOwned

LEMMA ZoomInit == Init => ZInv
<1> SUFFICES ASSUME Init PROVE ZInv
  OBVIOUS
<1>1. scaled = [o \in Outputs |-> [v \in Windows |-> None]]
  BY DEF Init, Zoom!Scaled
<1>2. ZoomTypeOK
  BY <1>1, Ends DEF Init, ZoomTypeOK
<1>3. ZoomsOwned
  BY <1>1 DEF Init, ZoomsOwned
<1> QED
  BY <1>2, <1>3 DEF ZInv

\* Once an instance is done, nothing of it is left; the windows may go elsewhere.
LEMMA Finished ==
  ASSUME ZInv, NEW o \in Outputs, Zoom!finish(o), zoom_anim' \in [Outputs -> Anims],
         plugged' \in {plugged, plugged \ {o}},
         \A v \in Windows : home[v] # None => home'[v] # None
  PROVE  ZInv'
<1>1. /\ scaled' = [scaled EXCEPT ![o] = [v \in Windows |-> None]]
      /\ zoom' = [zoom EXCEPT ![o] = "DONE"]
      /\ zoom_hook' = zoom_hook \ {o} /\ grace_timer' = grace_timer \ {o}
  BY DEF Zoom!finish, Zoom!Scaled
<1>2. ZoomTypeOK'
  BY <1>1 DEF ZInv, ZoomTypeOK
<1>3. zoom_hook' = {x \in Outputs : zoom'[x] = "RUNNING"}
  BY <1>1 DEF ZInv, ZoomTypeOK, ZoomsOwned
<1>4. \A x \in Outputs :
        /\ x \notin plugged' => zoom'[x] = "DONE"
        /\ zoom'[x] = "PENDING" => x \in grace_timer'
        /\ x \in grace_timer' => zoom'[x] # "DONE"
  BY <1>1 DEF ZInv, ZoomTypeOK, ZoomsOwned
<1>5. \A x \in Outputs, v \in Windows : scaled'[x][v] # None => x # o /\ scaled[x][v] # None
  BY <1>1 DEF ZInv, ZoomTypeOK
<1>6. \A x \in Outputs, v \in Windows :
        scaled'[x][v] # None => home'[v] # None /\ zoom'[x] = "RUNNING"
  BY <1>1, <1>5 DEF ZInv, ZoomTypeOK, ZoomsOwned
<1>7. \A v \in Windows, x, other \in Outputs :
        scaled'[x][v] # None /\ scaled'[other][v] # None => x = other
  BY <1>5 DEF ZInv, ZoomsOwned
<1>8. grace_timer' \subseteq Outputs
  BY <1>1 DEF ZInv, ZoomsOwned
<1> QED
  BY <1>2, <1>3, <1>4, <1>6, <1>7, <1>8 DEF ZInv, ZoomsOwned

\* A window that moves, or that lets every instance go, keeps what is owned.
LEMMA Kept ==
  ASSUME ZInv, UNCHANGED <<plugged, zoom, zoom_anim, zoom_hook, grace_timer>>,
         scaled' \in [Outputs -> [Windows -> Progress \union {None}]],
         \A x \in Outputs, v \in Windows :
           scaled'[x][v] # None => scaled[x][v] # None /\ home'[v] # None
  PROVE  ZInv'
BY DEF ZInv, ZoomTypeOK, ZoomsOwned

LEMMA ZoomPlug ==
  ASSUME ZInv, NEW o \in Outputs, Plug(o)
  PROVE  ZInv'
<1>1. /\ o \notin plugged /\ plugged' = plugged \union {o}
      /\ zoom' = [zoom EXCEPT ![o] = "PENDING"]
      /\ grace_timer' = grace_timer \union {o}
      /\ UNCHANGED <<home, zoom_anim, scaled, zoom_hook>>
  BY DEF Plug, Zoom!init
<1>2. zoom[o] = "DONE"
  BY <1>1 DEF ZInv, ZoomsOwned
<1>3. ZoomTypeOK'
  BY <1>1 DEF ZInv, ZoomTypeOK
<1>4. zoom_hook' = {x \in Outputs : zoom'[x] = "RUNNING"}
  BY <1>1, <1>2 DEF ZInv, ZoomTypeOK, ZoomsOwned
<1>5. \A x \in Outputs :
        /\ x \notin plugged' => zoom'[x] = "DONE"
        /\ zoom'[x] = "PENDING" => x \in grace_timer'
        /\ x \in grace_timer' => zoom'[x] # "DONE"
        /\ \A v \in Windows : scaled'[x][v] # None => home'[v] # None /\ zoom'[x] = "RUNNING"
  BY <1>1, <1>2 DEF ZInv, ZoomTypeOK, ZoomsOwned
<1>6. grace_timer' \subseteq Outputs
  BY <1>1 DEF ZInv, ZoomsOwned
<1>7. \A v \in Windows, x, other \in Outputs :
        scaled'[x][v] # None /\ scaled'[other][v] # None => x = other
  BY <1>1 DEF ZInv, ZoomsOwned
<1> QED
  BY <1>3, <1>4, <1>5, <1>6, <1>7 DEF ZInv, ZoomsOwned

\* A frame scales what it tracks anew, or finishes.
LEMMA ZoomFrame ==
  ASSUME ZInv, NEW o \in zoom_hook, Zoom!on_frame(o), UNCHANGED <<plugged, home>>
  PROVE  ZInv'
<1>1. o \in Outputs /\ zoom_anim[o] \in Anims
  BY DEF ZInv, ZoomsOwned, ZoomTypeOK
<1>2. PICK p \in Progress :
        /\ zoom_anim' = [zoom_anim EXCEPT ![o].at = p]
        /\ IF p = Full THEN Zoom!finish(o)
           ELSE /\ scaled' = [scaled EXCEPT ![o] = Zoom!Scaled(Zoom!Tracked(o), p)]
                /\ UNCHANGED <<zoom, zoom_hook, grace_timer>>
  BY <1>1, Positions, Same DEF Zoom!on_frame
<1>3. zoom_anim' \in [Outputs -> Anims]
  BY <1>1, <1>2 DEF ZInv, ZoomTypeOK, Anims
<1>4. CASE p = Full
  BY <1>1, <1>2, <1>3, <1>4, Finished
<1>5. CASE p # Full
  <2>1. /\ scaled' = [scaled EXCEPT ![o] = [v \in Windows |-> IF scaled[o][v] # None THEN p ELSE None]]
        /\ UNCHANGED <<zoom, zoom_hook, grace_timer>>
    BY <1>2, <1>5 DEF Zoom!Scaled, Zoom!Tracked
  <2>2. \A x \in Outputs, v \in Windows : scaled'[x][v] # None => scaled[x][v] # None
    BY <1>1, <2>1 DEF ZInv, ZoomTypeOK
  <2>3. ZoomTypeOK'
    BY <1>1, <1>3, <2>1 DEF ZInv, ZoomTypeOK
  <2>4. ZoomsOwned'
    BY <2>1, <2>2 DEF ZInv, ZoomsOwned
  <2> QED
    BY <2>3, <2>4 DEF ZInv
<1> QED
  BY <1>4, <1>5

\* A window that maps is tracked by its output's instance, which starts to run.
LEMMA ZoomMap ==
  ASSUME ZInv, SceneTypeOK, NEW v \in Windows, NEW o \in Outputs, Map(v, o)
  PROVE  ZInv'
<1>1. /\ home[v] = None /\ o \in plugged /\ home' = [home EXCEPT ![v] = o]
      /\ plugged' = plugged /\ Zoom!on_view_mapped(o, v)
  BY DEF Map
<1>2. \A u \in Windows : home'[u] = IF u = v THEN o ELSE home[u]
  BY <1>1 DEF SceneTypeOK
<1>3. \A u \in Windows : home[u] # None => home'[u] # None
  BY <1>1, <1>2
<1>4. CASE zoom[o] = "DONE"
  <2>1. UNCHANGED <<zoom, zoom_anim, scaled, zoom_hook, grace_timer>>
    BY <1>1, <1>4 DEF Zoom!on_view_mapped, Zoom!zooms
  <2>2. scaled' \in [Outputs -> [Windows -> Progress \union {None}]]
    BY <2>1 DEF ZInv, ZoomTypeOK
  <2>3. \A x \in Outputs, u \in Windows :
          scaled'[x][u] # None => scaled[x][u] # None /\ home'[u] # None
    BY <1>3, <2>1 DEF ZInv, ZoomsOwned
  <2> QED
    BY <1>1, <2>1, <2>2, <2>3, Kept
<1>5. CASE zoom[o] # "DONE"
  <2>1. PICK p \in Progress :
          scaled' = [scaled EXCEPT ![o] = Zoom!Scaled(Zoom!Tracked(o) \union {v}, p)]
    <3>1. Zoom!track(o, v)
      BY <1>1, <1>5 DEF Zoom!on_view_mapped
    <3>2. (IF zoom[o] = "RUNNING" THEN Zoom!Now(zoom_anim[o]) ELSE {0}) \subseteq Progress
      BY Same, Positions, Ends DEF ZInv, ZoomTypeOK
    <3> QED
      BY <3>1, <3>2 DEF Zoom!track
  <2>2. scaled' = [scaled EXCEPT ![o] =
                     [u \in Windows |-> IF scaled[o][u] # None \/ u = v THEN p ELSE None]]
    BY <2>1 DEF Zoom!Scaled, Zoom!Tracked
  <2>3. /\ grace_timer' = grace_timer
        /\ zoom' = [zoom EXCEPT ![o] = "RUNNING"]
        /\ zoom_hook' = zoom_hook \union {o}
        /\ zoom_anim' \in [Outputs -> Anims]
    <3>1. CASE zoom[o] = "PENDING"
      <4>1. [at |-> 0, to |-> Full] \in Anims
        BY Ends DEF Anims
      <4> QED
        BY <1>1, <1>5, <3>1, <4>1 DEF Zoom!on_view_mapped, Zoom!track, ZInv, ZoomTypeOK
    <3>2. CASE zoom[o] = "RUNNING"
      BY <1>1, <1>5, <3>2
         DEF Zoom!on_view_mapped, Zoom!track, ZInv, ZoomTypeOK, ZoomsOwned
    <3> QED
      BY <1>5, <3>1, <3>2 DEF ZInv, ZoomTypeOK
  <2>4. ZoomTypeOK'
    BY <2>2, <2>3 DEF ZInv, ZoomTypeOK
  <2>5. \A x \in Outputs, u \in Windows :
          scaled'[x][u] # None => scaled[x][u] # None \/ (x = o /\ u = v)
    BY <2>2 DEF ZInv, ZoomTypeOK
  <2>6. \A x \in Outputs : scaled[x][v] = None
    BY <1>1 DEF ZInv, ZoomsOwned
  <2>7. zoom_hook' = {x \in Outputs : zoom'[x] = "RUNNING"}
    BY <2>3 DEF ZInv, ZoomTypeOK, ZoomsOwned
  <2>8. \A x \in Outputs :
          /\ x \notin plugged' => zoom'[x] = "DONE"
          /\ zoom'[x] = "PENDING" => x \in grace_timer'
          /\ x \in grace_timer' => zoom'[x] # "DONE"
    BY <1>1, <2>3 DEF ZInv, ZoomTypeOK, ZoomsOwned
  <2>9. \A x \in Outputs, u \in Windows :
          scaled'[x][u] # None => home'[u] # None /\ zoom'[x] = "RUNNING"
    BY <1>1, <1>2, <1>3, <2>3, <2>5, NoneAssumption, o # None
       DEF ZInv, ZoomTypeOK, ZoomsOwned
  <2>10. \A u \in Windows, x, other \in Outputs :
           scaled'[x][u] # None /\ scaled'[other][u] # None => x = other
    BY <2>5, <2>6 DEF ZInv, ZoomsOwned
  <2>11. grace_timer' \subseteq Outputs
    BY <2>3 DEF ZInv, ZoomsOwned
  <2> QED
    BY <2>4, <2>7, <2>8, <2>9, <2>10, <2>11 DEF ZInv, ZoomsOwned
<1> QED
  BY <1>4, <1>5

LEMMA ZoomUnmap ==
  ASSUME ZInv, SceneTypeOK, NEW v \in Windows, Unmap(v)
  PROVE  ZInv'
<1>1. /\ home' = [home EXCEPT ![v] = None] /\ plugged' = plugged
      /\ scaled' = [o \in Outputs |-> [scaled[o] EXCEPT ![v] = None]]
      /\ UNCHANGED <<zoom, zoom_anim, zoom_hook, grace_timer>>
  BY DEF Unmap, Zoom!drop_view
<1>2. scaled' \in [Outputs -> [Windows -> Progress \union {None}]]
  BY <1>1 DEF ZInv, ZoomTypeOK
<1>3. \A x \in Outputs, u \in Windows : scaled'[x][u] # None => u # v /\ scaled[x][u] # None
  BY <1>1 DEF ZInv, ZoomTypeOK
<1>4. \A u \in Windows : u # v => home'[u] = home[u]
  BY <1>1 DEF SceneTypeOK
<1>5. \A x \in Outputs, u \in Windows :
        scaled'[x][u] # None => scaled[x][u] # None /\ home'[u] # None
  BY <1>3, <1>4 DEF ZInv, ZoomsOwned
<1> QED
  BY <1>1, <1>2, <1>5, Kept

\* The timer ends an instance that still waits, and only itself otherwise.
LEMMA ZoomTimer ==
  ASSUME ZInv, NEW o \in Outputs, GraceTimer(o)
  PROVE  ZInv'
<1>1. /\ o \in grace_timer /\ zoom_anim' = zoom_anim /\ UNCHANGED <<plugged, home>>
      /\ IF zoom[o] = "PENDING" THEN Zoom!finish(o)
         ELSE grace_timer' = grace_timer \ {o} /\ UNCHANGED <<zoom, scaled, zoom_hook>>
  BY DEF GraceTimer, Zoom!grace_timer_cb
<1>2. CASE zoom[o] = "PENDING"
  <2>1. zoom_anim' \in [Outputs -> Anims]
    BY <1>1 DEF ZInv, ZoomTypeOK
  <2> QED
    BY <1>1, <1>2, <2>1, Finished
<1>3. CASE zoom[o] # "PENDING"
  <2>1. grace_timer' = grace_timer \ {o} /\ UNCHANGED <<zoom, scaled, zoom_hook, zoom_anim>>
    BY <1>1, <1>3
  <2> QED
    BY <1>1, <1>3, <2>1 DEF ZInv, ZoomTypeOK, ZoomsOwned
<1> QED
  BY <1>2, <1>3

-----------------------------------------------------------------------------
(***************************************************************************)
(* Both together.  The scene's outputs stay among those that are there     *)
(* because a zoom asks for frames through mapped windows only.             *)
(***************************************************************************)
IInv == NInv /\ ZInv

LEMMA Step == IInv /\ [Next]_vars => IInv'
<1> SUFFICES ASSUME IInv, [Next]_vars PROVE IInv'
  OBVIOUS
<1> USE DEF IInv
<1>1. ASSUME NEW o \in Outputs, Plug(o) PROVE IInv'
  <2>1. SceneTypeOK'
    BY <1>1 DEF Plug, NInv, SceneTypeOK
  <2> QED
    BY <1>1, <2>1, NightPlug, ZoomPlug DEF NInv
<1>2. ASSUME NEW o \in Outputs, Unplug(o) PROVE IInv'
  <2>1. PICK other \in plugged' :
          /\ home' = [v \in Windows |-> IF home[v] = o THEN other ELSE home[v]]
          /\ redraw' = (redraw \union {other}) \ {o}
    BY <1>2 DEF Unplug
  <2>2. plugged' = plugged \ {o}
    BY <1>2 DEF Unplug
  <2>3. SceneTypeOK'
    <3>1. \A v \in Windows : home[v] # o => home[v] \in plugged' \union {None}
      BY <2>2 DEF NInv, SceneTypeOK
    <3> QED
      BY <2>1, <2>2, <3>1 DEF NInv, SceneTypeOK
  <2>4. other # None
    BY <2>1, <2>2, NoneAssumption DEF NInv, SceneTypeOK
  <2>5. \A v \in Windows : home[v] # None => home'[v] # None
    BY <2>1, <2>4
  <2>6. Zoom!finish(o) /\ zoom_anim' \in [Outputs -> Anims]
    BY <1>2, Ends, Same DEF Unplug, Zoom!fini, ZInv, ZoomTypeOK
  <2>7. ZInv'
    BY <2>2, <2>5, <2>6, Finished
  <2> QED
    BY <1>2, <2>3, <2>7, NightUnplug DEF NInv
<1>3. ASSUME NEW o \in Outputs, Frame(o) PROVE IInv'
  <2>1. UNCHANGED <<plugged, home, enabled, replugged>>
    BY <1>3 DEF Frame
  <2>2. Zoom!Damaged(o) \subseteq plugged
    <3>1. \A v \in Windows : scaled[o][v] # None => home[v] \in plugged
      BY DEF NInv, SceneTypeOK, ZInv, ZoomsOwned
    <3> QED
      BY <3>1 DEF Zoom!Damaged, Zoom!Tracked
  <2>3. SceneTypeOK'
    BY <1>3, <2>1, <2>2 DEF Frame, NInv, SceneTypeOK
  <2>4. NightTypeOK' /\ TintsOwned' /\ ShowsTheFlag'
    <3>1. CASE o \in lit_hook
      BY <1>3, <2>1, <3>1, NightFrame DEF Frame
    <3>2. CASE o \notin lit_hook
      BY <1>3, <2>1, <3>2, NightStays DEF Frame, instances, nightVars
    <3> QED
      BY <3>1, <3>2
  <2>5. ZInv'
    <3>1. CASE o \in zoom_hook
      BY <1>3, <2>1, <3>1, ZoomFrame DEF Frame
    <3>2. CASE o \notin zoom_hook
      BY <1>3, <2>1, <3>2 DEF Frame, zooms, ZInv, ZoomTypeOK, ZoomsOwned
    <3> QED
      BY <3>1, <3>2
  <2> QED
    BY <2>3, <2>4, <2>5 DEF NInv
<1>4. ASSUME NEW o \in Outputs, Damage(o) PROVE IInv'
  <2>1. SceneTypeOK'
    BY <1>4 DEF Damage, NInv, SceneTypeOK
  <2>2. ZInv'
    BY <1>4 DEF Damage, zooms, ZInv, ZoomTypeOK, ZoomsOwned
  <2> QED
    BY <1>4, <2>1, <2>2, NightStays DEF Damage, NInv
<1>5. ASSUME NEW o \in Outputs, GraceTimer(o) PROVE IInv'
  <2>1. SceneTypeOK'
    BY <1>5 DEF GraceTimer, NInv, SceneTypeOK
  <2> QED
    BY <1>5, <2>1, NightStays, ZoomTimer DEF GraceTimer, NInv
<1>6. ASSUME NEW v \in Windows, NEW o \in Outputs, Map(v, o) PROVE IInv'
  <2>1. SceneTypeOK'
    BY <1>6 DEF Map, NInv, SceneTypeOK
  <2> QED
    BY <1>6, <2>1, NightStays, ZoomMap DEF Map, NInv
<1>7. ASSUME NEW v \in Windows, NEW o \in Outputs, Move(v, o) PROVE IInv'
  <2>1. /\ home[v] \notin {None, o} /\ o \in plugged
        /\ home' = [home EXCEPT ![v] = o] /\ redraw' = redraw \union {o, home[v]}
        /\ plugged' = plugged /\ UNCHANGED nightVars
        /\ UNCHANGED <<zoom, zoom_anim, scaled, zoom_hook, grace_timer>>
    BY <1>7 DEF Move, zooms
  <2>2. SceneTypeOK'
    BY <2>1 DEF NInv, SceneTypeOK
  <2>3. \A u \in Windows : home[u] # None => home'[u] # None
    BY <2>1, NoneAssumption DEF NInv, SceneTypeOK
  <2>4. \A x \in Outputs, u \in Windows :
          scaled'[x][u] # None => scaled[x][u] # None /\ home'[u] # None
    BY <2>1, <2>3 DEF ZInv, ZoomsOwned
  <2>5. scaled' \in [Outputs -> [Windows -> Progress \union {None}]]
    BY <2>1 DEF ZInv, ZoomTypeOK
  <2>6. ZInv'
    BY <2>1, <2>4, <2>5, Kept
  <2> QED
    BY <2>1, <2>2, <2>6, NightStays DEF NInv
<1>8. ASSUME NEW v \in Windows, Unmap(v) PROVE IInv'
  <2>1. SceneTypeOK'
    BY <1>8 DEF Unmap, NInv, SceneTypeOK
  <2>2. SceneTypeOK
    BY DEF NInv
  <2> QED
    BY <1>8, <2>1, <2>2, NightStays, ZoomUnmap DEF Unmap, NInv
<1>9. ASSUME Call PROVE IInv'
  <2>1. \E on \in BOOLEAN : Night!set_all(on)
    <3>1. Night!set_all(~enabled) \/ Night!set_all(TRUE) \/ Night!set_all(FALSE)
      BY <1>9 DEF Call, Night!on_toggle_ipc, Night!on_start_ipc, Night!on_stop_ipc
    <3> QED
      BY <3>1, Zenon
  <2>2. /\ replugged' = IF night' = night THEN replugged ELSE {}
        /\ UNCHANGED <<plugged, home, zooms>>
    BY <1>9 DEF Call
  <2>3. NightTypeOK' /\ TintsOwned' /\ ShowsTheFlag' /\ redraw' \subseteq plugged
    BY <2>1, <2>2, Verb
  <2>4. SceneTypeOK'
    BY <2>2, <2>3 DEF NInv, SceneTypeOK
  <2>5. ZInv'
    BY <2>2 DEF zooms, ZInv, ZoomTypeOK, ZoomsOwned
  <2> QED
    BY <2>3, <2>4, <2>5 DEF NInv
<1>10. ASSUME Reload PROVE IInv'
  <2>1. SceneTypeOK'
    BY <1>10 DEF Reload, NInv, SceneTypeOK, TintsOwned
  <2>2. ZInv'
    BY <1>10 DEF Reload, zooms, ZInv, ZoomTypeOK, ZoomsOwned
  <2> QED
    BY <1>10, <2>1, <2>2, NightReload DEF NInv
<1>11. CASE UNCHANGED vars
  <2>1. SceneTypeOK'
    BY <1>11 DEF vars, NInv, SceneTypeOK
  <2>2. ZInv'
    BY <1>11 DEF vars, zooms, ZInv, ZoomTypeOK, ZoomsOwned
  <2> QED
    BY <1>11, <2>1, <2>2, NightStays DEF vars, NInv
<1> QED
  BY <1>1, <1>2, <1>3, <1>4, <1>5, <1>6, <1>7, <1>8, <1>9, <1>10, <1>11 DEF Next

\* Whatever outputs, windows and verbs come, neither plugin leaves a hook, a tint,
\* a timer or a scaled window behind when a fade or a zoom is over or its output gone.
THEOREM EffectsLeaveNothing == Spec => []NothingLeftBehind
<1>1. IInv => NothingLeftBehind
  BY DEF IInv, NInv, ZInv, NothingLeftBehind, TypeOK
<1>2. Init => IInv
  BY NightInit, ZoomInit DEF IInv
<1> QED
  BY <1>1, <1>2, Step, PTL DEF Spec

\* Each output shows what the flag says unless it was plugged in since a verb last
\* did anything, and then it is dark; and a toggle does nothing exactly when the
\* light is on and every output has been plugged in since.
THEOREM NightLightInStep == Spec => []InStep
<1>1. IInv => InStep
  <2> SUFFICES ASSUME IInv PROVE InStep
    OBVIOUS
  <2>1. ShowsTheFlag
    BY DEF IInv, NInv
  <2>2. ASSUME NEW o \in plugged
        PROVE  (Night!CanStop(o) <=> Lit(o)) /\ (Night!CanStart(o) <=> ~Lit(o))
    BY DEF IInv, NInv, SceneTypeOK, NightTypeOK, Night!CanStop, Night!CanStart, Lit
  <2>3. ASSUME plugged # {} PROVE ToggleIdle <=> enabled /\ plugged \subseteq replugged
    <3>1. CASE enabled
      <4>1. ToggleIdle <=> \A o \in plugged : ~Night!CanStop(o)
        BY <3>1 DEF ToggleIdle
      <4>2. ASSUME NEW o \in plugged PROVE Night!CanStop(o) <=> o \notin replugged
        <5>1. Lit(o) <=> o \notin replugged
          BY <2>1, <3>1 DEF ShowsTheFlag
        <5>2. Night!CanStop(o) <=> Lit(o)
          BY <2>2
        <5> QED
          BY <5>1, <5>2
      <4> QED
        BY <3>1, <4>1, <4>2
    <3>2. CASE ~enabled
      <4>1. PICK o \in plugged : TRUE
        BY <2>3
      <4>2. ~Lit(o)
        BY <2>1, <3>2 DEF ShowsTheFlag
      <4>3. Night!CanStart(o)
        BY <2>2, <4>2
      <4> QED
        BY <3>2, <4>3 DEF ToggleIdle
    <3> QED
      BY <3>1, <3>2
  <2> QED
    BY <2>1, <2>3 DEF InStep
<1>2. Init => IInv
  BY NightInit, ZoomInit DEF IInv
<1> QED
  BY <1>1, <1>2, Step, PTL DEF Spec
=============================================================================
