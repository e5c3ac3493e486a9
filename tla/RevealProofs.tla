---------------------------- MODULE RevealProofs ----------------------------
(***************************************************************************)
(* Proofs about Reveal for any outputs and length of the animations: that  *)
(* the grid, the layers and the picture follow the reveals under each of   *)
(* the three plugins.  What a step does to one output says nothing of the  *)
(* others, so the invariant is a statement about each output.              *)
(***************************************************************************)
EXTENDS Reveal, TLAPS

-----------------------------------------------------------------------------
(***************************************************************************)
(* The invariant.                                                          *)
(***************************************************************************)
Typed ==
  /\ loaded \in Kinds \union {None}
  /\ state \in [Outputs -> {"IDLE", "OPENING", "OPEN", "CLOSING"}]
  /\ anim \in [Outputs -> Progress]
  /\ screenshot \in [Outputs -> Progress \union {None}]
  /\ offset \in [Outputs -> Progress \union {None}]
  /\ enables \in [Outputs -> [Layers -> Nat]] /\ widgetEnables \in [Outputs -> Nat]

Subsets ==
  /\ desktop_view \subseteq Outputs /\ widget_view \subseteq Outputs
  /\ desktop_tr \subseteq Outputs /\ backdrop \subseteq Outputs
  /\ gridUp \subseteq Outputs /\ gridHidden \subseteq Outputs
  /\ widgetUp \subseteq Outputs /\ slid \subseteq Outputs
  /\ hooked \subseteq Outputs /\ redraw \subseteq Outputs
  /\ active \subseteq Outputs /\ inhibited \subseteq Outputs

\* The surfaces of an output, and the handles of them.
Surfaces(w) ==
  /\ w \in gridHidden <=> loaded # None /\ w \in gridUp /\ state[w] = "IDLE"
  /\ w \in desktop_view <=> loaded # None /\ w \in gridUp
  /\ w \in widget_view => w \in widgetUp
  /\ w \in desktop_tr <=> offset[w] # None
  /\ w \in desktop_tr => w \in gridUp

Rested(w) ==
  state[w] = "IDLE" =>
    /\ screenshot[w] = None /\ offset[w] = None
    /\ w \notin backdrop /\ w \notin hooked /\ w \notin active

\* A reveal always has its picture, so that a frame of it asks for the next one.
Driven(w) ==
  state[w] # "IDLE" =>
    /\ loaded # None /\ w \in active /\ w \notin inhibited
    /\ w \in hooked <=> state[w] # "OPEN"
    /\ w \in hooked => w \in redraw
    /\ screenshot[w] # None
    /\ state[w] = "OPEN" => screenshot[w] = Full /\ offset[w] \in {Full, None}

\* The counts of the layers and of the widget surface.  That of the wallpaper
\* would be larger by one without the curtain, and is beyond 1 for ever once a
\* slide reveal has ended.
Bare(w) == IF state[w] # "IDLE" /\ loaded = CURTAIN THEN 1 ELSE 0

Counts(w) ==
  /\ enables[w]["WORKSPACE"] = IF state[w] = "IDLE" THEN 1 ELSE 0
  /\ enables[w]["TOP"] = IF state[w] # "IDLE" /\ loaded # ZOOM THEN 0 ELSE 1
  /\ enables[w]["BACKGROUND"] + Bare(w) >= 1
  /\ enables[w]["BACKGROUND"] + Bare(w) > 1 <=> w \in slid
  /\ widgetEnables[w] >= 1 \/ (state[w] # "IDLE" /\ loaded # ZOOM /\ w \in widgetUp)

\* Each plugin undoes no more than what it does itself.
OwnWork(w) ==
  /\ loaded \in {None, ZOOM} => w \notin widget_view
  /\ loaded # CURTAIN => w \notin backdrop
  /\ loaded = CURTAIN => offset[w] = None

OutputInv(w) == Surfaces(w) /\ Rested(w) /\ Driven(w) /\ OwnWork(w) /\ Counts(w)

IInv == Typed /\ Subsets /\ \A w \in Outputs : OutputInv(w)

\* Nothing about w is changed.
Kept(w) ==
  /\ state'[w] = state[w] /\ screenshot'[w] = screenshot[w]
  /\ offset'[w] = offset[w] /\ enables'[w] = enables[w]
  /\ widgetEnables'[w] = widgetEnables[w] /\ (w \in slid' <=> w \in slid)
  /\ w \in gridUp' <=> w \in gridUp
  /\ w \in gridHidden' <=> w \in gridHidden
  /\ w \in desktop_view' <=> w \in desktop_view
  /\ w \in desktop_tr' <=> w \in desktop_tr
  /\ w \in widgetUp' <=> w \in widgetUp
  /\ w \in widget_view' <=> w \in widget_view
  /\ w \in backdrop' <=> w \in backdrop
  /\ w \in hooked' <=> w \in hooked
  /\ w \in redraw => w \in redraw'
  /\ w \in active' <=> w \in active
  /\ w \in inhibited' <=> w \in inhibited

\* A step on one output.
LEMMA OneOutput ==
  ASSUME IInv, NEW o \in Outputs, loaded' = loaded, Typed', Subsets',
         \A w \in Outputs \ {o} : Kept(w), OutputInv(o)'
  PROVE  IInv'
<1>1. ASSUME NEW w \in Outputs \ {o} PROVE OutputInv(w)'
  <2>1. OutputInv(w) /\ Kept(w)
    BY DEF IInv
  <2>2. Surfaces(w)'
    BY <2>1 DEF Kept, OutputInv, Surfaces
  <2>3. Rested(w)'
    BY <2>1 DEF Kept, OutputInv, Rested
  <2>4. Driven(w)'
    BY <2>1 DEF Kept, OutputInv, Driven
  <2>5. OwnWork(w)'
    BY <2>1 DEF Kept, OutputInv, OwnWork
  <2>6. Counts(w)'
    BY <2>1 DEF Kept, OutputInv, Counts, Bare
  <2> QED
    BY <2>2, <2>3, <2>4, <2>5, <2>6 DEF OutputInv
<1> QED
  BY <1>1 DEF IInv

LEMMA Ends == 0 \in Progress /\ Full \in Progress /\ None \notin Progress
BY FullAssumption, NoneAssumption DEF Progress

LEMMA Start == Init => IInv
<1> SUFFICES ASSUME Init PROVE IInv
  OBVIOUS
<1>1. Typed
  BY Ends DEF Init, Typed
<1>2. Subsets
  BY DEF Init, Subsets
<1>3. ASSUME NEW w \in Outputs PROVE OutputInv(w)
  BY KindsAssumption DEF Init, OutputInv, Surfaces, Rested, Driven, OwnWork, Counts, Bare,
                         Layers
<1> QED
  BY <1>1, <1>2, <1>3 DEF IInv

-----------------------------------------------------------------------------
(***************************************************************************)
(* A reveal opens.  The plugins differ in what they put out of sight.      *)
(***************************************************************************)
Hides == {"WORKSPACE"} \union (IF loaded = ZOOM THEN {} ELSE {"TOP"})
                      \union (IF loaded = CURTAIN THEN {"BACKGROUND"} ELSE {})

LEMMA HidesOf ==
  /\ loaded = SLIDE => Hides = {"WORKSPACE", "TOP"}
  /\ loaded = ZOOM => Hides = {"WORKSPACE"}
  /\ loaded = CURTAIN => Hides = Layers
BY DEF Hides, SLIDE, ZOOM, CURTAIN, Layers

OpensWith(o) ==
  /\ o \notin inhibited /\ state[o] = "IDLE" /\ loaded # None
  /\ state' = [state EXCEPT ![o] = "OPENING"] /\ anim' = [anim EXCEPT ![o] = 0]
  /\ active' = active \union {o} /\ hooked' = hooked \union {o} /\ redraw' = redraw \union {o}
  /\ screenshot' = [screenshot EXCEPT ![o] = 0]
  /\ desktop_view' = desktop_view \union ({o} \intersect gridUp)
  /\ gridHidden' = gridHidden \ ({o} \intersect desktop_view')
  /\ \/ loaded = ZOOM /\ UNCHANGED <<widget_view, widgetEnables>>
     \/ /\ loaded # ZOOM
        /\ widget_view' = widget_view \union ({o} \intersect widgetUp)
        /\ widgetEnables' = Counted(widgetEnables, {o} \intersect widget_view', -1)
  /\ \/ UNCHANGED backdrop
     \/ loaded = CURTAIN /\ backdrop' = backdrop \union {o}
  /\ \/ UNCHANGED <<desktop_tr, offset>>
     \/ /\ loaded # CURTAIN /\ o \in desktop_view'
        /\ desktop_tr' = desktop_tr \union {o} /\ offset' = [offset EXCEPT ![o] = 0]
  /\ Layered({o}, Hides, -1)
  /\ UNCHANGED <<loaded, inhibited, gridUp, widgetUp, slid>>

LEMMA SlideOpens ==
  ASSUME NEW o \in Outputs, loaded = SLIDE, Slide!start_open(o), UNCHANGED <<loaded,
         inhibited>>
  PROVE  OpensWith(o)
<1>1. SLIDE # None /\ SLIDE # ZOOM /\ SLIDE # CURTAIN
  BY KindsAssumption DEF SLIDE, ZOOM, CURTAIN
<1>2. /\ o \notin inhibited /\ state[o] = "IDLE"
      /\ state' = [state EXCEPT ![o] = "OPENING"] /\ anim' = [anim EXCEPT ![o] = 0]
      /\ active' = active \union {o} /\ hooked' = hooked \union {o}
      /\ redraw' = redraw \union {o}
      /\ screenshot' = [screenshot EXCEPT ![o] = 0] /\ UNCHANGED <<backdrop, slid>>
  BY DEF Slide!start_open, Slide!Opens
<1>3. /\ desktop_view' = desktop_view \union ({o} \intersect gridUp)
      /\ gridHidden' = gridHidden \ ({o} \intersect desktop_view')
      /\ UNCHANGED gridUp
  BY DEF Slide!start_open, Slide!set_desktop_visible, Slide!Toggled
<1>4. /\ widget_view' = widget_view \union ({o} \intersect widgetUp)
      /\ widgetEnables' = Counted(widgetEnables, {o} \intersect widget_view', -1)
      /\ UNCHANGED widgetUp
  BY DEF Slide!start_open, Slide!set_widgets_visible, Slide!Counted, Counted
<1>5. \/ UNCHANGED <<desktop_tr, offset>>
      \/ /\ o \in desktop_view'
         /\ desktop_tr' = desktop_tr \union {o} /\ offset' = [offset EXCEPT ![o] = 0]
  BY DEF Slide!start_open, Slide!AddTransformer
<1>6. Layered({o}, Hides, -1)
  BY HidesOf DEF Slide!start_open, Slide!Disable, Slide!Layered, Slide!Layers, Layered,
                 Layers
<1> QED
  BY <1>1, <1>2, <1>3, <1>4, <1>5, <1>6 DEF OpensWith

LEMMA ZoomOpens ==
  ASSUME NEW o \in Outputs, loaded = ZOOM, Zoom!start_open(o), UNCHANGED <<loaded,
         inhibited>>
  PROVE  OpensWith(o)
<1>1. ZOOM # None /\ ZOOM # CURTAIN
  BY KindsAssumption DEF ZOOM, CURTAIN
<1>2. /\ o \notin inhibited /\ state[o] = "IDLE"
      /\ state' = [state EXCEPT ![o] = "OPENING"] /\ anim' = [anim EXCEPT ![o] = 0]
      /\ active' = active \union {o} /\ hooked' = hooked \union {o}
      /\ redraw' = redraw \union {o}
      /\ screenshot' = [screenshot EXCEPT ![o] = 0]
      /\ UNCHANGED <<backdrop, slid, widgetUp, widgetEnables, widget_view>>
  BY DEF Zoom!start_open, Zoom!Opens, Zoom!widgets
<1>3. /\ desktop_view' = desktop_view \union ({o} \intersect gridUp)
      /\ gridHidden' = gridHidden \ ({o} \intersect desktop_view')
      /\ UNCHANGED gridUp
  BY DEF Zoom!start_open, Zoom!set_desktop_visible, Zoom!Toggled
<1>4. \/ UNCHANGED <<desktop_tr, offset>>
      \/ /\ o \in desktop_view'
         /\ desktop_tr' = desktop_tr \union {o} /\ offset' = [offset EXCEPT ![o] = 0]
  BY DEF Zoom!start_open, Zoom!AddTransformer
<1>5. Layered({o}, Hides, -1)
  BY HidesOf DEF Zoom!start_open, Zoom!Disable, Zoom!Layered, Zoom!Layers, Layered, Layers
<1> QED
  BY <1>1, <1>2, <1>3, <1>4, <1>5 DEF OpensWith

LEMMA CurtainOpens ==
  ASSUME NEW o \in Outputs, loaded = CURTAIN, Curtain!start_open(o),
         UNCHANGED <<loaded, inhibited>>
  PROVE  OpensWith(o)
<1>1. CURTAIN # None /\ CURTAIN # ZOOM
  BY KindsAssumption DEF ZOOM, CURTAIN
<1>2. /\ o \notin inhibited /\ state[o] = "IDLE"
      /\ state' = [state EXCEPT ![o] = "OPENING"] /\ anim' = [anim EXCEPT ![o] = 0]
      /\ active' = active \union {o} /\ hooked' = hooked \union {o}
      /\ redraw' = redraw \union {o}
      /\ screenshot' = [screenshot EXCEPT ![o] = 0]
      /\ backdrop' = backdrop \union {o} /\ UNCHANGED <<slid, desktop_tr, offset>>
  BY DEF Curtain!start_open, Curtain!Opens
<1>3. /\ desktop_view' = desktop_view \union ({o} \intersect gridUp)
      /\ gridHidden' = gridHidden \ ({o} \intersect desktop_view')
      /\ UNCHANGED gridUp
  BY DEF Curtain!start_open, Curtain!set_desktop_visible, Curtain!Toggled
<1>4. /\ widget_view' = widget_view \union ({o} \intersect widgetUp)
      /\ widgetEnables' = Counted(widgetEnables, {o} \intersect widget_view', -1)
      /\ UNCHANGED widgetUp
  BY DEF Curtain!start_open, Curtain!set_widgets_visible, Curtain!Counted, Counted
<1>5. Layered({o}, Hides, -1)
  BY HidesOf DEF Curtain!start_open, Curtain!Disable, Curtain!Layered, Curtain!Layers,
                 Layered, Layers
<1> QED
  BY <1>1, <1>2, <1>3, <1>4, <1>5 DEF OpensWith

\* The layers that the plugin hides were drawn, and the widgets as well.
LEMMA OpensCount ==
  ASSUME IInv, NEW o \in Outputs, OpensWith(o)
  PROVE  /\ Counts(o)'
         /\ enables' \in [Outputs -> [Layers -> Nat]] /\ widgetEnables' \in [Outputs -> Nat]
         /\ \A w \in Outputs \ {o} : enables'[w] = enables[w] /\ widgetEnables'[w] = widgetEnables[w]
<1>1. /\ OutputInv(o) /\ state[o] = "IDLE" /\ state'[o] = "OPENING"
      /\ loaded' = loaded /\ loaded # None
  BY DEF IInv, Typed, OpensWith
<1>2. /\ enables[o]["WORKSPACE"] = 1 /\ enables[o]["TOP"] = 1
      /\ enables[o]["BACKGROUND"] >= 1 /\ (enables[o]["BACKGROUND"] > 1 <=> o \in slid)
      /\ widgetEnables[o] >= 1
  <2>1. Bare(o) = 0
    BY <1>1 DEF Bare
  <2>2. enables[o]["BACKGROUND"] \in Nat
    BY DEF IInv, Typed, Layers
  <2> QED
    BY <1>1, <2>1, <2>2 DEF OutputInv, Counts
<1>3. ASSUME NEW w \in Outputs, NEW l \in Layers
      PROVE  enables'[w][l] = enables[w][l] + IF w = o /\ l \in Hides THEN -1 ELSE 0
  BY DEF OpensWith, Layered
<1>4. ASSUME NEW w \in Outputs, NEW l \in Layers PROVE enables[w][l] \in Nat /\ enables'[w][l] \in Nat
  <2>1. enables[w][l] \in Nat
    BY DEF IInv, Typed
  <2>2. enables[o][l] >= 1
    BY <1>2 DEF Layers
  <2> QED
    BY <1>3, <2>1, <2>2
<1>5. enables' \in [Outputs -> [Layers -> Nat]]
  <2>1. enables' = [w \in Outputs |-> [l \in Layers |-> enables'[w][l]]]
    BY DEF OpensWith, Layered
  <2> QED
    BY <1>4, <2>1
<1>6. ASSUME NEW w \in Outputs \ {o} PROVE enables'[w] = enables[w]
  <2>1. enables[w] = [l \in Layers |-> enables[w][l]] /\ enables'[w] = [l \in Layers |-> enables'[w][l]]
    BY <1>5 DEF IInv, Typed
  <2>2. \A l \in Layers : enables'[w][l] = enables[w][l]
    BY <1>3, <1>4
  <2> QED
    BY <2>1, <2>2
<1>7. /\ widgetEnables' \in [Outputs -> Nat]
      /\ \A w \in Outputs \ {o} : widgetEnables'[w] = widgetEnables[w]
      /\ widgetEnables'[o] >= 1 \/ (loaded # ZOOM /\ o \in widgetUp')
  <2>1. CASE loaded = ZOOM
    BY <1>2, <2>1 DEF OpensWith, IInv, Typed
  <2>2. CASE loaded # ZOOM
    <3>1. /\ widgetEnables' = Counted(widgetEnables, {o} \intersect widget_view', -1)
          /\ o \in widget_view' => o \in widgetUp'
      BY <1>1, <2>2 DEF OpensWith, OutputInv, Surfaces
    <3>2. \A w \in Outputs : widgetEnables'[w] = IF w = o /\ o \in widget_view' THEN widgetEnables[w] - 1
                                                  ELSE widgetEnables[w]
      BY <3>1 DEF Counted, IInv, Typed
    <3>3. widgetEnables' = [w \in Outputs |-> widgetEnables'[w]]
      BY <3>1 DEF Counted
    <3>4. ASSUME NEW w \in Outputs PROVE widgetEnables[w] \in Nat /\ widgetEnables'[w] \in Nat
      <4>1. widgetEnables[w] \in Nat
        BY DEF IInv, Typed
      <4> QED
        BY <1>2, <3>2, <4>1
    <3>5. widgetEnables' \in [Outputs -> Nat]
      BY <3>3, <3>4
    <3>6. \A w \in Outputs \ {o} : widgetEnables'[w] = widgetEnables[w]
      BY <3>2
    <3>7. widgetEnables'[o] >= 1 \/ o \in widgetUp'
      BY <1>2, <3>1, <3>2
    <3> QED
      BY <2>2, <3>5, <3>6, <3>7
  <2> QED
    BY <2>1, <2>2
<1>8. Counts(o)'
  <2>1. enables'[o]["WORKSPACE"] = 0
    BY <1>2, <1>3 DEF Layers, Hides
  <2>2. enables'[o]["TOP"] = IF loaded = ZOOM THEN 1 ELSE 0
    BY <1>2, <1>3 DEF Layers, Hides
  <2>3. enables'[o]["BACKGROUND"] = enables[o]["BACKGROUND"] - Bare(o)'
    BY <1>1, <1>3, <1>4 DEF Layers, Hides, Bare
  <2>4. enables'[o]["BACKGROUND"] + Bare(o)' = enables[o]["BACKGROUND"]
    BY <1>4, <2>3 DEF Layers, Bare
  <2> QED
    BY <1>1, <1>2, <1>7, <2>1, <2>2, <2>4 DEF Counts, OpensWith
<1> QED
  BY <1>5, <1>6, <1>7, <1>8

LEMMA OpensKeeps ==
  ASSUME IInv, NEW o \in Outputs, OpensWith(o)
  PROVE  IInv'
<1>2. Typed'
  <2>1. /\ state' \in [Outputs -> {"IDLE", "OPENING", "OPEN", "CLOSING"}]
        /\ anim' \in [Outputs -> Progress]
        /\ screenshot' \in [Outputs -> Progress \union {None}]
    BY Ends DEF IInv, Typed, OpensWith
  <2>2. offset' \in [Outputs -> Progress \union {None}]
    BY Ends DEF IInv, Typed, OpensWith
  <2> QED
    BY <2>1, <2>2, OpensCount DEF IInv, Typed, OpensWith
<1>3. Subsets'
  BY DEF IInv, Subsets, OpensWith
<1>4. ASSUME NEW w \in Outputs \ {o} PROVE Kept(w)
  BY OpensCount DEF IInv, Typed, OpensWith, Kept
<1>5. OutputInv(o)
  BY DEF IInv
<1>6. /\ state'[o] = "OPENING" /\ screenshot'[o] = 0
      /\ offset'[o] = offset[o] \/ offset'[o] = 0
  BY DEF IInv, Typed, OpensWith
<1>7. Surfaces(o)'
  <2>1. o \in desktop_view' <=> o \in gridUp
    BY <1>5 DEF OpensWith, OutputInv, Surfaces
  <2>2. o \notin gridHidden'
    BY <1>5, <2>1 DEF OpensWith, OutputInv, Surfaces
  <2>3. o \in widget_view' => o \in widgetUp
    BY <1>5 DEF OpensWith, OutputInv, Surfaces
  <2>4. (o \in desktop_tr' <=> offset'[o] # None) /\ (o \in desktop_tr' => o \in gridUp)
    <3>1. CASE UNCHANGED <<desktop_tr, offset>>
      BY <1>5, <3>1 DEF OutputInv, Surfaces
    <3>2. CASE /\ o \in desktop_view' /\ desktop_tr' = desktop_tr \union {o}
               /\ offset' = [offset EXCEPT ![o] = 0]
      <4>1. offset'[o] = 0
        BY <3>2 DEF IInv, Typed
      <4> QED
        BY <2>1, <3>2, <4>1, Ends
    <3> QED
      BY <3>1, <3>2 DEF OpensWith
  <2> QED
    BY <1>6, <2>1, <2>2, <2>3, <2>4 DEF OpensWith, Surfaces
<1>8. Rested(o)'
  BY <1>6 DEF Rested
<1>9. Driven(o)'
  BY <1>6, Ends DEF OpensWith, Driven
<1>10. OwnWork(o)'
  <2>2. loaded # CURTAIN => o \notin backdrop'
    BY <1>5 DEF OpensWith, OutputInv, OwnWork
  <2>3. loaded = CURTAIN => offset'[o] = None
    BY <1>5 DEF OpensWith, OutputInv, OwnWork
  <2>4. loaded \in {None, ZOOM} => o \notin widget_view'
    BY <1>5 DEF OpensWith, OutputInv, OwnWork
  <2> QED
    BY <2>2, <2>3, <2>4 DEF OpensWith, OwnWork
<1>11. OutputInv(o)'
  BY <1>7, <1>8, <1>9, <1>10, OpensCount DEF OutputInv
<1> QED
  BY <1>2, <1>3, <1>4, <1>11, OneOutput DEF OpensWith

-----------------------------------------------------------------------------
(***************************************************************************)
(* A reveal closes, and its frames.                                        *)
(***************************************************************************)
ClosesWith(o) ==
  /\ state[o] \in {"OPEN", "OPENING"} /\ state' = [state EXCEPT ![o] = "CLOSING"]
  /\ IF state[o] = "OPEN"
     THEN hooked' = hooked \union {o} /\ redraw' = redraw \union {o}
     ELSE UNCHANGED <<hooked, redraw>>
  /\ UNCHANGED <<loaded, inhibited, anim, active, picture, grid, widgets>>

LEMMA EachCloses ==
  ASSUME NEW o \in Outputs, UNCHANGED <<loaded, inhibited>>,
         Slide!start_close(o) \/ Zoom!start_close(o) \/ Curtain!start_close(o)
  PROVE  ClosesWith(o)
<1>1. CASE Slide!start_close(o)
  BY <1>1 DEF ClosesWith, Slide!start_close, Slide!Closes, Slide!picture, Slide!layerVars,
              Slide!grid, Slide!widgets, picture, layerVars, grid, widgets
<1>2. CASE Zoom!start_close(o)
  BY <1>2 DEF ClosesWith, Zoom!start_close, Zoom!Closes, Zoom!picture, Zoom!layerVars,
              Zoom!grid, Zoom!widgets, picture, layerVars, grid, widgets
<1>3. CASE Curtain!start_close(o)
  BY <1>3 DEF ClosesWith, Curtain!start_close, Curtain!Closes, Curtain!picture,
              Curtain!layerVars, Curtain!grid, Curtain!widgets, picture, layerVars, grid,
              widgets
<1> QED
  BY <1>1, <1>2, <1>3

LEMMA ClosesKeeps ==
  ASSUME IInv, NEW o \in Outputs, ClosesWith(o)
  PROVE  IInv'
<1>1. /\ UNCHANGED <<loaded, inhibited, anim, active, screenshot, backdrop, enables, slid, desktop_tr,
                     offset, gridUp, gridHidden, desktop_view, widgetUp, widgetEnables,
                     widget_view>>
  BY DEF ClosesWith, picture, layerVars, grid, widgets
<1>2. Typed'
  BY <1>1 DEF IInv, Typed, ClosesWith
<1>3. Subsets'
  BY <1>1 DEF IInv, Subsets, ClosesWith
<1>4. ASSUME NEW w \in Outputs \ {o} PROVE Kept(w)
  BY <1>1 DEF IInv, Typed, ClosesWith, Kept
<1>5. OutputInv(o)
  BY DEF IInv
<1>6. state'[o] = "CLOSING" /\ state[o] # "IDLE" /\ o \in hooked' /\ o \in redraw'
  BY <1>5 DEF IInv, Typed, ClosesWith, OutputInv, Driven
<1>7. Surfaces(o)' /\ OwnWork(o)'
  BY <1>1, <1>5, <1>6 DEF OutputInv, Surfaces, OwnWork
<1>8. Rested(o)' /\ Driven(o)'
  BY <1>1, <1>5, <1>6 DEF OutputInv, Rested, Driven
<1>9. Counts(o)'
  BY <1>1, <1>5, <1>6 DEF OutputInv, Counts, Bare
<1> QED
  BY <1>1, <1>2, <1>3, <1>4, <1>7, <1>8, <1>9, OneOutput DEF OutputInv

\* A frame that moves the picture, and the grid if it has a transformer.
AdvancesWith(o) ==
  /\ \E p \in Progress :
       /\ screenshot' = [screenshot EXCEPT ![o] = p] /\ anim' = [anim EXCEPT ![o] = p]
       /\ offset' = IF o \in desktop_tr THEN [offset EXCEPT ![o] = p] ELSE offset
       /\ IF state[o] = "OPENING" /\ p = Full
          THEN state' = [state EXCEPT ![o] = "OPEN"] /\ hooked' = hooked \ {o}
          ELSE UNCHANGED <<state, hooked>>
  /\ redraw' = redraw \union {o}
  /\ UNCHANGED <<loaded, inhibited, active, backdrop, enables, slid, desktop_tr, grid, widgets>>

LEMMA AdvancesKeeps ==
  ASSUME IInv, NEW o \in Outputs, o \in hooked, AdvancesWith(o)
  PROVE  IInv'
<1>1. PICK p \in Progress :
       /\ screenshot' = [screenshot EXCEPT ![o] = p] /\ anim' = [anim EXCEPT ![o] = p]
       /\ offset' = IF o \in desktop_tr THEN [offset EXCEPT ![o] = p] ELSE offset
       /\ IF state[o] = "OPENING" /\ p = Full
          THEN state' = [state EXCEPT ![o] = "OPEN"] /\ hooked' = hooked \ {o}
          ELSE UNCHANGED <<state, hooked>>
  BY DEF AdvancesWith
<1>2. /\ redraw' = redraw \union {o}
      /\ UNCHANGED <<loaded, inhibited, active, backdrop, enables, slid, desktop_tr, gridUp, gridHidden,
                     desktop_view, widgetUp, widgetEnables, widget_view>>
  BY DEF AdvancesWith, grid, widgets
<1>3. OutputInv(o) /\ o \in active /\ state[o] \in {"OPENING", "CLOSING"}
  BY DEF IInv, Typed, OutputInv, Rested, Driven
<1>4. Typed'
  <2>1. state' \in [Outputs -> {"IDLE", "OPENING", "OPEN", "CLOSING"}]
    BY <1>1 DEF IInv, Typed
  <2>2. screenshot' \in [Outputs -> Progress \union {None}] /\ anim' \in [Outputs -> Progress]
    BY <1>1 DEF IInv, Typed
  <2>3. offset' \in [Outputs -> Progress \union {None}]
    BY <1>1 DEF IInv, Typed
  <2> QED
    BY <1>2, <2>1, <2>2, <2>3 DEF IInv, Typed
<1>5. Subsets'
  BY <1>1, <1>2 DEF IInv, Subsets
<1>6. ASSUME NEW w \in Outputs \ {o} PROVE Kept(w)
  BY <1>1, <1>2 DEF IInv, Typed, Kept
<1>7. /\ screenshot'[o] = p /\ p # None
      /\ offset'[o] = IF o \in desktop_tr THEN p ELSE offset[o]
      /\ state'[o] = IF state[o] = "OPENING" /\ p = Full THEN "OPEN" ELSE state[o]
      /\ o \in hooked' <=> ~(state[o] = "OPENING" /\ p = Full)
  BY <1>1, Ends DEF IInv, Typed
<1>8. Surfaces(o)'
  BY <1>2, <1>3, <1>7 DEF OutputInv, Surfaces
<1>9. Rested(o)'
  BY <1>3, <1>7 DEF Rested
<1>10. Driven(o)'
  BY <1>2, <1>3, <1>7 DEF OutputInv, Surfaces, Driven
<1>11. OwnWork(o)'
  BY <1>2, <1>3, <1>7 DEF OutputInv, Surfaces, OwnWork
<1>12. Counts(o)'
  BY <1>2, <1>3, <1>7 DEF OutputInv, Counts, Bare
<1> QED
  BY <1>2, <1>4, <1>5, <1>6, <1>8, <1>9, <1>10, <1>11, <1>12, OneOutput DEF OutputInv

\* What a hooked frame finds of an output.
LEMMA Framed ==
  ASSUME IInv, NEW o \in Outputs, o \in hooked
  PROVE  /\ loaded # None /\ screenshot[o] # None
         /\ o \in desktop_tr => o \in desktop_view
         /\ loaded = CURTAIN => o \notin desktop_tr
BY DEF IInv, OutputInv, Surfaces, Rested, Driven, OwnWork

LEMMA EachAdvances ==
  ASSUME IInv, NEW o \in Outputs, o \in hooked, NEW p \in Progress,
         UNCHANGED <<loaded, inhibited>>,
         \/ /\ Slide!apply_progress(o, p) /\ Slide!Advances(o, p)
            /\ UNCHANGED <<backdrop, enables, slid, desktop_tr, Slide!grid, Slide!widgets>>
         \/ /\ Zoom!apply_progress(o, p) /\ Zoom!Advances(o, p)
            /\ UNCHANGED <<backdrop, enables, slid, desktop_tr, Zoom!grid, Zoom!widgets>>
         \/ /\ loaded = CURTAIN /\ Curtain!apply_progress(o, p) /\ Curtain!Advances(o, p)
            /\ UNCHANGED <<backdrop, enables, slid, desktop_tr, offset, Curtain!grid, Curtain!widgets>>
  PROVE  AdvancesWith(o)
<1>1. CASE /\ Slide!apply_progress(o, p) /\ Slide!Advances(o, p)
           /\ UNCHANGED <<backdrop, enables, slid, desktop_tr, Slide!grid, Slide!widgets>>
  BY <1>1, Framed DEF AdvancesWith, grid, widgets, Slide!apply_progress, Slide!Advances,
                      Slide!ShowAt, Slide!grid, Slide!widgets
<1>2. CASE /\ Zoom!apply_progress(o, p) /\ Zoom!Advances(o, p)
           /\ UNCHANGED <<backdrop, enables, slid, desktop_tr, Zoom!grid, Zoom!widgets>>
  BY <1>2, Framed DEF AdvancesWith, grid, widgets, Zoom!apply_progress, Zoom!Advances,
                      Zoom!ShowAt, Zoom!grid, Zoom!widgets
<1>3. CASE /\ loaded = CURTAIN /\ Curtain!apply_progress(o, p) /\ Curtain!Advances(o, p)
           /\ UNCHANGED <<backdrop, enables, slid, desktop_tr, offset, Curtain!grid, Curtain!widgets>>
  BY <1>3, Framed DEF AdvancesWith, grid, widgets, Curtain!apply_progress, Curtain!Advances,
                      Curtain!ShowAt, Curtain!grid, Curtain!widgets
<1> QED
  BY <1>1, <1>2, <1>3

-----------------------------------------------------------------------------
(***************************************************************************)
(* The surfaces come and go.                                               *)
(***************************************************************************)
\* A grid that maps: without a plugin nobody looks at it.
MapsWith(o) ==
  /\ o \notin gridUp /\ gridUp' = gridUp \union {o}
  /\ IF loaded = None THEN UNCHANGED <<desktop_view, gridHidden>>
     ELSE /\ desktop_view' = desktop_view \union {o}
          /\ gridHidden' = IF state[o] = "IDLE" THEN gridHidden \union {o} ELSE gridHidden
  /\ UNCHANGED <<loaded, inhibited, course, picture, widgets>>

LEMMA EachMaps ==
  ASSUME IInv, NEW o \in Outputs, MapGrid(o) PROVE MapsWith(o)
<1> USE DEF MapsWith, course, picture, layerVars, widgets
<1>1. SLIDE # None /\ ZOOM # None /\ CURTAIN # None
  BY KindsAssumption
<1>2. CASE loaded = SLIDE /\ Slide!on_view_mapped(o)
  BY <1>1, <1>2 DEF MapGrid, Slide!on_view_mapped, Slide!GridMaps, Slide!course,
                    Slide!picture, Slide!layerVars, Slide!widgets
<1>3. CASE loaded = ZOOM /\ Zoom!on_view_mapped(o)
  BY <1>1, <1>3 DEF MapGrid, Zoom!on_view_mapped, Zoom!GridMaps, Zoom!course,
                    Zoom!picture, Zoom!layerVars, Zoom!widgets
<1>4. CASE loaded = CURTAIN /\ Curtain!on_view_mapped(o)
  BY <1>1, <1>4 DEF MapGrid, Curtain!on_view_mapped, Curtain!GridMaps, Curtain!course,
                    Curtain!picture, Curtain!layerVars, Curtain!widgets
<1>5. CASE /\ loaded = None /\ o \notin gridUp
           /\ gridUp' = gridUp \union {o}
           /\ UNCHANGED <<course, picture, gridHidden, desktop_view, widgets>>
  BY <1>5 DEF MapGrid
<1> QED
  BY <1>2, <1>3, <1>4, <1>5 DEF MapGrid

LEMMA MapsKeeps ==
  ASSUME IInv, NEW o \in Outputs, MapsWith(o)
  PROVE  IInv'
<1>1. UNCHANGED <<loaded, inhibited, state, anim, hooked, redraw, active, screenshot, backdrop,
                  enables, slid, desktop_tr, offset, widgetUp, widgetEnables, widget_view>>
  BY DEF MapsWith, course, picture, layerVars, widgets
<1>2. Typed' /\ Subsets'
  BY <1>1 DEF IInv, Typed, Subsets, MapsWith
<1>3. ASSUME NEW w \in Outputs \ {o} PROVE Kept(w)
  BY <1>1 DEF MapsWith, Kept
<1>4. OutputInv(o)
  BY DEF IInv
<1>5. Surfaces(o)'
  BY <1>1, <1>4 DEF MapsWith, OutputInv, Surfaces
<1>6. Rested(o)' /\ Driven(o)' /\ OwnWork(o)' /\ Counts(o)'
  BY <1>1, <1>4 DEF OutputInv, Rested, Driven, OwnWork, Counts, Bare
<1> QED
  BY <1>1, <1>2, <1>3, <1>5, <1>6, OneOutput DEF OutputInv

LEMMA WidgetsMap == ASSUME IInv, NEW o \in Outputs, MapWidgets(o) PROVE IInv'
<1>1. /\ widgetUp' = widgetUp \union {o}
      /\ UNCHANGED <<loaded, inhibited, state, anim, hooked, redraw, active, screenshot,
                     backdrop, enables, slid, desktop_tr, offset, gridUp, gridHidden, desktop_view,
                     widgetEnables, widget_view>>
  BY DEF MapWidgets, course, picture, layerVars, grid
<1>2. Typed' /\ Subsets'
  BY <1>1 DEF IInv, Typed, Subsets
<1>3. ASSUME NEW w \in Outputs \ {o} PROVE Kept(w)
  BY <1>1 DEF Kept
<1>4. OutputInv(o)
  BY DEF IInv
<1>5. Surfaces(o)' /\ Rested(o)' /\ Driven(o)' /\ OwnWork(o)'
  BY <1>1, <1>4 DEF OutputInv, Surfaces, Rested, Driven, OwnWork
<1>6. Counts(o)'
  BY <1>1, <1>4 DEF OutputInv, Counts, Bare
<1> QED
  BY <1>1, <1>2, <1>3, <1>5, <1>6, OneOutput DEF OutputInv

\* A surface that is gone takes what was done to it along.
GridGone(o) ==
  /\ gridUp' = gridUp \ {o} /\ gridHidden' = gridHidden \ {o}
  /\ offset' = [offset EXCEPT ![o] = None]
  /\ desktop_tr' = desktop_tr \ {o} /\ desktop_view' = desktop_view \ {o}
  /\ UNCHANGED <<loaded, inhibited, course, screenshot, backdrop, enables, slid, widgets>>

WidgetsGone(o) ==
  /\ widgetUp' = widgetUp \ {o} /\ widgetEnables' = [widgetEnables EXCEPT ![o] = 1]
  /\ \/ widget_view' = widget_view \ {o}
     \/ loaded \in {None, ZOOM} /\ UNCHANGED widget_view
  /\ UNCHANGED <<loaded, inhibited, course, picture, grid>>

LEMMA EachUnmaps ==
  ASSUME NEW o \in Outputs, Unmap(o) PROVE GridGone(o) \/ WidgetsGone(o)
<1> USE DEF GridGone, WidgetsGone, course, picture, layerVars, grid, widgets
<1>1. CASE loaded = SLIDE /\ Slide!on_view_unmapped(o)
  BY <1>1 DEF Unmap, Slide!on_view_unmapped, Slide!GridUnmaps, Slide!WidgetsUnmap,
              Slide!course, Slide!picture, Slide!layerVars, Slide!grid, Slide!widgets
<1>2. CASE loaded = ZOOM /\ Zoom!on_view_unmapped(o)
  BY <1>2 DEF Unmap, Zoom!on_view_unmapped, Zoom!GridUnmaps, Zoom!WidgetsUnmap,
              Zoom!course, Zoom!picture, Zoom!layerVars, Zoom!grid, Zoom!widgets
<1>3. CASE loaded = CURTAIN /\ Curtain!on_view_unmapped(o)
  BY <1>3 DEF Unmap, Curtain!on_view_unmapped, Curtain!GridUnmaps, Curtain!WidgetsUnmap,
              Curtain!course, Curtain!picture, Curtain!layerVars, Curtain!grid,
              Curtain!widgets
<1>4. CASE loaded = None /\ GridUnmaps(o)
           /\ UNCHANGED <<course, screenshot, backdrop, enables, slid, widgets>>
  BY <1>4 DEF Unmap, GridUnmaps, layerVars
<1>5. CASE loaded = None /\ WidgetsUnmap(o)
           /\ UNCHANGED <<course, picture, grid, widget_view>>
  BY <1>5 DEF Unmap, WidgetsUnmap
<1> QED
  BY <1>1, <1>2, <1>3, <1>4, <1>5 DEF Unmap

LEMMA GridGoneKeeps == ASSUME IInv, NEW o \in Outputs, GridGone(o) PROVE IInv'
<1>1. UNCHANGED <<loaded, inhibited, state, anim, hooked, redraw, active, screenshot, backdrop,
                  enables, slid, widgetUp, widgetEnables, widget_view>>
  BY DEF GridGone, course, widgets
<1>2. /\ o \notin gridUp' /\ o \notin gridHidden' /\ o \notin desktop_tr'
      /\ o \notin desktop_view' /\ offset'[o] = None
  BY DEF GridGone, IInv, Typed
<1>3. Typed'
  <2>1. offset' \in [Outputs -> Progress \union {None}]
    BY DEF GridGone, IInv, Typed
  <2> QED
    BY <1>1, <2>1 DEF IInv, Typed
<1>4. Subsets'
  BY <1>1 DEF GridGone, IInv, Subsets
<1>5. ASSUME NEW w \in Outputs \ {o} PROVE Kept(w)
  BY <1>1 DEF GridGone, IInv, Typed, Kept
<1>6. OutputInv(o)
  BY DEF IInv
<1>7. Surfaces(o)'
  BY <1>1, <1>2, <1>6 DEF OutputInv, Surfaces
<1>8. Rested(o)' /\ Driven(o)' /\ OwnWork(o)' /\ Counts(o)'
  BY <1>1, <1>2, <1>6 DEF OutputInv, Rested, Driven, OwnWork, Counts, Bare
<1> QED
  BY <1>1, <1>3, <1>4, <1>5, <1>7, <1>8, OneOutput DEF OutputInv

LEMMA WidgetsGoneKeeps == ASSUME IInv, NEW o \in Outputs, WidgetsGone(o) PROVE IInv'
<1>1. UNCHANGED <<loaded, inhibited, state, anim, hooked, redraw, active, screenshot, backdrop,
                  enables, slid, desktop_tr, offset, gridUp, gridHidden, desktop_view>>
  BY DEF WidgetsGone, course, picture, layerVars, grid
<1>2. OutputInv(o)
  BY DEF IInv
<1>3. o \notin widgetUp' /\ widgetEnables'[o] = 1 /\ o \notin widget_view'
  BY <1>2 DEF WidgetsGone, OutputInv, OwnWork, IInv, Typed
<1>4. Typed' /\ Subsets'
  BY <1>1 DEF WidgetsGone, IInv, Typed, Subsets
<1>5. ASSUME NEW w \in Outputs \ {o} PROVE Kept(w)
  BY <1>1 DEF WidgetsGone, IInv, Typed, Kept
<1>6. Surfaces(o)' /\ Rested(o)' /\ Driven(o)' /\ OwnWork(o)'
  BY <1>1, <1>2, <1>3 DEF OutputInv, Surfaces, Rested, Driven, OwnWork
<1>7. Counts(o)'
  BY <1>1, <1>2, <1>3 DEF OutputInv, Counts, Bare
<1> QED
  BY <1>1, <1>4, <1>5, <1>6, <1>7, OneOutput DEF OutputInv

-----------------------------------------------------------------------------
(***************************************************************************)
(* The end of reveals: each plugin takes back all that it did to them.     *)
(***************************************************************************)
Returns == IF loaded = ZOOM THEN {"WORKSPACE"} ELSE Layers

RestsWith(S) ==
  /\ state' = On(state, S, "IDLE") /\ anim' = On(anim, S, 0)
  /\ hooked' = hooked \ S /\ active' = active \ S /\ redraw' = redraw \union S
  /\ screenshot' = On(screenshot, S, None)
  /\ \A w \in Outputs : offset'[w] = IF w \in S THEN None ELSE offset[w]
  /\ Layered(S, Returns, 1) /\ slid' = IF loaded = SLIDE THEN slid \union S ELSE slid
  /\ offset' \in [Outputs -> Progress \union {None}]
  /\ desktop_tr' = desktop_tr \ S /\ backdrop' = backdrop \ S
  /\ UNCHANGED <<gridUp, widgetUp>>

\* In the terms of the restore() and Rests of a plugin with a transformer.
LEMMA RestoredWith ==
  ASSUME IInv, NEW S \in SUBSET Outputs, loaded \in {SLIDE, ZOOM},
         state' = On(state, S, "IDLE"), anim' = On(anim, S, 0),
         hooked' = hooked \ S, active' = active \ S, redraw' = redraw \union S,
         screenshot' = On(screenshot, S, None),
         offset' = On(offset, S \intersect desktop_tr \intersect desktop_view, None),
         desktop_tr' = desktop_tr \ S,
         Layered(S, Returns, 1), slid' = IF loaded = SLIDE THEN slid \union S ELSE slid,
         UNCHANGED <<backdrop, gridUp, widgetUp>>
  PROVE  RestsWith(S)
<1>1. ASSUME NEW w \in Outputs
      PROVE  offset'[w] = IF w \in S THEN None ELSE offset[w]
  <2>1. OutputInv(w) /\ loaded # None
    BY KindsAssumption DEF IInv
  <2>2. w \in S /\ offset[w] # None => w \in desktop_tr /\ w \in desktop_view
    BY <2>1 DEF OutputInv, Surfaces
  <2> QED
    BY <2>2 DEF On, IInv, Typed
<1>2. \A w \in Outputs : w \notin backdrop
  BY DEF IInv, OutputInv, OwnWork, SLIDE, ZOOM, CURTAIN
<1>3. backdrop' = backdrop \ S
  BY <1>2 DEF IInv, Subsets
<1>4. offset' \in [Outputs -> Progress \union {None}]
  BY DEF On, IInv, Typed
<1> QED
  BY <1>1, <1>3, <1>4 DEF RestsWith

\* The layers that a reveal has hidden are drawn again, and the wallpaper is counted
\* up whether slide-peek has hidden it or not.
Whole(w) ==
  /\ enables[w]["WORKSPACE"] = 1 /\ enables[w]["TOP"] = 1
  /\ enables[w]["BACKGROUND"] >= 1
  /\ enables[w]["BACKGROUND"] > 1 <=> w \in slid

LEMMA RestsCount ==
  ASSUME IInv, NEW S \in SUBSET Open, RestsWith(S)
  PROVE  /\ enables' \in [Outputs -> [Layers -> Nat]] /\ slid' \subseteq Outputs
         /\ \A w \in S : Whole(w)'
         /\ \A w \in Outputs \ S : enables'[w] = enables[w] /\ (w \in slid' <=> w \in slid)
<1>1. ASSUME NEW w \in Outputs, NEW l \in Layers
      PROVE  /\ enables'[w][l] = enables[w][l] + IF w \in S /\ l \in Returns THEN 1 ELSE 0
             /\ enables[w][l] \in Nat
  BY DEF RestsWith, Layered, IInv, Typed
<1>2. enables' \in [Outputs -> [Layers -> Nat]]
  <2>1. \A w \in Outputs : \A l \in Layers : enables'[w][l] \in Nat
    BY <1>1
  <2>2. enables' = [w \in Outputs |-> [l \in Layers |-> enables'[w][l]]]
    BY DEF RestsWith, Layered
  <2> QED
    BY <2>1, <2>2
<1>3. slid' \subseteq Outputs
  BY DEF RestsWith, IInv, Subsets, Open
<1>4. ASSUME NEW w \in S PROVE Whole(w)'
  <2>1. w \in Outputs /\ OutputInv(w) /\ state[w] # "IDLE" /\ loaded # None
    BY DEF IInv, OutputInv, Driven, Open
  <2>2. /\ enables'[w]["WORKSPACE"] = enables[w]["WORKSPACE"] + 1
        /\ enables'[w]["TOP"] = enables[w]["TOP"] + IF loaded = ZOOM THEN 0 ELSE 1
        /\ enables'[w]["BACKGROUND"] = enables[w]["BACKGROUND"] + IF loaded = ZOOM THEN 0 ELSE 1
        /\ enables[w]["BACKGROUND"] \in Nat
    BY <1>1, <2>1 DEF Layers, Returns
  <2>3. w \in slid' <=> loaded = SLIDE \/ w \in slid
    BY DEF RestsWith
  <2>4. loaded \in {SLIDE, ZOOM, CURTAIN}
    BY <2>1, KindsAssumption DEF IInv, Typed
  <2>5. SLIDE # ZOOM /\ SLIDE # CURTAIN /\ ZOOM # CURTAIN
    BY DEF SLIDE, ZOOM, CURTAIN
  <2> QED
    BY <2>1, <2>2, <2>3, <2>4, <2>5 DEF OutputInv, Counts, Bare, Whole
<1>5. ASSUME NEW w \in Outputs \ S
      PROVE  enables'[w] = enables[w] /\ (w \in slid' <=> w \in slid)
  <2>1. enables[w] = [l \in Layers |-> enables[w][l]] /\ enables'[w] = [l \in Layers |-> enables'[w][l]]
    BY <1>2 DEF IInv, Typed
  <2>2. \A l \in Layers : enables'[w][l] = enables[w][l]
    BY <1>1
  <2> QED
    BY <2>1, <2>2 DEF RestsWith
<1> QED
  BY <1>2, <1>3, <1>4, <1>5

LEMMA RestedAll ==
  ASSUME IInv, NEW S \in SUBSET Outputs, RestsWith(S)
  PROVE  /\ state' \in [Outputs -> {"IDLE", "OPENING", "OPEN", "CLOSING"}]
         /\ anim' \in [Outputs -> Progress]
         /\ screenshot' \in [Outputs -> Progress \union {None}]
         /\ hooked' \subseteq Outputs /\ active' \subseteq Outputs /\ redraw' \subseteq Outputs
         /\ desktop_tr' \subseteq Outputs /\ backdrop' \subseteq Outputs
         /\ gridUp' \subseteq Outputs /\ widgetUp' \subseteq Outputs
         /\ \A w \in S : /\ state'[w] = "IDLE" /\ screenshot'[w] = None
                         /\ offset'[w] = None
                         /\ w \notin hooked' /\ w \notin active' /\ w \notin backdrop'
                         /\ w \notin desktop_tr'
         /\ \A w \in Outputs \ S :
              /\ state'[w] = state[w] /\ screenshot'[w] = screenshot[w]
              /\ offset'[w] = offset[w]
              /\ w \in hooked' <=> w \in hooked
              /\ w \in active' <=> w \in active
              /\ w \in redraw => w \in redraw'
              /\ w \in backdrop' <=> w \in backdrop
              /\ w \in desktop_tr' <=> w \in desktop_tr
<1>1. /\ state' \in [Outputs -> {"IDLE", "OPENING", "OPEN", "CLOSING"}]
      /\ anim' \in [Outputs -> Progress]
      /\ screenshot' \in [Outputs -> Progress \union {None}]
  BY Ends DEF IInv, Typed, RestsWith, On
<1>2. /\ hooked' \subseteq Outputs /\ active' \subseteq Outputs /\ redraw' \subseteq Outputs
      /\ desktop_tr' \subseteq Outputs /\ backdrop' \subseteq Outputs
      /\ gridUp' \subseteq Outputs /\ widgetUp' \subseteq Outputs
  BY DEF IInv, Subsets, RestsWith
<1>3. ASSUME NEW w \in S
      PROVE  /\ state'[w] = "IDLE" /\ screenshot'[w] = None
             /\ offset'[w] = None
             /\ w \notin hooked' /\ w \notin active' /\ w \notin backdrop'
             /\ w \notin desktop_tr'
  BY DEF RestsWith, On
<1>4. ASSUME NEW w \in Outputs \ S
      PROVE  /\ state'[w] = state[w] /\ screenshot'[w] = screenshot[w]
             /\ offset'[w] = offset[w]
             /\ w \in hooked' <=> w \in hooked
             /\ w \in active' <=> w \in active
             /\ w \in redraw => w \in redraw'
             /\ w \in backdrop' <=> w \in backdrop
             /\ w \in desktop_tr' <=> w \in desktop_tr
  BY DEF RestsWith, On
<1> QED
  BY <1>1, <1>2, <1>3, <1>4

\* hard_reset of one output, which may be inhibited by the same step.
ResetsWith(o) ==
  /\ RestsWith({o}) /\ loaded # None /\ state[o] # "IDLE"
  /\ desktop_view' = desktop_view \union ({o} \intersect gridUp)
  /\ gridHidden' = gridHidden \union ({o} \intersect desktop_view')
  /\ \/ loaded = ZOOM /\ UNCHANGED <<widgetEnables, widget_view>>
     \/ /\ loaded # ZOOM
        /\ widget_view' = widget_view \union ({o} \intersect widgetUp)
        /\ widgetEnables' = Counted(widgetEnables, {o} \intersect widget_view', 1)
  /\ UNCHANGED loaded

LEMMA SlideResets ==
  ASSUME IInv, NEW o \in Outputs, loaded = SLIDE, Slide!hard_reset({o}), state[o] # "IDLE",
         UNCHANGED loaded
  PROVE  ResetsWith(o)
<1>1. SLIDE # None /\ SLIDE # ZOOM
  BY KindsAssumption DEF SLIDE, ZOOM
<1>2. /\ state' = On(state, {o}, "IDLE") /\ anim' = On(anim, {o}, 0)
      /\ hooked' = hooked \ {o} /\ active' = active \ {o} /\ redraw' = redraw \union {o}
  BY DEF Slide!hard_reset, Slide!Rests, Slide!On, On
<1>3. /\ screenshot' = On(screenshot, {o}, None)
      /\ offset' = On(offset, {o} \intersect desktop_tr \intersect desktop_view, None)
      /\ desktop_tr' = desktop_tr \ {o}
      /\ Layered({o}, Returns, 1) /\ slid' = slid \union {o}
      /\ UNCHANGED backdrop
  BY <1>1 DEF Slide!hard_reset, Slide!restore, Slide!RemTransformer, Slide!Enable,
              Slide!On, On, Slide!Layered, Slide!Layers, Layered, Layers, Returns
<1>4. /\ desktop_view' = desktop_view \union ({o} \intersect gridUp)
      /\ gridHidden' = gridHidden \union ({o} \intersect desktop_view')
      /\ widget_view' = widget_view \union ({o} \intersect widgetUp)
      /\ widgetEnables' = Counted(widgetEnables, {o} \intersect widget_view', 1)
      /\ UNCHANGED <<gridUp, widgetUp>>
  BY DEF Slide!hard_reset, Slide!set_desktop_visible, Slide!set_widgets_visible,
         Slide!Toggled, Slide!Counted, Counted
<1>5. RestsWith({o})
  BY <1>1, <1>2, <1>3, <1>4, RestoredWith
<1> QED
  BY <1>1, <1>4, <1>5 DEF ResetsWith

LEMMA ZoomResets ==
  ASSUME IInv, NEW o \in Outputs, loaded = ZOOM, Zoom!hard_reset({o}), state[o] # "IDLE",
         UNCHANGED loaded
  PROVE  ResetsWith(o)
<1>1. ZOOM # None /\ ZOOM # SLIDE
  BY KindsAssumption DEF ZOOM, SLIDE
<1>2. /\ state' = On(state, {o}, "IDLE") /\ anim' = On(anim, {o}, 0)
      /\ hooked' = hooked \ {o} /\ active' = active \ {o} /\ redraw' = redraw \union {o}
  BY DEF Zoom!hard_reset, Zoom!Rests, Zoom!On, On
<1>3. /\ screenshot' = On(screenshot, {o}, None)
      /\ offset' = On(offset, {o} \intersect desktop_tr \intersect desktop_view, None)
      /\ desktop_tr' = desktop_tr \ {o}
      /\ Layered({o}, Returns, 1) /\ UNCHANGED slid
      /\ UNCHANGED backdrop
  BY DEF Zoom!hard_reset, Zoom!restore, Zoom!RemTransformer, Zoom!Enable, Zoom!On, On,
         Zoom!Layered, Zoom!Layers, Layered, Layers, Returns
<1>4. /\ desktop_view' = desktop_view \union ({o} \intersect gridUp)
      /\ gridHidden' = gridHidden \union ({o} \intersect desktop_view')
      /\ UNCHANGED <<gridUp, widgetUp, widgetEnables, widget_view>>
  BY DEF Zoom!hard_reset, Zoom!set_desktop_visible, Zoom!Toggled, Zoom!widgets
<1>5. RestsWith({o})
  BY <1>1, <1>2, <1>3, <1>4, RestoredWith
<1> QED
  BY <1>1, <1>4, <1>5 DEF ResetsWith

\* curtain-peek has a fill to take back, and no transformer.
LEMMA CurtainRestores ==
  ASSUME IInv, NEW S \in SUBSET Outputs, loaded = CURTAIN, Curtain!restore(S),
         Curtain!Rests(S),
         UNCHANGED <<gridUp, widgetUp>>
  PROVE  RestsWith(S)
<1>1. /\ state' = On(state, S, "IDLE") /\ anim' = On(anim, S, 0)
      /\ hooked' = hooked \ S /\ active' = active \ S /\ redraw' = redraw \union S
  BY DEF Curtain!Rests, Curtain!On, On
<1>2. /\ screenshot' = On(screenshot, S, None) /\ backdrop' = backdrop \ S
      /\ Layered(S, Returns, 1) /\ slid' = IF loaded = SLIDE THEN slid \union S ELSE slid
      /\ UNCHANGED <<desktop_tr, offset>>
  <2>1. CURTAIN # ZOOM /\ CURTAIN # SLIDE
    BY DEF CURTAIN, ZOOM, SLIDE
  <2> QED
    BY <2>1 DEF Curtain!restore, Curtain!Enable, Curtain!On, On, Curtain!Layered,
                Curtain!Layers, Layered, Layers, Returns
<1>3. \A w \in Outputs : offset[w] = None /\ w \notin desktop_tr
  BY DEF IInv, OutputInv, OwnWork, Surfaces
<1>4. desktop_tr' = desktop_tr \ S
  BY <1>2, <1>3 DEF IInv, Subsets
<1>5. /\ \A w \in Outputs : offset'[w] = IF w \in S THEN None ELSE offset[w]
      /\ offset' \in [Outputs -> Progress \union {None}]
  BY <1>2, <1>3 DEF IInv, Typed
<1> QED
  BY <1>1, <1>2, <1>4, <1>5 DEF RestsWith

LEMMA CurtainResets ==
  ASSUME IInv, NEW o \in Outputs, loaded = CURTAIN, Curtain!hard_reset({o}),
         state[o] # "IDLE", UNCHANGED loaded
  PROVE  ResetsWith(o)
<1>1. CURTAIN # None /\ CURTAIN # ZOOM
  BY KindsAssumption DEF CURTAIN, ZOOM
<1>2. /\ desktop_view' = desktop_view \union ({o} \intersect gridUp)
      /\ gridHidden' = gridHidden \union ({o} \intersect desktop_view')
      /\ widget_view' = widget_view \union ({o} \intersect widgetUp)
      /\ widgetEnables' = Counted(widgetEnables, {o} \intersect widget_view', 1)
      /\ UNCHANGED <<gridUp, widgetUp>>
  BY DEF Curtain!hard_reset, Curtain!set_desktop_visible, Curtain!set_widgets_visible,
         Curtain!Toggled, Curtain!Counted, Counted
<1>3. RestsWith({o})
  BY <1>2, CurtainRestores DEF Curtain!hard_reset
<1> QED
  BY <1>1, <1>2, <1>3 DEF ResetsWith

LEMMA ResetsKeeps ==
  ASSUME IInv, NEW o \in Outputs, ResetsWith(o),
         inhibited' = inhibited \/ inhibited' = inhibited \union {o}
  PROVE  IInv'
<1>1. /\ loaded' = loaded /\ loaded # None
      /\ desktop_view' = desktop_view \union ({o} \intersect gridUp)
      /\ gridHidden' = gridHidden \union ({o} \intersect desktop_view')
      /\ UNCHANGED <<gridUp, widgetUp>>
  BY DEF ResetsWith, RestsWith
<1>2. RestsWith({o}) /\ {o} \in SUBSET Outputs
  BY DEF ResetsWith
<1>3. OutputInv(o)
  BY DEF IInv
<1>4. {o} \in SUBSET Open /\ state[o] # "IDLE"
  BY DEF ResetsWith, Open
<1>5. /\ widgetEnables' \in [Outputs -> Nat] /\ widgetEnables'[o] >= 1
      /\ \A w \in Outputs \ {o} : widgetEnables'[w] = widgetEnables[w]
  <2>1. CASE loaded = ZOOM
    BY <1>3, <2>1 DEF ResetsWith, IInv, Typed, OutputInv, Counts
  <2>2. CASE loaded # ZOOM
    <3>1. /\ widgetEnables' = Counted(widgetEnables, {o} \intersect widget_view', 1)
          /\ widget_view' = widget_view \union ({o} \intersect widgetUp)
      BY <2>2 DEF ResetsWith
    <3>2. \A w \in Outputs : widgetEnables'[w] = IF w = o /\ o \in widget_view' THEN widgetEnables[w] + 1
                                                  ELSE widgetEnables[w]
      BY <3>1 DEF Counted, IInv, Typed
    <3>3. widgetEnables' = [w \in Outputs |-> widgetEnables'[w]]
      BY <3>1 DEF Counted
    <3>4. widgetEnables[o] >= 1 \/ o \in widgetUp
      BY <1>3 DEF OutputInv, Counts
    <3>5. ASSUME NEW w \in Outputs PROVE widgetEnables[w] \in Nat /\ widgetEnables'[w] \in Nat
      <4>1. widgetEnables[w] \in Nat
        BY DEF IInv, Typed
      <4> QED
        BY <3>2, <4>1
    <3>6. widgetEnables' \in [Outputs -> Nat]
      BY <3>3, <3>5
    <3>7. \A w \in Outputs \ {o} : widgetEnables'[w] = widgetEnables[w]
      BY <3>2
    <3>8. widgetEnables'[o] >= 1
      <4>1. widgetEnables[o] >= 1 \/ o \in widget_view'
        BY <3>1, <3>4
      <4>2. /\ widgetEnables[o] \in Nat
            /\ widgetEnables'[o] = IF o \in widget_view' THEN widgetEnables[o] + 1 ELSE widgetEnables[o]
        BY <3>2, <3>5
      <4> QED
        BY <4>1, <4>2
    <3> QED
      BY <3>6, <3>7, <3>8
  <2> QED
    BY <2>1, <2>2
<1>6. Typed'
  BY <1>1, <1>2, <1>4, <1>5, RestedAll, RestsCount DEF IInv, Typed, RestsWith
<1>7. Subsets'
  <2>1. /\ desktop_view' \subseteq Outputs /\ gridHidden' \subseteq Outputs
        /\ inhibited' \subseteq Outputs
    BY <1>1 DEF IInv, Subsets
  <2>2. widget_view' \subseteq Outputs
    BY DEF IInv, Subsets, ResetsWith
  <2> QED
    BY <1>2, <1>4, <2>1, <2>2, RestedAll, RestsCount DEF Subsets
<1>8. ASSUME NEW w \in Outputs \ {o} PROVE Kept(w)
  <2>1. /\ w \in widget_view' <=> w \in widget_view
        /\ w \in inhibited' <=> w \in inhibited
    BY DEF ResetsWith
  <2>2. enables'[w] = enables[w] /\ (w \in slid' <=> w \in slid)
    BY <1>2, <1>4, RestsCount
  <2> QED
    BY <1>1, <1>2, <1>5, <2>1, <2>2, RestedAll DEF Kept
<1>9. /\ state'[o] = "IDLE" /\ screenshot'[o] = None /\ offset'[o] = None
      /\ o \notin hooked' /\ o \notin active' /\ o \notin backdrop' /\ o \notin desktop_tr'
  BY <1>2, RestedAll
<1>10. /\ o \in widget_view' => o \in widgetUp
       /\ loaded \in {None, ZOOM} => o \notin widget_view'
  BY <1>1, <1>3 DEF ResetsWith, OutputInv, Surfaces, OwnWork
<1>11. Surfaces(o)'
  BY <1>1, <1>3, <1>9, <1>10 DEF OutputInv, Surfaces
<1>12. Rested(o)' /\ Driven(o)' /\ OwnWork(o)'
  BY <1>1, <1>9, <1>10 DEF Rested, Driven, OwnWork
<1>13. Counts(o)'
  <2>1. Whole(o)'
    BY <1>2, <1>4, RestsCount
  <2>2. enables'[o]["BACKGROUND"] \in Nat
    BY <1>6 DEF Typed, Layers
  <2> QED
    BY <1>5, <1>9, <2>1, <2>2 DEF Whole, Counts, Bare
<1> QED
  BY <1>1, <1>6, <1>7, <1>8, <1>11, <1>12, <1>13, OneOutput DEF OutputInv

-----------------------------------------------------------------------------
(***************************************************************************)
(* The plugin is loaded and unloaded.                                      *)
(***************************************************************************)
\* Whatever is open when the plugin goes, no surface is left hidden.
GoesWith ==
  /\ RestsWith(Open) /\ loaded' = None
  /\ desktop_view' = {} /\ gridHidden' = gridHidden \ (desktop_view \union gridUp)
  /\ widget_view' = {}
  /\ widgetEnables' \in [Outputs -> Nat] /\ \A w \in Outputs : widgetEnables'[w] >= 1

\* A surface that a reveal has hidden is among those that fini shows, twice.
LEMMA FiniCounts ==
  ASSUME IInv, FiniShows
  PROVE  widgetEnables' \in [Outputs -> Nat] /\ \A w \in Outputs : widgetEnables'[w] >= 1
<1> DEFINE found == widget_view \union widgetUp
<1>1. ASSUME NEW w \in Outputs
      PROVE  widgetEnables'[w] = (widgetEnables[w] + IF w \in found THEN 1 ELSE 0)
                                 + IF w \in found \intersect Open THEN 1 ELSE 0
  BY DEF FiniShows, Counted
<1>2. widgetEnables' = [w \in Outputs |-> widgetEnables'[w]]
  BY DEF FiniShows, Counted
<1>3. ASSUME NEW w \in Outputs PROVE widgetEnables'[w] \in Nat /\ widgetEnables'[w] >= 1
  <2>1. widgetEnables[w] \in Nat /\ (widgetEnables[w] >= 1 \/ w \in widgetUp)
    BY DEF IInv, Typed, OutputInv, Counts
  <2> QED
    BY <1>1, <2>1
<1> QED
  BY <1>2, <1>3

LEMMA SlideGoes ==
  ASSUME IInv, loaded = SLIDE, Slide!fini, loaded' = None
  PROVE  GoesWith
<1>1. Slide!Open = Open /\ Open \in SUBSET Outputs
  BY DEF Slide!Open, Open
<1>2. /\ state' = On(state, Open, "IDLE") /\ anim' = On(anim, Open, 0)
      /\ hooked' = hooked \ Open /\ active' = active \ Open /\ redraw' = redraw \union Open
  BY <1>1 DEF Slide!fini, Slide!Rests, Slide!On, On
<1>3. /\ screenshot' = On(screenshot, Open, None)
      /\ offset' = On(offset, Open \intersect desktop_tr \intersect desktop_view, None)
      /\ desktop_tr' = desktop_tr \ Open
      /\ Layered(Open, Returns, 1) /\ slid' = slid \union Open
      /\ UNCHANGED backdrop
  <2>1. SLIDE # ZOOM
    BY DEF SLIDE, ZOOM
  <2> QED
    BY <1>1, <2>1 DEF Slide!fini, Slide!restore, Slide!RemTransformer, Slide!Enable,
                      Slide!On, On, Slide!Layered, Slide!Layers, Layered, Layers, Returns
<1>4. /\ desktop_view' = {} /\ gridHidden' = gridHidden \ (desktop_view \union gridUp)
      /\ UNCHANGED <<gridUp, widgetUp>>
  BY DEF Slide!fini
<1>5. FiniShows /\ widget_view' = {}
  BY <1>1 DEF Slide!fini, Slide!FiniShows, Slide!Counted, FiniShows, Counted
<1>6. RestsWith(Open)
  BY <1>1, <1>2, <1>3, <1>4, RestoredWith
<1> QED
  BY <1>4, <1>5, <1>6, FiniCounts DEF GoesWith

LEMMA ZoomGoes ==
  ASSUME IInv, loaded = ZOOM, Zoom!fini, loaded' = None
  PROVE  GoesWith
<1>1. Zoom!Open = Open /\ Open \in SUBSET Outputs
  BY DEF Zoom!Open, Open
<1>2. /\ state' = On(state, Open, "IDLE") /\ anim' = On(anim, Open, 0)
      /\ hooked' = hooked \ Open /\ active' = active \ Open /\ redraw' = redraw \union Open
  BY <1>1 DEF Zoom!fini, Zoom!Rests, Zoom!On, On
<1>3. /\ screenshot' = On(screenshot, Open, None)
      /\ offset' = On(offset, Open \intersect desktop_tr \intersect desktop_view, None)
      /\ desktop_tr' = desktop_tr \ Open
      /\ Layered(Open, Returns, 1) /\ slid' = slid
      /\ UNCHANGED backdrop
  BY <1>1 DEF Zoom!fini, Zoom!restore, Zoom!RemTransformer, Zoom!Enable, Zoom!On, On,
              Zoom!Layered, Zoom!Layers, Layered, Layers, Returns
<1>4. /\ desktop_view' = {} /\ gridHidden' = gridHidden \ (desktop_view \union gridUp)
      /\ UNCHANGED <<gridUp, widgetUp>>
  BY DEF Zoom!fini, Zoom!widgets
<1>5. /\ widget_view' = {}
      /\ widgetEnables' \in [Outputs -> Nat] /\ \A w \in Outputs : widgetEnables'[w] >= 1
  <2>1. widgetEnables' = widgetEnables /\ widget_view' = widget_view
    BY DEF Zoom!fini, Zoom!widgets
  <2>2. \A w \in Outputs : widgetEnables[w] >= 1 /\ w \notin widget_view
    BY DEF IInv, OutputInv, OwnWork, Counts
  <2> QED
    BY <2>1, <2>2 DEF IInv, Typed, Subsets
<1>6. RestsWith(Open)
  <2>1. ZOOM # SLIDE
    BY DEF ZOOM, SLIDE
  <2> QED
    BY <1>1, <1>2, <1>3, <1>4, <2>1, RestoredWith
<1> QED
  BY <1>4, <1>5, <1>6 DEF GoesWith

LEMMA CurtainGoes ==
  ASSUME IInv, loaded = CURTAIN, Curtain!fini, loaded' = None
  PROVE  GoesWith
<1>1. Curtain!Open = Open /\ Open \in SUBSET Outputs
  BY DEF Curtain!Open, Open
<1>4. /\ desktop_view' = {} /\ gridHidden' = gridHidden \ (desktop_view \union gridUp)
      /\ UNCHANGED <<gridUp, widgetUp>>
  BY DEF Curtain!fini
<1>5. FiniShows /\ widget_view' = {}
  BY <1>1 DEF Curtain!fini, Curtain!FiniShows, Curtain!Counted, FiniShows, Counted
<1>6. RestsWith(Open)
  BY <1>1, <1>4, CurtainRestores DEF Curtain!fini
<1> QED
  BY <1>4, <1>5, <1>6, FiniCounts DEF GoesWith

LEMMA GoesKeeps ==
  ASSUME IInv, GoesWith, UNCHANGED inhibited
  PROVE  IInv'
<1>1. /\ RestsWith(Open) /\ Open \in SUBSET Outputs /\ loaded' = None
      /\ desktop_view' = {} /\ widget_view' = {}
      /\ widgetEnables' \in [Outputs -> Nat] /\ (\A w \in Outputs : widgetEnables'[w] >= 1)
      /\ gridHidden' = gridHidden \ (desktop_view \union gridUp)
      /\ UNCHANGED <<gridUp, widgetUp>>
  BY DEF GoesWith, Open, RestsWith
<1>2. gridHidden' = {}
  <2>1. \A w \in Outputs : w \in gridHidden => w \in gridUp
    BY DEF IInv, OutputInv, Surfaces
  <2> QED
    BY <1>1, <2>1 DEF IInv, Subsets
<1>3. Typed'
  <2>1. enables' \in [Outputs -> [Layers -> Nat]] /\ offset' \in [Outputs -> Progress \union {None}]
    BY <1>1, RestsCount DEF RestsWith
  <2> QED
    BY <1>1, <2>1, RestedAll DEF Typed
<1>4. Subsets'
  BY <1>1, <1>2, RestedAll, RestsCount DEF IInv, Subsets
<1>5. ASSUME NEW w \in Outputs PROVE OutputInv(w)'
  <2>1. OutputInv(w) /\ SLIDE # CURTAIN
    BY DEF IInv, SLIDE, CURTAIN
  <2>2. /\ state'[w] = "IDLE" /\ screenshot'[w] = None /\ offset'[w] = None
        /\ w \notin hooked' /\ w \notin active' /\ w \notin backdrop' /\ w \notin desktop_tr'
    <3>1. CASE w \in Open
      BY <1>1, <3>1, RestedAll
    <3>2. CASE w \notin Open
      <4>1. state[w] = "IDLE"
        BY <3>2 DEF Open
      <4>2. offset[w] = None /\ w \notin desktop_tr
        BY <2>1, <4>1 DEF OutputInv, Rested, Surfaces
      <4> QED
        BY <1>1, <2>1, <3>2, <4>1, <4>2, RestedAll DEF OutputInv, Rested
    <3> QED
      BY <3>1, <3>2
  <2>3. Surfaces(w)'
    BY <1>1, <1>2, <2>2 DEF Surfaces
  <2>4. Rested(w)' /\ Driven(w)'
    BY <1>1, <2>2 DEF Rested, Driven
  <2>5. OwnWork(w)'
    BY <1>1, <2>2 DEF OwnWork
  <2>6. Whole(w)'
    <3>1. CASE w \in Open
      BY <1>1, <3>1, RestsCount
    <3>2. CASE w \notin Open
      <4>1. state[w] = "IDLE" /\ Bare(w) = 0
        BY <3>2 DEF Open, Bare
      <4>2. enables'[w] = enables[w] /\ (w \in slid' <=> w \in slid)
        BY <1>1, <3>2, RestsCount
      <4>3. enables[w]["BACKGROUND"] \in Nat
        BY DEF IInv, Typed, Layers
      <4> QED
        BY <2>1, <4>1, <4>2, <4>3 DEF OutputInv, Counts, Whole
    <3> QED
      BY <3>1, <3>2
  <2>7. Counts(w)'
    <3>1. enables'[w]["BACKGROUND"] \in Nat
      BY <1>3 DEF Typed, Layers
    <3> QED
      BY <1>1, <2>2, <2>6, <3>1 DEF Whole, Counts, Bare
  <2> QED
    BY <2>3, <2>4, <2>5, <2>7 DEF OutputInv
<1> QED
  BY <1>3, <1>4, <1>5 DEF IInv

LEMMA LoadKeeps ==
  ASSUME IInv, NEW k \in Kinds, Load(k)
  PROVE  IInv'
<1>1. /\ loaded = None /\ loaded' = k /\ UNCHANGED inhibited /\ k # None
      /\ desktop_view' = desktop_view \union (Outputs \intersect gridUp)
      /\ gridHidden' = gridHidden \union (Outputs \intersect desktop_view')
      /\ UNCHANGED <<gridUp, course, picture, widgets>>
  <2>1. CASE Slide!init
    BY <2>1, NoneAssumption
       DEF Load, Slide!init, Slide!set_desktop_visible, Slide!Toggled, Slide!course,
           Slide!picture, Slide!layerVars, Slide!widgets, course, picture, layerVars,
           widgets
  <2>2. CASE Zoom!init
    BY <2>2, NoneAssumption
       DEF Load, Zoom!init, Zoom!set_desktop_visible, Zoom!Toggled, Zoom!course,
           Zoom!picture, Zoom!layerVars, Zoom!widgets, course, picture, layerVars, widgets
  <2>3. CASE Curtain!init
    BY <2>3, NoneAssumption
       DEF Load, Curtain!init, Curtain!set_desktop_visible, Curtain!Toggled, Curtain!course,
           Curtain!picture, Curtain!layerVars, Curtain!widgets, course, picture, layerVars,
           widgets
  <2> QED
    BY <2>1, <2>2, <2>3 DEF Load
<1>2. UNCHANGED <<inhibited, state, anim, hooked, redraw, active, screenshot, backdrop, enables, slid,
                  desktop_tr, offset, gridUp, widgetUp, widgetEnables, widget_view>>
  BY <1>1 DEF course, picture, layerVars, widgets
<1>3. Typed'
  BY <1>1, <1>2 DEF IInv, Typed
<1>4. Subsets'
  BY <1>1, <1>2 DEF IInv, Subsets
<1>5. ASSUME NEW w \in Outputs PROVE OutputInv(w)'
  <2>1. OutputInv(w)
    BY DEF IInv
  <2>2. /\ state[w] = "IDLE" /\ offset[w] = None
        /\ w \notin widget_view /\ w \notin backdrop
    BY <1>1, <2>1 DEF OutputInv, Rested, Driven, OwnWork
  <2>3. Surfaces(w)'
    BY <1>1, <1>2, <2>1, <2>2 DEF OutputInv, Surfaces
  <2>4. Rested(w)' /\ Driven(w)'
    BY <1>2, <2>1, <2>2 DEF OutputInv, Rested, Driven
  <2>5. OwnWork(w)'
    BY <1>2, <2>2 DEF OwnWork
  <2>6. Counts(w)'
    BY <1>2, <2>1, <2>2 DEF OutputInv, Counts, Bare
  <2> QED
    BY <2>3, <2>4, <2>5, <2>6 DEF OutputInv
<1> QED
  BY <1>3, <1>4, <1>5 DEF IInv

-----------------------------------------------------------------------------
(***************************************************************************)
(* The steps.                                                              *)
(***************************************************************************)
LEMMA Calls ==
  ASSUME NEW o \in Outputs, Call(o)
  PROVE  OpensWith(o) \/ ClosesWith(o)
<1>1. UNCHANGED <<loaded, inhibited>>
  BY DEF Call
<1>2. CASE loaded = SLIDE /\ (Slide!start_open(o) \/ Slide!start_close(o))
  BY <1>1, <1>2, SlideOpens, EachCloses
<1>3. CASE loaded = ZOOM /\ (Zoom!start_open(o) \/ Zoom!start_close(o))
  BY <1>1, <1>3, ZoomOpens, EachCloses
<1>4. CASE loaded = CURTAIN /\ (Curtain!start_open(o) \/ Curtain!start_close(o))
  BY <1>1, <1>4, CurtainOpens, EachCloses
<1> QED
  BY <1>2, <1>3, <1>4
     DEF Call, Slide!ipc_toggle, Slide!ipc_start, Slide!ipc_stop,
         Zoom!ipc_toggle, Zoom!ipc_start, Zoom!ipc_stop,
         Curtain!ipc_toggle, Curtain!ipc_start, Curtain!ipc_stop

LEMMA Frames ==
  ASSUME IInv, NEW o \in Outputs, o \in hooked, Frame(o)
  PROVE  \/ AdvancesWith(o)
         \/ state[o] = "CLOSING" /\ ResetsWith(o) /\ UNCHANGED inhibited
<1>1. UNCHANGED <<loaded, inhibited>>
  BY DEF Frame
<1>2. Slide!Ahead(o) \subseteq Progress /\ Zoom!Ahead(o) \subseteq Progress
      /\ Curtain!Ahead(o) \subseteq Progress
  BY DEF Slide!Ahead, Zoom!Ahead, Curtain!Ahead, Slide!Progress, Zoom!Progress,
         Curtain!Progress, Progress
<1>3. CASE loaded = SLIDE /\ Slide!on_frame(o)
  <2>1. PICK p \in Progress :
          IF state[o] = "CLOSING" /\ p = 0 THEN Slide!hard_reset({o})
          ELSE /\ Slide!apply_progress(o, p) /\ Slide!Advances(o, p)
               /\ UNCHANGED <<backdrop, enables, slid, desktop_tr, Slide!grid, Slide!widgets>>
    BY <1>2, <1>3 DEF Slide!on_frame, Slide!layerVars
  <2> QED
    BY <1>1, <1>3, <2>1, SlideResets, EachAdvances
<1>4. CASE loaded = ZOOM /\ Zoom!on_frame(o)
  <2>1. PICK p \in Progress :
          IF state[o] = "CLOSING" /\ p = 0 THEN Zoom!hard_reset({o})
          ELSE /\ Zoom!apply_progress(o, p) /\ Zoom!Advances(o, p)
               /\ UNCHANGED <<backdrop, enables, slid, desktop_tr, Zoom!grid, Zoom!widgets>>
    BY <1>2, <1>4 DEF Zoom!on_frame, Zoom!layerVars
  <2> QED
    BY <1>1, <1>4, <2>1, ZoomResets, EachAdvances
<1>5. CASE loaded = CURTAIN /\ Curtain!on_frame(o)
  <2>1. PICK p \in Progress :
          IF state[o] = "CLOSING" /\ p = 0 THEN Curtain!hard_reset({o})
          ELSE /\ Curtain!apply_progress(o, p) /\ Curtain!Advances(o, p)
               /\ UNCHANGED <<backdrop, enables, slid, desktop_tr, offset, Curtain!grid, Curtain!widgets>>
    BY <1>2, <1>5 DEF Curtain!on_frame, Curtain!layerVars
  <2> QED
    BY <1>1, <1>5, <2>1, CurtainResets, EachAdvances
<1> QED
  BY <1>3, <1>4, <1>5 DEF Frame

\* Nothing is changed but what is inhibited or drawn, of an output at rest.
LEMMA QuietKeeps ==
  ASSUME IInv, NEW o \in Outputs,
         UNCHANGED <<loaded, state, anim, hooked, active, picture, grid, widgets>>,
         \/ redraw' = redraw \union {o}
         \/ redraw' = redraw
         \/ redraw' = redraw \ {o} /\ o \notin hooked,
         \/ inhibited' = inhibited
         \/ inhibited' = inhibited \ {o}
         \/ inhibited' = inhibited \union {o} /\ o \notin active
  PROVE  IInv'
<1>1. UNCHANGED <<loaded, state, anim, hooked, active, screenshot, backdrop, enables, slid, desktop_tr,
                  offset, gridUp, gridHidden, desktop_view, widgetUp, widgetEnables, widget_view>>
  BY DEF picture, layerVars, grid, widgets
<1>2. Typed'
  BY <1>1 DEF IInv, Typed
<1>3. Subsets'
  BY <1>1 DEF IInv, Subsets
<1>4. ASSUME NEW w \in Outputs \ {o} PROVE Kept(w)
  BY <1>1 DEF Kept
<1>5. OutputInv(o)
  BY DEF IInv
<1>6. Surfaces(o)' /\ Rested(o)' /\ OwnWork(o)' /\ Counts(o)'
  BY <1>1, <1>5 DEF OutputInv, Surfaces, Rested, OwnWork, Counts, Bare
<1>7. Driven(o)'
  BY <1>1, <1>5 DEF OutputInv, Driven
<1> QED
  BY <1>1, <1>2, <1>3, <1>4, <1>6, <1>7, OneOutput DEF OutputInv

LEMMA Inhibits ==
  ASSUME IInv, NEW o \in Outputs, Inhibit(o)
  PROVE  /\ inhibited' = inhibited \union {o}
         /\ \/ ResetsWith(o)
            \/ o \notin active /\ UNCHANGED <<loaded, course, picture, grid, widgets>>
<1>1. inhibited' = inhibited \union {o} /\ UNCHANGED loaded
  BY DEF Inhibit
<1>2. CASE o \in active
  <2>1. state[o] # "IDLE"
    BY <1>2 DEF IInv, OutputInv, Rested
  <2> QED
    BY <1>1, <1>2, <2>1, SlideResets, ZoomResets, CurtainResets DEF Inhibit
<1>3. CASE o \notin active
  BY <1>1, <1>3 DEF Inhibit
<1> QED
  BY <1>1, <1>2, <1>3

LEMMA Unloads == ASSUME IInv, Unload PROVE GoesWith /\ UNCHANGED inhibited
BY SlideGoes, ZoomGoes, CurtainGoes DEF Unload

LEMMA OutputStep ==
  ASSUME IInv, NEW o \in Outputs,
         \/ Call(o) \/ Frame(o) \/ Damage(o) \/ MapGrid(o) \/ MapWidgets(o) \/ Unmap(o)
         \/ Inhibit(o) \/ Allow(o)
  PROVE  IInv'
<1>1. CASE Call(o)
  BY <1>1, Calls, OpensKeeps, ClosesKeeps
<1>2. CASE Frame(o) /\ o \in hooked
  BY <1>2, Frames, AdvancesKeeps, ResetsKeeps
<1>3. CASE Frame(o) /\ o \notin hooked
  BY <1>3, QuietKeeps DEF Frame
<1>4. CASE Damage(o)
  BY <1>4, QuietKeeps DEF Damage
<1>5. CASE MapGrid(o)
  BY <1>5, EachMaps, MapsKeeps
<1>6. CASE MapWidgets(o)
  BY <1>6, WidgetsMap
<1>7. CASE Unmap(o)
  BY <1>7, EachUnmaps, GridGoneKeeps, WidgetsGoneKeeps
<1>8. CASE Inhibit(o)
  BY <1>8, Inhibits, ResetsKeeps, QuietKeeps DEF course
<1>9. CASE Allow(o)
  BY <1>9, QuietKeeps DEF Allow, course
<1> QED
  BY <1>1, <1>2, <1>3, <1>4, <1>5, <1>6, <1>7, <1>8, <1>9

LEMMA Step == IInv /\ [Next]_vars => IInv'
<1> SUFFICES ASSUME IInv, [Next]_vars PROVE IInv'
  OBVIOUS
<1>1. ASSUME NEW k \in Kinds, Load(k) PROVE IInv'
  BY <1>1, LoadKeeps
<1>2. CASE Unload
  BY <1>2, Unloads, GoesKeeps
<1>3. CASE UNCHANGED vars
  <2>1. UNCHANGED <<loaded, inhibited, state, anim, hooked, redraw, active, screenshot, backdrop,
                    enables, slid, desktop_tr, offset, gridUp, gridHidden, desktop_view, widgetUp,
                    widgetEnables, widget_view>>
    BY <1>3 DEF vars, course, picture, layerVars, grid, widgets
  <2>2. Typed' /\ Subsets'
    BY <2>1 DEF IInv, Typed, Subsets
  <2>3. ASSUME NEW w \in Outputs PROVE OutputInv(w)'
    BY <2>1 DEF IInv, OutputInv, Surfaces, Rested, Driven, OwnWork, Counts, Bare
  <2> QED
    BY <2>2, <2>3 DEF IInv
<1> QED
  BY <1>1, <1>2, <1>3, OutputStep DEF Next

-----------------------------------------------------------------------------
(***************************************************************************)
(* What always holds.                                                      *)
(***************************************************************************)
LEMMA Always == Spec => []IInv
BY Start, Step, PTL DEF Spec

LEMMA InvTyped == IInv => TypeOK
<1> SUFFICES ASSUME IInv PROVE TypeOK
  OBVIOUS
<1>1. \A s \in {desktop_view, widget_view, desktop_tr, backdrop, gridUp, gridHidden,
                widgetUp, slid, hooked, redraw, active, inhibited} : s \subseteq Outputs
  BY DEF IInv, Subsets
<1> QED
  BY <1>1 DEF IInv, Typed, TypeOK

\* A mapped grid is out of sight exactly when a plugin is loaded and its output has
\* no reveal, and no handle is kept of a surface that is gone.
THEOREM GridsFollowReveals == Spec => []GridFollowsReveal
<1>1. IInv => GridFollowsReveal
  <2> SUFFICES ASSUME IInv PROVE GridFollowsReveal
    OBVIOUS
  <2>1. \A w \in Outputs : Surfaces(w) /\ Driven(w)
    BY DEF IInv, OutputInv
  <2>2. gridHidden = IF loaded = None THEN {} ELSE gridUp \ Open
    BY <2>1 DEF IInv, Subsets, Surfaces, Open
  <2>3. desktop_view = IF loaded = None THEN {} ELSE gridUp
    BY <2>1 DEF IInv, Subsets, Surfaces
  <2>4. widget_view \subseteq widgetUp /\ desktop_tr \subseteq gridUp
    BY <2>1 DEF IInv, Subsets, Surfaces
  <2>5. desktop_tr = {o \in Outputs : offset[o] # None}
    BY <2>1 DEF IInv, Subsets, Surfaces
  <2> QED
    BY <2>2, <2>3, <2>4, <2>5, InvTyped DEF GridFollowsReveal
<1> QED
  BY <1>1, Always, PTL

\* Between its reveals an output is drawn whole and nothing is left on it, however
\* they ended, though the counts of its wallpaper and its widgets may have grown; a
\* slide reveal has the wallpaper in its picture just when one has ended there
\* before; and one that moves has the hook and the frame that take it to its end.
THEOREM EachRevealComesAndGoes == Spec => []RevealsComeAndGo
<1>1. IInv => RevealsComeAndGo
  <2> SUFFICES ASSUME IInv PROVE RevealsComeAndGo
    OBVIOUS
  <2>1. \A w \in Outputs : Rested(w) /\ Driven(w) /\ Counts(w)
    BY DEF IInv, OutputInv
  <2>2. RestoredWhenIdle
    BY <2>1 DEF RestoredWhenIdle, Rested, Open
  <2>3. DrivenWhileMoving
    BY <2>1 DEF DrivenWhileMoving, Driven, Open
  <2>4. ASSUME NEW o \in Outputs PROVE NodesFollowReveal(o)
    <3>1. Counts(o) /\ (o \in Open <=> state[o] # "IDLE")
      BY <2>1 DEF Open
    <3>2. enables[o]["BACKGROUND"] \in Nat
      BY DEF IInv, Typed, Layers
    <3>3. o \in Open /\ loaded = SLIDE => (Slide!WallpaperInPicture(o) <=> o \in slid)
      <4>1. SLIDE # CURTAIN
        BY DEF SLIDE, CURTAIN
      <4> QED
        BY <3>1, <3>2, <4>1 DEF Slide!WallpaperInPicture, Counts, Bare
    <3> QED
      BY <3>1, <3>2, <3>3 DEF NodesFollowReveal, Counts, Bare
  <2> QED
    BY <2>2, <2>3, <2>4 DEF RevealsComeAndGo
<1> QED
  BY <1>1, Always, PTL

-----------------------------------------------------------------------------
(***************************************************************************)
(* Each instance is a peek.                                                *)
(***************************************************************************)
\* A step on one output that is one of a peek, or of none.
LEMMA OutputMaps ==
  ASSUME IInv, NEW o \in Outputs,
         \/ Call(o) \/ Frame(o) \/ Damage(o) \/ MapGrid(o) \/ MapWidgets(o) \/ Unmap(o)
         \/ Inhibit(o) \/ Allow(o)
  PROVE  [Abstract!Next]_(Abstract!vars)
<1>1. CASE OpensWith(o)
  <2>1. Abstract!Open(o)
    BY <1>1 DEF OpensWith, Abstract!Open, Abstract!Move
  <2> QED
    BY <2>1 DEF Abstract!Next
<1>2. CASE ClosesWith(o)
  <2>1. Abstract!Close(o)
    BY <1>2 DEF ClosesWith, Abstract!Close, Abstract!Move
  <2> QED
    BY <2>1 DEF Abstract!Next
<1>3. CASE AdvancesWith(o)
  <2>1. UNCHANGED inhibited
    BY <1>3 DEF AdvancesWith
  <2>2. \/ UNCHANGED state
        \/ state[o] = "OPENING" /\ state' = [state EXCEPT ![o] = "OPEN"]
    BY <1>3 DEF AdvancesWith
  <2>3. UNCHANGED Abstract!vars \/ Abstract!Settle(o)
    BY <2>1, <2>2 DEF Abstract!vars, Abstract!Settle, Abstract!Move
  <2> QED
    BY <2>3 DEF Abstract!Next
<1>4. CASE state[o] = "CLOSING" /\ ResetsWith(o) /\ UNCHANGED inhibited
  <2>1. state' = [state EXCEPT ![o] = "IDLE"]
    BY <1>4 DEF ResetsWith, RestsWith, On, IInv, Typed
  <2>2. Abstract!Finish(o)
    BY <1>4, <2>1 DEF Abstract!Finish, Abstract!Move
  <2> QED
    BY <2>2 DEF Abstract!Next
<1>5. CASE Inhibit(o)
  <2>1. inhibited' = inhibited \union {o}
    BY <1>5, Inhibits
  <2>2. state' = [w \in Outputs |-> IF w \in {o} THEN "IDLE" ELSE state[w]]
    <3>1. CASE ResetsWith(o)
      BY <3>1 DEF ResetsWith, RestsWith, On
    <3>2. CASE o \notin active /\ UNCHANGED course
      <4>1. state[o] = "IDLE"
        BY <3>2 DEF IInv, OutputInv, Driven
      <4> QED
        BY <3>2, <4>1 DEF course, IInv, Typed
    <3> QED
      BY <1>5, <3>1, <3>2, Inhibits
  <2>3. Abstract!Inhibit({o})
    BY <2>1, <2>2 DEF Abstract!Inhibit, Abstract!Rest
  <2>4. {o} \in SUBSET Outputs
    OBVIOUS
  <2> QED
    BY <2>3, <2>4 DEF Abstract!Next
<1>6. CASE Allow(o)
  <2>1. Abstract!Allow({o})
    BY <1>6 DEF Allow, course, Abstract!Allow
  <2>2. {o} \in SUBSET Outputs
    OBVIOUS
  <2> QED
    BY <2>1, <2>2 DEF Abstract!Next
<1>7. CASE UNCHANGED <<state, inhibited>>
  BY <1>7 DEF Abstract!vars
<1>8. CASE Call(o)
  BY <1>1, <1>2, <1>8, Calls
<1>9. CASE Frame(o) /\ o \in hooked
  BY <1>3, <1>4, <1>9, Frames
<1>10. CASE \/ Frame(o) /\ o \notin hooked
            \/ Damage(o) \/ MapGrid(o) \/ MapWidgets(o) \/ Unmap(o)
  <2>1. CASE (Frame(o) /\ o \notin hooked) \/ Damage(o) \/ MapWidgets(o)
    BY <1>7, <2>1 DEF Frame, Damage, MapWidgets, course
  <2>2. CASE MapGrid(o)
    BY <1>7, <2>2, EachMaps DEF MapsWith, course
  <2>3. CASE Unmap(o)
    BY <1>7, <2>3, EachUnmaps DEF GridGone, WidgetsGone, course
  <2> QED
    BY <1>10, <2>1, <2>2, <2>3
<1> QED
  BY <1>5, <1>6, <1>8, <1>9, <1>10

\* Under each plugin and whatever comes and goes, an output opens, settles, closes
\* and rests in that order, and is at rest while the lock inhibits it.
THEOREM RevealsArePeeks == Spec => Abstract!Safe
<1>1. Init => Abstract!Init
  BY DEF Init, Abstract!Init
<1>2. IInv /\ [Next]_vars => [Abstract!Next]_(Abstract!vars)
  <2> SUFFICES ASSUME IInv, [Next]_vars PROVE [Abstract!Next]_(Abstract!vars)
    OBVIOUS
  <2>1. ASSUME NEW k \in Kinds, Load(k) PROVE [Abstract!Next]_(Abstract!vars)
    <3>1. UNCHANGED <<state, inhibited>>
      BY <2>1 DEF Load, Slide!init, Slide!course, Zoom!init, Zoom!course,
                  Curtain!init, Curtain!course
    <3> QED
      BY <3>1 DEF Abstract!vars
  <2>2. CASE Unload
    <3>1. GoesWith /\ UNCHANGED inhibited
      BY <2>2, Unloads
    <3>2. Abstract!Drop(Open)
      BY <3>1 DEF GoesWith, RestsWith, On, Abstract!Drop, Abstract!Rest
    <3>3. Open \in SUBSET Outputs
      BY DEF Open
    <3> QED
      BY <3>2, <3>3 DEF Abstract!Next
  <2>3. CASE UNCHANGED vars
    BY <2>3 DEF vars, course, Abstract!vars
  <2> QED
    BY <2>1, <2>2, <2>3, OutputMaps DEF Next
<1> QED
  BY <1>1, <1>2, Always, PTL DEF Spec, Abstract!Safe
=============================================================================
