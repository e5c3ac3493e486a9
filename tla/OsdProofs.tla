------------------------------ MODULE OsdProofs ------------------------------
(***************************************************************************)
(* Proofs about lumen-osd, for any outputs, pills, picks and processes.    *)
(***************************************************************************)
EXTENDS Osd, TLAPS

-----------------------------------------------------------------------------
(***************************************************************************)
(* Lemmas about the operators.                                             *)
(***************************************************************************)
LEMMA ModeOfTile ==
  ASSUME NEW i \in Tiles, i # AbortTile
  PROVE  ModeOf(i) \in Modes
<1>1. \E m \in Modes : TileOf[m] = i
  BY DEF Tiles, AbortTile, Modes, TileOf
<1> QED
  BY <1>1 DEF ModeOf

LEMMA TileOfMode == ASSUME NEW m \in Modes PROVE TileOf[m] \in Tiles \ {AbortTile}
BY DEF Modes, TileOf, Tiles, AbortTile

LEMMA NextTile == ASSUME NEW i \in Tiles PROVE (i + 1) % 4 \in Tiles /\ (i + 3) % 4 \in Tiles
BY DEF Tiles

LEMMA ResolvedMode == ASSUME NEW m \in Modes PROVE Resolve(m) \in Modes
BY DEF Resolve, Modes

LEMMA StateIsMode == CurrentState \in Modes
BY DEF CurrentState, Modes

\* What is on screen after some windows have gone shows what it showed.
LEMMA RestrictedScreen ==
  ASSUME NEW S, NEW T, shown \in [Visible -> T], shown' = Restrict(shown,
         Visible \intersect S)
  PROVE  /\ Visible' = Visible \intersect S
         /\ shown' \in [Visible' -> T]
         /\ \A w \in Visible' : shown'[w] = shown[w]
BY DEF Restrict, Visible

LEMMA WithoutPrimary == Visible \ {Primary} = Visible \intersect (Visible \ {Primary})
OBVIOUS

-----------------------------------------------------------------------------
(***************************************************************************)
(* The inductive invariant: the screen and the pick together, as each of   *)
(* the hazards is an action of the one under the other.                    *)
(***************************************************************************)
PickOnly == ~active => ~dismiss_armed

IInv ==
  /\ TypeOK
  /\ WindowsFollowMonitors
  /\ PickerIsModal
  /\ PillsAreTimed
  /\ PillsAgree
  /\ PickOnly

LEMMA InitIInv == Init => IInv
<1> SUFFICES ASSUME Init PROVE IInv
  OBVIOUS
<1>1. Visible = {}
  BY DEF Init, Visible, Nowhere
<1>2. TypeOK
  <2>1. shown \in [Visible -> Notices \union Modes \union {Selector}]
    BY <1>1 DEF Init, Nowhere, Visible
  <2>2. /\ inputs \in 0 .. MaxInputs /\ picks \in Nat
        /\ index \in Tiles /\ last_index \in Tiles \ {AbortTile}
    BY BoundsAssumption DEF Init, Tiles, AbortTile
  <2>3. /\ monitors \subseteq Outputs /\ primary_monitor \in Outputs \union {None}
        /\ mirrors \subseteq Outputs
    BY DEF Init
  <2> QED
    BY <1>1, <2>1, <2>2, <2>3 DEF Init, TypeOK
<1>3. WindowsFollowMonitors
  BY DEF Init, WindowsFollowMonitors
<1> QED
  BY <1>1, <1>2, <1>3 DEF Init, IInv, PickerIsModal, PillsAreTimed, PillsAgree, PickOnly

\* A pick that ends leaves nothing on screen and gives the keyboard back.
LEMMA Closing ==
  ASSUME IInv, active, UNCHANGED <<mirrors, hide_armed>>,
         Close, shown' = Restrict(shown, Visible \ {Primary})
  PROVE  /\ Visible' = {}
         /\ shown' \in [Visible' -> Notices \union Modes \union {Selector}]
         /\ PickerIsModal' /\ PillsAreTimed' /\ PillsAgree' /\ PickOnly'
<1>1. /\ Visible' = Visible \ {Primary}
      /\ shown' \in [Visible' -> Notices \union Modes \union {Selector}]
  BY WithoutPrimary, RestrictedScreen DEF IInv, TypeOK
<1>2. Visible' = {}
  BY <1>1 DEF IInv, PickerIsModal
<1> QED
  BY <1>1, <1>2 DEF Close, PickerIsModal, PillsAreTimed, PillsAgree, PickOnly

\* Every way a pick ends: the commit of a tile, or none.
LEMMA Ending ==
  ASSUME IInv, active, inputs' \in 0 .. MaxInputs, super_held' \in BOOLEAN,
         saw_super' \in BOOLEAN, user_moved' \in BOOLEAN, index' \in Tiles,
         held' \in BOOLEAN, chosen' \in Tiles \union {None},
         seeds' \subseteq [pick : Nat, read : Modes \union {None}],
         Ended, Cancel \/ \E i \in Tiles : Commit(i)
  PROVE  IInv'
<1>1. /\ Close /\ shown' = Restrict(shown, Visible \ {Primary})
      /\ last_index' \in Tiles \ {AbortTile}
      /\ jobs' \subseteq [pick : Nat, mode : Modes, applied : BOOLEAN]
  <2>1. CASE Cancel
    BY <2>1 DEF Cancel, IInv, TypeOK
  <2>2. CASE \E i \in Tiles : Commit(i)
    <3>1. PICK i \in Tiles : Commit(i)
      BY <2>2, Zenon
    <3>2. CASE i = AbortTile
      BY <3>1, <3>2 DEF Commit, Cancel, IInv, TypeOK
    <3>3. CASE i # AbortTile
      <4>1. ModeOf(i) \in Modes
        BY <3>1, <3>3, ModeOfTile
      <4>2. /\ Close /\ shown' = Restrict(shown, Visible \ {Primary}) /\ last_index' = i
            /\ jobs' = jobs \union {[pick |-> picks, mode |-> ModeOf(i), applied |-> FALSE]}
        BY <3>1, <3>3 DEF Commit
      <4>3. [pick |-> picks, mode |-> ModeOf(i), applied |-> FALSE] \in
              [pick : Nat, mode : Modes, applied : BOOLEAN]
        BY <4>1 DEF IInv, TypeOK
      <4> QED
        BY <3>1, <3>3, <4>2, <4>3 DEF IInv, TypeOK
    <3> QED
      BY <3>2, <3>3
  <2> QED
    BY <2>1, <2>2
<1>2. /\ Visible' = {}
      /\ shown' \in [Visible' -> Notices \union Modes \union {Selector}]
      /\ PickerIsModal' /\ PillsAreTimed' /\ PillsAgree' /\ PickOnly'
  BY <1>1, Closing DEF Ended, monitorVars
<1>3. TypeOK'
  BY <1>1, <1>2 DEF IInv, TypeOK, Ended, monitorVars, Close
<1>4. WindowsFollowMonitors'
  BY DEF IInv, WindowsFollowMonitors, Ended, monitorVars
<1> QED
  BY <1>2, <1>3, <1>4 DEF IInv

\* A show is everywhere and timed, or nothing at all in a pick.
LEMMA Showing ==
  ASSUME IInv, NEW content \in Notices \union Modes, Show(content),
         UNCHANGED <<compositorVars, monitorVars, pickVars, last_index, picks, seeds>>,
         inputs' \in 0 .. MaxInputs,
         jobs' \subseteq [pick : Nat, mode : Modes, applied : BOOLEAN]
  PROVE  IInv'
<1>1. CASE active
  BY <1>1 DEF Show, IInv, TypeOK, WindowsFollowMonitors, PickerIsModal, PillsAreTimed,
              PillsAgree, PickOnly, Visible, compositorVars, monitorVars, screenVars,
              pickVars, pickerVars
<1>2. CASE ~active
  <2>1. Visible' = mirrors \union {Primary} /\ hide_armed' = TRUE /\ ~active'
    BY <1>2 DEF Show, Present, Visible, pickVars, pickerVars
  <2>2. shown' \in [Visible' -> Notices \union Modes \union {Selector}]
    BY <1>2, <2>1 DEF Show, Present
  <2>3. PillsAgree'
    BY <1>2, <2>1 DEF Show, Present, PillsAgree
  <2>4. TypeOK'
    BY <2>1, <2>2 DEF IInv, TypeOK, compositorVars, monitorVars, pickVars, pickerVars
  <2>5. PickerIsModal' /\ PillsAreTimed' /\ PickOnly'
    BY <1>2, <2>1 DEF IInv, PickerIsModal, PillsAreTimed, PickOnly, pickVars, pickerVars
  <2>6. WindowsFollowMonitors'
    BY DEF IInv, WindowsFollowMonitors, monitorVars
  <2> QED
    BY <2>3, <2>4, <2>5, <2>6 DEF IInv
<1> QED
  BY <1>1, <1>2

LEMMA Hiding ==
  ASSUME IInv, DoHide, CancelHide, inputs' \in 0 .. MaxInputs,
         UNCHANGED <<compositorVars, monitorVars, pickerVars, held, chosen, last_index,
            processVars>>
  PROVE  IInv'
<1>1. Visible' = {}
  BY DEF DoHide, Nowhere, Visible
<1>2. TypeOK'
  BY <1>1 DEF DoHide, CancelHide, Nowhere, IInv, TypeOK, Visible, compositorVars,
              monitorVars,
     pickVars, pickerVars, processVars
<1> QED
  BY <1>1, <1>2 DEF CancelHide, IInv, WindowsFollowMonitors, PickerIsModal, PillsAreTimed,
                    PillsAgree, PickOnly, monitorVars, pickVars, pickerVars

\* What leaves the screen and the pick alone keeps the invariant if it keeps
\* the types.
LEMMA Elsewhere ==
  ASSUME IInv, UNCHANGED <<monitorVars, screenVars, active, grabbed, dismiss_armed>>,
         TypeOK'
  PROVE  IInv'
BY DEF IInv, WindowsFollowMonitors, PickerIsModal, PillsAreTimed, PillsAgree, PickOnly,
       Visible,
   monitorVars, screenVars

LEMMA CountedInput == ASSUME IInv, Input PROVE inputs' \in 0 .. MaxInputs
BY BoundsAssumption DEF IInv, TypeOK, Input

-----------------------------------------------------------------------------
(***************************************************************************)
(* Every action keeps the invariant.                                       *)
(***************************************************************************)
LEMMA ItemsChangedKeeps == IInv /\ ItemsChanged => IInv'
<1> SUFFICES ASSUME IInv, ItemsChanged PROVE IInv'
  OBVIOUS
<1>1. PICK live \in SUBSET Outputs : Reconcile(live)
  BY DEF IInv, TypeOK, ItemsChanged
<1>2. /\ primary_monitor' \in Outputs \union {None}
      /\ live # {} => primary_monitor' \in live
      /\ mirrors' = live \ {primary_monitor'}
      /\ focused' \in BOOLEAN
  <2>1. CASE live = {}
    BY <1>1, <2>1 DEF Reconcile, IInv, TypeOK
  <2>2. CASE live # {} /\ primary_monitor \in live
    BY <1>1, <2>2 DEF Reconcile, MirrorsFor, IInv, TypeOK
  <2>3. CASE live # {} /\ primary_monitor \notin live
    BY <1>1, <2>3 DEF Reconcile, MirrorsFor, IInv, TypeOK
  <2> QED
    BY <2>1, <2>2, <2>3
<1>3. WindowsFollowMonitors'
  BY <1>1, <1>2 DEF Reconcile, WindowsFollowMonitors
<1> DEFINE S == (mirrors \intersect mirrors') \union {Primary}
           T == Notices \union Modes \union {Selector}
<1>4. shown \in [Visible -> T] /\ shown' = Restrict(shown, Visible \intersect S)
  BY <1>1 DEF IInv, TypeOK, Reconcile
<1> HIDE DEF S, T
<1>5. /\ Visible' = Visible \intersect S
      /\ shown' \in [Visible' -> T]
      /\ \A w \in Visible' : shown'[w] = shown[w]
  BY <1>4, RestrictedScreen
<1>6. Visible' \subseteq Visible /\ Visible' \subseteq mirrors' \union {Primary}
  BY <1>5 DEF S
<1>7. TypeOK'
  <2>1. /\ monitors' \subseteq Outputs /\ mirrors' \subseteq Outputs
    BY <1>1, <1>2 DEF Reconcile
  <2> QED
    BY <1>2, <1>5, <1>6, <2>1 DEF T, IInv, TypeOK, ItemsChanged, compositorVars, pickerVars,
       processVars
<1>8. PickerIsModal' /\ PillsAreTimed' /\ PillsAgree' /\ PickOnly'
  BY <1>5, <1>6 DEF ItemsChanged, IInv, PickerIsModal, PillsAreTimed, PillsAgree, PickOnly,
     pickerVars
<1> QED
  BY <1>3, <1>7, <1>8 DEF IInv

LEMMA HotplugKeeps == IInv /\ Hotplug => IInv'
<1> SUFFICES ASSUME IInv, Hotplug PROVE IInv'
  OBVIOUS
<1>1. on' \subseteq connected' /\ connected' \subseteq Outputs
  BY DEF IInv, TypeOK, Hotplug
<1>2. TypeOK'
  BY <1>1, CountedInput DEF IInv, TypeOK, Hotplug, monitorVars, screenVars, pickVars,
                            pickerVars,
     processVars, Visible
<1> QED
  BY <1>2, Elsewhere DEF Hotplug, monitorVars, screenVars, pickVars, pickerVars

LEMMA BeginPickerKeeps == IInv /\ BeginPicker => IInv'
<1> SUFFICES ASSUME IInv, BeginPicker PROVE IInv'
  OBVIOUS
<1>1. inputs' \in 0 .. MaxInputs
  BY CountedInput DEF BeginPicker
<1>2. CASE active
  <2>1. /\ index' \in Tiles /\ dismiss_armed' = TRUE /\ user_moved' = TRUE
        /\ seeds' \subseteq [pick : Nat, read : Modes \union {None}]
    BY <1>2, NextTile DEF BeginPicker, MoveTo, Advance, IInv, TypeOK
  <2>2. TypeOK'
    <3>1. saw_super' \in BOOLEAN /\ held' \in BOOLEAN /\ chosen' \in Tiles
      BY <1>2, NextTile DEF BeginPicker, MoveTo, Advance, IInv, TypeOK
    <3> QED
      BY <1>1, <1>2, <2>1, <3>1 DEF BeginPicker, CancelHide, IInv, TypeOK, monitorVars,
                                    Visible
  <2>3. UNCHANGED <<Visible, mirrors, monitors, primary_monitor>>
    BY <1>2 DEF BeginPicker, monitorVars, Visible
  <2> QED
    BY <1>2, <2>1, <2>2, <2>3 DEF BeginPicker, CancelHide, IInv, WindowsFollowMonitors,
                                  PickerIsModal, PillsAreTimed, PillsAgree, PickOnly
<1>3. CASE ~active
  <2>1. Visible' = {Primary} /\ shown' = [w \in {Primary} |-> Selector]
    BY <1>3 DEF BeginPicker, Open, Visible
  <2>2. /\ picks' \in Nat
        /\ seeds' \subseteq [pick : Nat, read : Modes \union {None}]
    <3>1. picks' \in Nat
      BY <1>3 DEF BeginPicker, IInv, TypeOK
    <3>2. [pick |-> picks', read |-> None] \in
            [pick : Nat, read : Modes \union {None}]
      BY <3>1
    <3> QED
      BY <1>3, <3>1, <3>2 DEF BeginPicker, IInv, TypeOK
  <2>3. TypeOK'
    BY <1>1, <1>3, <2>1, <2>2 DEF BeginPicker, CancelHide, Open, IInv, TypeOK, monitorVars
  <2> QED
    BY <1>3, <2>1, <2>3 DEF BeginPicker, CancelHide, Open, IInv, WindowsFollowMonitors,
                            PickerIsModal, PillsAreTimed, PillsAgree, PickOnly, monitorVars
<1> QED
  BY <1>2, <1>3

LEMMA OnMoveKeeps == IInv /\ OnMove => IInv'
<1> SUFFICES ASSUME IInv, OnMove PROVE IInv'
  OBVIOUS
<1>1. index' \in Tiles /\ dismiss_armed' = TRUE /\ user_moved' = TRUE
  BY NextTile DEF OnMove, MoveTo, IInv, TypeOK
<1>2. TypeOK'
  BY <1>1, CountedInput
  DEF OnMove, MoveTo, IInv, TypeOK, compositorVars, monitorVars, screenVars, processVars,
      Visible
<1> QED
  BY <1>1, <1>2 DEF OnMove, IInv, WindowsFollowMonitors, PickerIsModal, PillsAreTimed,
                    PillsAgree, PickOnly, Visible, monitorVars, screenVars

LEMMA OnChosenKeeps == IInv /\ OnChosen => IInv'
<1> SUFFICES ASSUME IInv, OnChosen PROVE IInv'
  OBVIOUS
<1>1. PICK i \in Tiles : index' = i /\ user_moved' = TRUE /\ chosen' = i /\ Commit(i)
  BY DEF OnChosen
<1>2. active /\ Ended /\ index' \in Tiles
  BY <1>1 DEF OnChosen
<1>3. seeds' \subseteq [pick : Nat, read : Modes \union {None}]
  BY DEF OnChosen, IInv, TypeOK
<1>4. /\ inputs' \in 0 .. MaxInputs /\ super_held' \in BOOLEAN /\ saw_super' \in BOOLEAN
      /\ held' \in BOOLEAN
  BY DEF OnChosen, IInv, TypeOK
<1>5. \E j \in Tiles : Commit(j)
  BY <1>1
<1> QED
  BY <1>1, <1>2, <1>3, <1>4, <1>5, Ending

\* Keys, timers and the focus that end a pick.
LEMMA EndingKeeps ==
  ASSUME IInv, active, Cancel \/ Commit(index), Ended, super_held' \in BOOLEAN,
         UNCHANGED <<inputs, saw_super, user_moved, index, held, chosen, seeds>>
  PROVE  IInv'
<1>1. /\ inputs' \in 0 .. MaxInputs /\ saw_super' \in BOOLEAN /\ user_moved' \in BOOLEAN
      /\ held' \in BOOLEAN /\ chosen' \in Tiles \union {None}
      /\ index \in Tiles /\ index' \in Tiles
      /\ seeds' \subseteq [pick : Nat, read : Modes \union {None}]
  BY DEF IInv, TypeOK
<1>2. Cancel \/ \E i \in Tiles : Commit(i)
  BY <1>1
<1> QED
  BY <1>1, <1>2, Ending

LEMMA FocusInKeeps == IInv /\ FocusIn => IInv'
<1> SUFFICES ASSUME IInv, FocusIn PROVE IInv'
  OBVIOUS
<1>1. active
  BY DEF FocusIn, IInv, PillsAreTimed
<1>2. CASE super_held \/ ~Released
  <2>1. TypeOK'
    BY <1>2 DEF FocusIn, Ended, IInv, TypeOK, Visible, monitorVars
  <2> QED
    BY <1>2, <2>1, Elsewhere DEF FocusIn, Ended, monitorVars, screenVars
<1>3. CASE ~(super_held \/ ~Released)
  BY <1>1, <1>3, EndingKeeps DEF FocusIn, IInv, TypeOK
<1> QED
  BY <1>2, <1>3

LEMMA ReleaseSuperKeeps == IInv /\ ReleaseSuper => IInv'
<1> SUFFICES ASSUME IInv, ReleaseSuper PROVE IInv'
  OBVIOUS
<1>1. CASE active /\ focused
  BY <1>1, EndingKeeps DEF ReleaseSuper
<1>2. CASE ~(active /\ focused)
  <2>1. TypeOK'
    BY <1>2 DEF ReleaseSuper, Ended, IInv, TypeOK, Visible, monitorVars
  <2> QED
    BY <1>2, <2>1, Elsewhere DEF ReleaseSuper, Ended, monitorVars, screenVars
<1> QED
  BY <1>1, <1>2

LEMMA ApplyModeKeeps == IInv /\ ApplyMode => IInv'
<1> SUFFICES ASSUME IInv, ApplyMode PROVE IInv'
  OBVIOUS
<1>1. PICK j \in jobs :
        LET mode == Resolve(j.mode) IN
          \/ /\ on' = Lit(mode)
             /\ jobs' = (jobs \ {j}) \union {[j EXCEPT !.mode = mode, !.applied = TRUE]}
          \/ jobs' = jobs \ {j} /\ UNCHANGED on
  BY DEF ApplyMode
<1>2. Resolve(j.mode) \in Modes /\ j \in [pick : Nat, mode : Modes, applied : BOOLEAN]
  BY ResolvedMode DEF IInv, TypeOK
<1>3. /\ on' \subseteq connected
      /\ jobs' \subseteq [pick : Nat, mode : Modes, applied : BOOLEAN]
  BY <1>1, <1>2 DEF Lit, IInv, TypeOK
<1>4. TypeOK'
  BY <1>3 DEF ApplyMode, IInv, TypeOK, Visible, monitorVars, screenVars, pickVars,
              pickerVars
<1> QED
  BY <1>4, Elsewhere DEF ApplyMode, monitorVars, screenVars, pickVars, pickerVars

LEMMA ShowAppliedKeeps == IInv /\ ShowApplied => IInv'
<1> SUFFICES ASSUME IInv, ShowApplied PROVE IInv'
  OBVIOUS
<1>1. PICK j \in jobs : Show(j.mode) /\ jobs' = jobs \ {j}
  BY DEF ShowApplied
<1>2. /\ j.mode \in Notices \union Modes
      /\ jobs' \subseteq [pick : Nat, mode : Modes, applied : BOOLEAN]
      /\ inputs' \in 0 .. MaxInputs
  BY <1>1 DEF ShowApplied, IInv, TypeOK
<1>3. UNCHANGED <<compositorVars, monitorVars, pickVars, last_index, picks, seeds>>
  BY DEF ShowApplied
<1> QED
  BY <1>1, <1>2, <1>3, Showing

LEMMA ReadModeKeeps == IInv /\ ReadMode => IInv'
<1> SUFFICES ASSUME IInv, ReadMode PROVE IInv'
  OBVIOUS
<1>1. PICK s \in seeds :
        seeds' = (seeds \ {s}) \union
                   (IF connected = {} THEN {} ELSE {[s EXCEPT !.read = CurrentState]})
  BY DEF ReadMode
<1>2. seeds' \subseteq [pick : Nat, read : Modes \union {None}]
  BY <1>1, StateIsMode DEF IInv, TypeOK
<1>3. TypeOK'
  BY <1>2 DEF ReadMode, IInv, TypeOK, Visible, compositorVars, monitorVars, screenVars,
              pickVars,
     pickerVars
<1> QED
  BY <1>3, Elsewhere DEF ReadMode, monitorVars, screenVars, pickVars, pickerVars

LEMMA SeedKeeps == ASSUME IInv, NEW s \in seeds, Seed(s) PROVE IInv'
<1>1. s.read \in Modes
  BY DEF Seed, IInv, TypeOK
<1>2. index' \in Tiles
  BY <1>1, TileOfMode DEF Seed, IInv, TypeOK
<1>3. TypeOK'
  BY <1>2 DEF Seed, IInv, TypeOK, Visible, compositorVars, monitorVars, screenVars
<1> QED
  BY <1>3, Elsewhere DEF Seed, monitorVars, screenVars

LEMMA NextKeeps == IInv /\ [Next]_vars => IInv'
<1> SUFFICES ASSUME IInv, [Next]_vars PROVE IInv'
  OBVIOUS
<1>1. CASE Notify
  <2>1. PICK notice \in Notices : Show(notice)
    BY <1>1 DEF Notify
  <2>2. inputs' \in 0 .. MaxInputs
    BY <1>1, CountedInput DEF Notify
  <2>3. /\ UNCHANGED <<compositorVars, monitorVars, pickVars, last_index, picks, seeds>>
        /\ jobs' \subseteq [pick : Nat, mode : Modes, applied : BOOLEAN]
    BY <1>1 DEF Notify, processVars, IInv, TypeOK
  <2> QED
    BY <2>1, <2>2, <2>3, Showing
<1>2. CASE HideTimeout
  BY <1>2, Hiding DEF HideTimeout, CancelHide, IInv, TypeOK
<1>3. CASE Hide
  BY <1>3, Hiding, CountedInput DEF Hide
<1>4. CASE OnEscape
  BY <1>4, EndingKeeps DEF OnEscape, IInv, TypeOK
<1>5. CASE OnEnter
  BY <1>5, EndingKeeps DEF OnEnter, IInv, TypeOK
<1>6. CASE DismissTimeout
  BY <1>6, EndingKeeps DEF DismissTimeout, IInv, TypeOK, PickOnly
<1>7. CASE \E s \in seeds : Seed(s)
  BY <1>7, SeedKeeps
<1>8. CASE UNCHANGED vars
  BY <1>8 DEF vars, IInv, TypeOK, WindowsFollowMonitors, PickerIsModal, PillsAreTimed,
              PillsAgree, PickOnly, Visible, compositorVars, monitorVars, screenVars,
              pickVars, pickerVars, processVars
<1> QED
  BY <1>1, <1>2, <1>3, <1>4, <1>5, <1>6, <1>7, <1>8, ItemsChangedKeeps, HotplugKeeps,
     BeginPickerKeeps, OnMoveKeeps, OnChosenKeeps, FocusInKeeps, ReleaseSuperKeeps,
     ApplyModeKeeps,
     ShowAppliedKeeps, ReadModeKeeps
  DEF Next

LEMMA Invariance == Spec => []IInv
BY InitIInv, NextKeeps, PTL DEF Spec

-----------------------------------------------------------------------------
(***************************************************************************)
(* What a pick remembers and asks for.                                     *)
(***************************************************************************)
\* Super held and the last tile are of this pick; what was asked for was asked
\* for by a pick that is over.
PickRemembers ==
  /\ saw_super => held
  /\ focused => active /\ (super_held => held)
  /\ chosen # None => user_moved /\ index = chosen
PicksAsk == \A j \in jobs : j.pick <= picks /\ (active => j.pick # picks)
PickInv == PickRemembers /\ PicksAsk

LEMMA InitPickInv == Init => PickInv
BY DEF Init, PickInv, PickRemembers, PicksAsk

\* Every way a pick ends: the screen and the keyboard are given back, and at
\* most one mode is asked for.
LEMMA EndOfPick ==
  ASSUME IInv, PickInv, active, Ended, Cancel \/ \E i \in Tiles : Commit(i),
         UNCHANGED <<saw_super, held>>, chosen' # None => user_moved' /\ index' = chosen'
  PROVE  PickInv'
<1>1. ~active' /\ ~focused' /\ picks' = picks
  BY DEF Cancel, Commit, Close, Ended
<1>2. \A j \in jobs' : j \in jobs \/ j.pick = picks
  BY DEF Cancel, Commit
<1>3. PicksAsk'
  BY <1>1, <1>2 DEF IInv, TypeOK, PickInv, PicksAsk
<1>4. PickRemembers'
  BY <1>1 DEF PickInv, PickRemembers
<1> QED
  BY <1>3, <1>4 DEF PickInv

LEMMA BeginPickerRemembers == IInv /\ PickInv /\ BeginPicker => PickInv'
<1> SUFFICES ASSUME IInv, PickInv, BeginPicker PROVE PickInv'
  OBVIOUS
<1>1. CASE active
  <2>1. PickRemembers'
    BY <1>1 DEF BeginPicker, MoveTo, PickInv, PickRemembers
  <2>2. PicksAsk'
    BY <1>1 DEF BeginPicker, PickInv, PicksAsk
  <2> QED
    BY <2>1, <2>2 DEF PickInv
<1>2. CASE ~active
  <2>1. PickRemembers'
    BY <1>2 DEF BeginPicker, Open, PickInv, PickRemembers
  <2>2. picks' = picks + 1 /\ jobs' = jobs /\ picks \in Nat
    BY <1>2 DEF BeginPicker, IInv, TypeOK
  <2>3. \A j \in jobs : j.pick \in Nat /\ j.pick <= picks
    BY DEF IInv, TypeOK, PickInv, PicksAsk
  <2>4. PicksAsk'
    BY <2>2, <2>3 DEF PicksAsk
  <2> QED
    BY <2>1, <2>4 DEF PickInv
<1> QED
  BY <1>1, <1>2

LEMMA FocusInRemembers == IInv /\ PickInv /\ FocusIn => PickInv'
<1> SUFFICES ASSUME IInv, PickInv, FocusIn PROVE PickInv'
  OBVIOUS
<1>1. active
  BY DEF FocusIn, IInv, PillsAreTimed
<1>2. CASE super_held \/ ~Released
  BY <1>1, <1>2 DEF FocusIn, Ended, PickInv, PickRemembers, PicksAsk
<1>3. CASE ~(super_held \/ ~Released)
  <2>1. Commit(index) /\ index \in Tiles
    BY <1>3 DEF FocusIn, IInv, TypeOK
  <2>2. UNCHANGED <<saw_super, held>> /\ (chosen' # None => user_moved' /\ index' = chosen') /\ Ended
    BY <1>3 DEF FocusIn, PickInv, PickRemembers
  <2> QED
    BY <1>1, <2>1, <2>2, EndOfPick
<1> QED
  BY <1>2, <1>3

LEMMA ApplyModeRemembers == IInv /\ PickInv /\ ApplyMode => PickInv'
<1> SUFFICES ASSUME IInv, PickInv, ApplyMode PROVE PickInv'
  OBVIOUS
<1>1. PICK j \in jobs :
        LET mode == Resolve(j.mode) IN
          \/ jobs' = (jobs \ {j}) \union {[j EXCEPT !.mode = mode, !.applied = TRUE]}
          \/ jobs' = jobs \ {j}
  BY DEF ApplyMode
<1>2. j \in [pick : Nat, mode : Modes, applied : BOOLEAN]
  BY DEF IInv, TypeOK
<1>3. \A k \in jobs' : \E l \in jobs : k.pick = l.pick
  BY <1>1, <1>2
<1> QED
  BY <1>3 DEF ApplyMode, PickInv, PickRemembers, PicksAsk, pickVars, pickerVars

LEMMA NextRemembers == IInv /\ PickInv /\ [Next]_vars => PickInv'
<1> SUFFICES ASSUME IInv, PickInv, [Next]_vars PROVE PickInv'
  OBVIOUS
<1>1. CASE Notify \/ HideTimeout \/ Hide \/ Hotplug \/ ReadMode
  BY <1>1 DEF Notify, HideTimeout, Hide, DoHide, Hotplug, ReadMode, PickInv, PickRemembers,
              PicksAsk,
     compositorVars, pickVars, pickerVars, processVars
<1>2. CASE ItemsChanged
  <2>1. focused' = focused \/ focused' = FALSE
    BY <1>2 DEF ItemsChanged, Reconcile, IInv, TypeOK
  <2> QED
    BY <1>2, <2>1 DEF ItemsChanged, PickInv, PickRemembers, PicksAsk, compositorVars,
                      pickerVars,
       processVars
<1>3. CASE OnEscape
  BY <1>3, EndOfPick DEF OnEscape, PickInv, PickRemembers
<1>4. CASE OnMove
  BY <1>4 DEF OnMove, MoveTo, PickInv, PickRemembers, PicksAsk, compositorVars, processVars
<1>5. CASE OnEnter
  BY <1>5, EndOfPick DEF OnEnter, PickInv, PickRemembers, IInv, TypeOK
<1>6. CASE OnChosen
  <2>1. PICK i \in Tiles : index' = i /\ user_moved' = TRUE /\ chosen' = i /\ Commit(i)
    BY <1>6 DEF OnChosen
  <2> QED
    BY <1>6, <2>1, EndOfPick DEF OnChosen
<1>7. CASE ReleaseSuper
  <2>1. CASE active /\ focused
    BY <1>7, <2>1, EndOfPick DEF ReleaseSuper, PickInv, PickRemembers, IInv, TypeOK
  <2>2. CASE ~(active /\ focused)
    BY <1>7, <2>2 DEF ReleaseSuper, Ended, PickInv, PickRemembers, PicksAsk
  <2> QED
    BY <2>1, <2>2
<1>8. CASE DismissTimeout
  BY <1>8, EndOfPick DEF DismissTimeout, PickInv, PickRemembers, IInv, PickOnly
<1>9. CASE ShowApplied
  BY <1>9 DEF ShowApplied, PickInv, PickRemembers, PicksAsk, compositorVars, pickVars,
              pickerVars
<1>10. CASE \E s \in seeds : Seed(s)
  BY <1>10 DEF Seed, PickInv, PickRemembers, PicksAsk, compositorVars
<1>11. CASE UNCHANGED vars
  BY <1>11 DEF vars, PickInv, PickRemembers, PicksAsk, compositorVars, pickVars,
               pickerVars, processVars
<1> QED
  BY <1>1, <1>2, <1>3, <1>4, <1>5, <1>6, <1>7, <1>8, <1>9, <1>10, <1>11,
     BeginPickerRemembers,
     FocusInRemembers, ApplyModeRemembers DEF Next

LEMMA PickInvariance == Spec => []PickInv
BY Invariance, InitPickInv, NextRemembers, PTL DEF Spec

\* A commit asks for the mode of the tile, and nothing else is asked for.
LEMMA CommitAsks ==
  ASSUME IInv, PickInv, active, NEW i \in Tiles, Commit(i), Confirmed,
         chosen' # None => i = chosen'
  PROVE  AskedByTheUser
BY DEF Commit, Cancel, AskedByTheUser, PickInv, PicksAsk

LEMMA NextAsks == IInv /\ PickInv /\ [Next]_vars => [AskedByTheUser]_vars
<1> SUFFICES ASSUME IInv, PickInv, Next PROVE AskedByTheUser
  OBVIOUS
<1>1. CASE OnEnter
  BY <1>1, CommitAsks DEF OnEnter, Confirmed, IInv, TypeOK, PickInv, PickRemembers
<1>2. CASE OnChosen
  <2>1. PICK i \in Tiles : chosen' = i /\ Commit(i)
    BY <1>2 DEF OnChosen
  <2>2. active /\ Confirmed
    BY <1>2 DEF OnChosen, Confirmed
  <2> QED
    BY <2>1, <2>2, CommitAsks
<1>3. CASE FocusIn
  <2>1. CASE super_held \/ ~Released
    BY <1>3, <2>1 DEF FocusIn, AskedByTheUser
  <2>2. CASE ~(super_held \/ ~Released)
    <3>1. active /\ Commit(index) /\ index \in Tiles /\ held /\ ~super_held'
      BY <1>3, <2>2 DEF FocusIn, Released, IInv, TypeOK, PillsAreTimed, PickInv,
                        PickRemembers
    <3>2. chosen' # None => index = chosen'
      BY <1>3 DEF FocusIn, PickInv, PickRemembers
    <3> QED
      BY <3>1, <3>2, CommitAsks DEF Confirmed
  <2> QED
    BY <2>1, <2>2
<1>4. CASE ReleaseSuper
  <2>1. CASE active /\ focused
    <3>1. Commit(index) /\ index \in Tiles /\ held /\ ~super_held'
      BY <1>4, <2>1 DEF ReleaseSuper, IInv, TypeOK, PickInv, PickRemembers
    <3>2. chosen' # None => index = chosen'
      BY <1>4 DEF ReleaseSuper, PickInv, PickRemembers
    <3> QED
      BY <2>1, <3>1, <3>2, CommitAsks DEF Confirmed
  <2>2. CASE ~(active /\ focused)
    BY <1>4, <2>2 DEF ReleaseSuper, AskedByTheUser
  <2> QED
    BY <2>1, <2>2
<1>5. CASE ApplyMode
  <2>1. PICK j \in jobs :
          LET mode == Resolve(j.mode) IN
            \/ jobs' = (jobs \ {j}) \union {[j EXCEPT !.mode = mode, !.applied = TRUE]}
            \/ jobs' = jobs \ {j}
    BY <1>5 DEF ApplyMode
  <2>2. j \in [pick : Nat, mode : Modes, applied : BOOLEAN]
    BY DEF IInv, TypeOK
  <2> QED
    BY <2>1, <2>2 DEF AskedByTheUser
<1>6. CASE \E s \in seeds : Seed(s)
  BY <1>6 DEF Seed, AskedByTheUser
<1>7. CASE ~(OnEnter \/ OnChosen \/ FocusIn \/ ReleaseSuper \/ ApplyMode \/ \E s \in seeds : Seed(s))
  BY <1>7 DEF Next, Notify, HideTimeout, Hide, ItemsChanged, Hotplug, BeginPicker,
              OnEscape, Cancel, OnMove, DismissTimeout, ShowApplied, ReadMode, processVars,
              AskedByTheUser
<1> QED
  BY <1>1, <1>2, <1>3, <1>4, <1>5, <1>6, <1>7

-----------------------------------------------------------------------------
(***************************************************************************)
(* The theorems.                                                           *)
(***************************************************************************)
\* Every variable of lumen-osd keeps its type; the highlight stays on a tile
\* and what is remembered is never the abort tile (Picker.move_to, commit).
THEOREM TypeCorrect == Spec => []TypeOK
BY Invariance, PTL DEF IInv

\* Through any hotplugs one window is on each monitor (reconcile), and the
\* pills of all monitors say the same (Presenter.present).
THEOREM OneWindowPerMonitor == Spec => []WindowsAgree
BY Invariance, PTL DEF IInv, WindowsAgree

\* A pick has the keyboard, its timer and the screen to itself, whatever is
\* shown, hidden or plugged meanwhile (PickerService, Presenter); outside a
\* pick nothing is on screen without a timer or keeps the keyboard.
THEOREM EverythingHasAnOwner == Spec => []ScreenIsOwned
BY Invariance, PTL DEF IInv, ScreenIsOwned

\* What a pick applies the user has chosen and confirmed in that pick, once,
\* whatever answers late and whichever windows the focus has been lost with
\* (Picker.commit, seed_current_mode, on_modifiers).
THEOREM PicksApplyChoices == Spec => PicksApplyTheChoice
BY Invariance, PickInvariance, NextAsks, PTL DEF Spec, PicksApplyTheChoice
=============================================================================
