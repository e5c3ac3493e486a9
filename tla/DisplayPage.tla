----------------------------- MODULE DisplayPage -----------------------------
(***************************************************************************)
(* lumen-settings, the Display page: the user edits a working copy of the  *)
(* layout, applies it on trial, and keeps or reverts it before a countdown *)
(* does.  A one-second pump tells the page of hotplugs; a refresh always   *)
(* sees the monitors of the moment (OutputManagement!MirrorExact), so the  *)
(* mirror is left out here.                                                *)
(***************************************************************************)
EXTENDS Naturals, SequencesExt, FiniteSets

CONSTANTS
  Outputs,      \* connectors
  Modes,
  NoMode,       \* current_mode is null
  Nothing,      \* no profile was saved
  MaxElsewhere  \* bound: hotplugs and changes by other clients

ASSUME OutputsAssumption   == IsFiniteSet(Outputs)
ASSUME NullAssumption      == NoMode \notin Modes \union {"off"} /\ "off" \notin Modes
ASSUME ElsewhereAssumption == MaxElsewhere \in Nat

VARIABLES
  \* the compositor
  plugged,          \* the connected outputs
  layout,           \* "off" or the mode of each
  last_mode,        \* the current_mode the client was last told, if any
  elsewhere,        \* how many hotplugs and changes by other clients there were
  \* the page
  known,            \* the connected set of the last "done" dispatched
  reload_pending,
  baseline, working,
  sel,
  countdown,        \* countdown_id # 0
  confirm,          \* the Keep/Revert banner is revealed
  apply_sensitive,
  dragging,         \* index of the dragged output, 0 for none
  saved             \* on disk: the profile and the settings of the last Keep

compositorVars == <<plugged, layout, last_mode, elsewhere>>
editVars       == <<baseline, working, sel>>
trialVars      == <<countdown, confirm, apply_sensitive>>
pageVars       == <<compositorVars, known, reload_pending, editVars, trialVars, dragging, saved>>

States     == Modes \union {"off"}
OutputInfo == [name: Outputs, enabled: BOOLEAN, current_mode: Modes \union {NoMode}]

Names(list)   == {list[i].name : i \in DOMAIN list}
Enabled(list) == {i \in DOMAIN list : list[i].enabled}

\* apply_all turns off what is enabled without a mode, too.
Setting(o) == IF o.enabled /\ o.current_mode # NoMode THEN o.current_mode ELSE "off"

Profile(list) ==
  [o \in Names(list) |-> Setting(list[CHOOSE i \in DOMAIN list : list[i].name = o])]

Enumerate ==
  SetToSeq({[name |-> o, enabled |-> layout[o] # "off", current_mode |-> last_mode[o]] :
              o \in plugged})

FirstOf(list) == IF list = <<>> THEN 0 ELSE 1

\* The user looks at the page on a display that is on.
PageInit ==
  /\ plugged \in SUBSET Outputs
  /\ layout \in [Outputs -> States]
  /\ \A o \in Outputs \ plugged : layout[o] = "off"
  /\ \E o \in plugged : layout[o] # "off"
  /\ last_mode = [o \in Outputs |-> IF layout[o] = "off" THEN NoMode ELSE layout[o]]
  /\ elsewhere = 0
  /\ known = plugged
  /\ reload_pending = FALSE
  /\ baseline = Enumerate /\ working = baseline
  /\ sel = FirstOf(working)
  /\ countdown = FALSE /\ confirm = FALSE /\ apply_sensitive = FALSE
  /\ dragging = 0
  /\ saved = Nothing

-----------------------------------------------------------------------------
(***************************************************************************)
(* Hotplug.                                                                *)
(***************************************************************************)
\* Mutant: a change during a trial is not looked at.
OnOutputsChangedInTrial == reload_pending' = (reload_pending \/ ~countdown)
OnOutputsChanged == reload_pending' = TRUE

\* A roundtrip: the callback fires if the connected set is another one.
Refresh ==
  /\ known' = plugged
  /\ IF known # plugged THEN OnOutputsChanged ELSE UNCHANGED reload_pending

Pump ==
  /\ known # plugged
  /\ Refresh
  /\ UNCHANGED <<compositorVars, editVars, trialVars, dragging, saved>>

EndTrial == confirm' = FALSE /\ countdown' = FALSE

\* Mutant: the countdown of the trial runs on.
ReloadKeepsCountdown == confirm' = FALSE /\ UNCHANGED countdown
EndTrialForReload == EndTrial

\* The idle callback: whatever was edited or on trial, the live layout is
\* the baseline.
ReloadOutputs ==
  /\ reload_pending
  /\ known' = plugged
  /\ reload_pending' = (known # plugged)
  /\ EndTrialForReload
  /\ baseline' = Enumerate
  /\ working' = baseline'
  /\ sel' = FirstOf(working')
  /\ apply_sensitive' = FALSE
  /\ UNCHANGED <<compositorVars, dragging, saved>>

Told(o, state) == [last_mode EXCEPT ![o] = IF state = "off" THEN @ ELSE state]

Plug ==
  \E o \in Outputs \ plugged, state \in States :
    /\ plugged' = plugged \union {o}
    /\ layout' = [layout EXCEPT ![o] = state]
    /\ last_mode' = [last_mode EXCEPT ![o] = IF state = "off" THEN NoMode ELSE state]

Unplug ==
  \E o \in plugged :
    /\ plugged' = plugged \ {o}
    /\ layout' = [layout EXCEPT ![o] = "off"]
    /\ UNCHANGED last_mode

ChangeElsewhere ==
  \E o \in plugged, state \in States :
    /\ state # layout[o]
    /\ layout' = [layout EXCEPT ![o] = state]
    /\ last_mode' = Told(o, state)
    /\ UNCHANGED plugged

Environment ==
  /\ elsewhere < MaxElsewhere
  /\ elsewhere' = elsewhere + 1
  /\ Plug \/ Unplug \/ ChangeElsewhere
  /\ UNCHANGED <<known, reload_pending, editVars, trialVars, dragging, saved>>

-----------------------------------------------------------------------------
(***************************************************************************)
(* Editing.  The controls are those of the selected output; the arranger   *)
(* draws, and lets the user select, outputs that are on and have a mode.   *)
(***************************************************************************)
Hit(i) == working[i].enabled /\ working[i].current_mode # NoMode

Edit(list) ==
  /\ working' = list
  /\ apply_sensitive' = TRUE
  /\ UNCHANGED <<compositorVars, known, reload_pending, baseline, sel, countdown, confirm,
                 dragging, saved>>

\* Mutant: the last display may go as well.
MayDisableAny == Cardinality(Enabled(working)) >= 1
MayDisable    == Cardinality(Enabled(working)) > 1

ToggleEnabled ==
  /\ sel # 0
  /\ working[sel].enabled => MayDisable
  /\ Edit([working EXCEPT ![sel].enabled = ~@])

\* The switch is set back, which runs its handler again: nothing is edited, but
\* the page is marked as if it were.
ToggleRefused ==
  /\ sel # 0
  /\ working[sel].enabled /\ ~MayDisable
  /\ Edit(working)

ChangeMode ==
  /\ sel # 0
  /\ Hit(sel)
  /\ \E mode \in Modes \ {working[sel].current_mode} :
       Edit([working EXCEPT ![sel].current_mode = mode])

DragBegin ==
  /\ dragging = 0
  /\ \E i \in DOMAIN working :
       /\ Hit(i)
       /\ dragging' = i
       /\ sel' = i
  /\ UNCHANGED <<compositorVars, known, reload_pending, baseline, working, trialVars, saved>>

\* The list the index is into is the one of now; out of it the process aborts.
DragUpdate ==
  /\ dragging \in DOMAIN working
  /\ Edit(working)

DragEnd ==
  /\ dragging # 0
  /\ dragging' = 0
  /\ apply_sensitive' = TRUE
  /\ UNCHANGED <<compositorVars, known, reload_pending, editVars, countdown, confirm, saved>>

-----------------------------------------------------------------------------
(***************************************************************************)
(* The trial.                                                              *)
(***************************************************************************)
\* One configuration; outputs that are gone by now are not in it.
Configured(list) ==
  [o \in Outputs |->
     IF o \in plugged /\ o \in Names(list) THEN Profile(list)[o] ELSE layout[o]]

Accepted(list) ==
  /\ layout' = Configured(list)
  /\ last_mode' = [o \in Outputs |-> IF layout'[o] = "off" THEN last_mode[o] ELSE layout'[o]]
  /\ UNCHANGED <<plugged, elsewhere>>

\* Rejected, or cancelled by a change that came in between.
Refused == UNCHANGED compositorVars

OnApply ==
  /\ apply_sensitive
  /\ Refresh
  /\ confirm' = TRUE
  /\ \/ /\ Accepted(working)
        /\ countdown' = TRUE
        /\ apply_sensitive' = FALSE
     \/ /\ Refused
        /\ UNCHANGED <<countdown, apply_sensitive>>
  /\ UNCHANGED <<editVars, dragging, saved>>

OnKeep ==
  /\ confirm
  /\ saved' = Profile(working)
  /\ baseline' = working
  /\ EndTrial
  /\ apply_sensitive' = FALSE
  /\ UNCHANGED <<compositorVars, known, reload_pending, working, sel, dragging>>

RevertSelection == sel' = IF sel > Len(baseline) THEN FirstOf(baseline) ELSE sel

RevertWorking ==
  /\ working' = baseline
  /\ RevertSelection

\* By the button, or when the countdown is over.
OnRevert ==
  /\ confirm \/ countdown
  /\ Refresh
  /\ Accepted(baseline) \/ Refused
  /\ RevertWorking
  /\ EndTrial
  /\ apply_sensitive' = FALSE
  /\ UNCHANGED <<baseline, dragging, saved>>

Page ==
  \/ Pump \/ ReloadOutputs
  \/ ToggleEnabled \/ ToggleRefused \/ ChangeMode
  \/ DragBegin \/ DragUpdate \/ DragEnd
  \/ OnApply \/ OnKeep \/ OnRevert

PageNext == Page \/ Environment
PageSpec == PageInit /\ [][PageNext]_pageVars

\* An apply that is accepted puts a new countdown of 15 s in the place of the old.
Restarts == OnApply /\ ~apply_sensitive'

\* The main loop runs the pump, the idle callback, and a countdown that is not
\* restarted for ever.
PageFairness ==
  /\ WF_pageVars(Pump) /\ WF_pageVars(ReloadOutputs)
  /\ []<><<Restarts>>_pageVars \/ WF_pageVars(countdown /\ OnRevert)

PageFairSpec == PageSpec /\ PageFairness

-----------------------------------------------------------------------------
(***************************************************************************)
(* Properties.                                                             *)
(***************************************************************************)
\* Every variable has its type.
PageTypeOK ==
  /\ plugged \subseteq Outputs
  /\ layout \in [Outputs -> States]
  /\ last_mode \in [Outputs -> Modes \union {NoMode}]
  /\ elsewhere \in 0 .. MaxElsewhere
  /\ known \subseteq Outputs
  /\ baseline \in Seq(OutputInfo) /\ working \in Seq(OutputInfo)
  /\ sel \in 0 .. Len(working)
  /\ {reload_pending, countdown, confirm, apply_sensitive} \subseteq BOOLEAN
  /\ dragging \in Nat
  /\ \/ saved = Nothing
     \/ DOMAIN saved \subseteq Outputs /\ \A o \in DOMAIN saved : saved[o] \in States

\* The page lists the outputs it knows of, before and after every trial,
\* unless a reload is on its way.
ListsWhatIsKnown ==
  ~reload_pending => Names(working) = known /\ Names(baseline) = known

\* While a countdown runs the user is asked: it never reverts behind a
\* hidden banner, nor is left over by a hotplug, a keep or a revert.
CountdownIsAsked == countdown => confirm

\* What the page shows when nothing is edited or on trial is what it would
\* go back to.
CleanMeansBaseline ==
  ~apply_sensitive /\ ~confirm => working = baseline

\* The two lists, the banner and the countdown belong together.
PageAgrees == PageTypeOK /\ ListsWhatIsKnown /\ CountdownIsAsked /\ CleanMeansBaseline

\* What the switches keep: only a page that found every display off offers, or
\* goes back to, a list with nothing enabled.  apply_all counts otherwise: it turns
\* off what is enabled without a mode.  So when a step of the page turns off the
\* last display that is on, its list has displays enabled, of which those that are
\* connected have no mode; all others have a display that is on after it.
Lit == {o \in plugged : layout[o] # "off"}

LightsNone(list) ==
  /\ Enabled(list) # {}
  /\ \A i \in Enabled(list) : list[i].current_mode = NoMode \/ list[i].name \notin plugged

BlankExplained ==
  Lit # {} /\ Lit' = {} /\ UNCHANGED elsewhere /\ Enabled(baseline) # {} =>
    \/ OnApply  /\ LightsNone(working)
    \/ OnRevert /\ LightsNone(baseline)

BlanksOnlyWithoutModes == [][BlankExplained]_pageVars

\* A hotplug is shown, and a trial is over, sooner or later: kept, reverted or
\* replaced by the live layout, unless the user edits and applies for ever.
TrialsEnd     == []<><<Restarts>>_pageVars \/ (countdown ~> ~countdown)
HotplugsShown == (Names(working) # plugged) ~> (Names(working) = plugged)
PageSettles   == TrialsEnd /\ HotplugsShown
=============================================================================
