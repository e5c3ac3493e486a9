--------------------------- MODULE SessionRestore ---------------------------
(***************************************************************************)
(* lumen-session: re-applies the layout remembered for the set of monitors *)
(* that is connected.  The daemon is one main loop; a restore blocks in a  *)
(* roundtrip and in the wait for the compositor's answer, and both         *)
(* dispatch events.                                                        *)
(***************************************************************************)
EXTENDS OutputManagement

CONSTANTS
  Profiles,      \* display-profiles.json
  NoSet          \* nothing was restored yet

\* A profile holds states of heads; save_or_update keeps one for each set.
ASSUME ProfilesAssumption ==
  /\ \A p \in Profiles : \A id \in DOMAIN p.states : p.states[id] \in States
  /\ \A p, q \in Profiles : p.outputs = q.outputs => p = q

VARIABLES
  restore_queued,   \* the idle callback is pending
  phase,            \* "loop", "refresh" (roundtrip) or "apply" (waiting)
  tried,            \* history: monitors the last restore was computed for
  restores,         \* history: restores run
  hotplugs          \* history: changes of the connected set

daemonVars  == <<restore_queued, phase>>
historyVars == <<tried, restores, hotplugs>>
vars        == <<compositorVars, wire, request, mirrorVars, daemonVars, historyVars>>

(***************************************************************************)
(* Profiles are keyed by the set of identities.  Monitors that cannot be   *)
(* told apart carry their connector too.                                   *)
(***************************************************************************)
IdentityOf(heads, c) ==
  IF \E d \in Connectors \ {c} : heads[d] = heads[c] THEN <<heads[c], c>> ELSE <<heads[c]>>

SetKey(heads)      == {IdentityOf(heads, c) : c \in Connected(heads)}
Matching(heads)    == {p \in Profiles : p.outputs = SetKey(heads)}

\* The setting a profile has for a head; a head it has no state for is left.
ProfileSetting(p, id) == IF id \in DOMAIN p.states THEN p.states[id] ELSE "leave"

\* The configuration is keyed by identity: of two heads with one identity the
\* last one is configured, and only once.
ConfigFor(p, heads) ==
  [c \in Connectors |->
     IF /\ c \in Connected(heads)
        /\ c = CHOOSE d \in Connected(heads) : IdentityOf(heads, d) = IdentityOf(heads, c)
     THEN ProfileSetting(p, IdentityOf(heads, c))
     ELSE "leave"]

Enables(config) == \E c \in Connectors : config[c] \in Modes

-----------------------------------------------------------------------------
\* Registration sets the baseline, so the first restore is explicit.
\* Mutant: it is left to the callback.
FirstRestoreByCallback == restore_queued = FALSE
FirstRestore == restore_queued = TRUE

Init ==
  /\ OutputInit
  /\ FirstRestore
  /\ phase = "loop"
  /\ tried = NoSet
  /\ restores = 0
  /\ hotplugs = 0

\* Mutant: a change seen while a restore runs is dropped.
ScheduleRestoreWhenIdle == restore_queued' = (restore_queued \/ phase = "loop")
ScheduleRestore == restore_queued' = TRUE

\* One event is dispatched, from the fd watch or inside a roundtrip.
Dispatch ==
  /\ Deliver
  /\ IF SetChanged(Head(wire)) THEN ScheduleRestore ELSE UNCHANGED restore_queued
  /\ UNCHANGED <<compositorVars, request, phase, historyVars>>

\* The idle callback: clear the flag, then refresh.
BeginRestore ==
  /\ phase = "loop"
  /\ restore_queued
  /\ restore_queued' = FALSE
  /\ phase' = "refresh"
  /\ UNCHANGED <<compositorVars, wire, request, mirrorVars, historyVars>>

MayApply(config) == Enables(config)

Restored ==
  /\ phase' = "loop"
  /\ UNCHANGED request

ComputeRestore ==
  /\ phase = "refresh"
  /\ Consume("sync")
  /\ tried' = Mirrored
  /\ restores' = restores + 1
  /\ \/ /\ Connected(Mirrored) = {} \/ Matching(Mirrored) = {}
        /\ Restored
     \/ \E p \in Matching(Mirrored) :
          LET config == ConfigFor(p, Mirrored)
          IN  /\ Connected(Mirrored) # {}
              /\ \/ ~MayApply(config) /\ Restored
                 \/ /\ MayApply(config)
                    /\ request' = [serial |-> s_serial, heads |-> config]
                    /\ phase' = "apply"
  /\ UNCHANGED <<compositorVars, restore_queued, hotplugs>>

\* A failure or a cancellation is only warned about.
EndApply ==
  /\ phase = "apply"
  /\ Consume("result")
  /\ Restored
  /\ UNCHANGED <<compositorVars, restore_queued, tried, restores, hotplugs>>

Daemon == Dispatch \/ BeginRestore \/ ComputeRestore \/ EndApply

-----------------------------------------------------------------------------
AnswerSync ==
  /\ phase = "refresh"
  /\ SendSync
  /\ UNCHANGED <<daemonVars, historyVars>>

PlugOrPull ==
  /\ Hotplug
  /\ hotplugs' = hotplugs + 1
  /\ UNCHANGED <<daemonVars, tried, restores>>

Environment ==
  \/ PlugOrPull
  \/ ChangeElsewhere /\ UNCHANGED <<daemonVars, historyVars>>

AnswerRequest == Answer /\ UNCHANGED <<daemonVars, historyVars>>

Compositor == AnswerSync \/ AnswerRequest

Next == Daemon \/ Compositor \/ Environment
Spec == Init /\ [][Next]_vars

\* The main loop dispatches what is ready and runs its idle callback, and the
\* compositor answers.  Nothing is assumed of the monitors and of other clients.
FairSpec ==
  /\ Spec
  /\ WF_vars(Dispatch) /\ WF_vars(BeginRestore) /\ WF_vars(ComputeRestore)
  /\ WF_vars(EndApply)
  /\ WF_vars(AnswerSync) /\ WF_vars(AnswerRequest)

-----------------------------------------------------------------------------
(***************************************************************************)
(* Properties.                                                             *)
(***************************************************************************)
\* Every variable has its type.
TypeOK ==
  /\ OutputTypeOK
  /\ restore_queued \in BOOLEAN
  /\ phase \in {"loop", "refresh", "apply"}
  /\ tried \in [Connectors -> Monitors \union {NoMonitor}] \union {NoSet}
  /\ restores \in Nat /\ hotplugs \in Nat

\* Nothing is in flight and nothing is left to do.
Quiet ==
  /\ phase = "loop" /\ ~restore_queued
  /\ wire = <<>> /\ request = NoConfig

\* No hotplug is lost, however many arrive while a restore blocks: once all
\* is quiet, the last restore was computed for the monitors connected now.
NoHotplugLost == Quiet => tried = plugged

\* The daemon changes the layout only to the one remembered for exactly the
\* monitors that are connected when the compositor applies it, though the
\* restore was computed on a mirror that may have been older.
Applied == request # NoConfig /\ request' = NoConfig /\ layout' # layout
OnlyRememberedLayouts ==
  [][Applied =>
       \E p \in Profiles :
         /\ p.outputs = SetKey(plugged)
         /\ \A c \in Connected(plugged) :
              ProfileSetting(p, IdentityOf(plugged, c)) \in {"leave", layout'[c]}]_vars

\* main.vala:149 "Never blank every screen": a layout the daemon applies
\* leaves at least one connected monitor lit.
NeverBlanks == [][Applied => \E c \in Connected(plugged) : layout'[c] # "off"]_vars

\* Each of several monitors that cannot be told apart gets the state that was
\* remembered for its own connector: a complete profile leaves no head alone.
EveryHeadConfigured ==
  request # NoConfig =>
    \A p \in Profiles :
      DOMAIN p.states = p.outputs /\ p.outputs = SetKey(tried)
        => \A c \in Connected(tried) : request.heads[c] # "leave"

\* output_management.h:21 "the apply->done->apply loop guard": the daemon runs
\* at most one restore per change of the connected set, besides the first.
NoApplyLoop == restores <= 1 + hotplugs

\* Every hotplug gets a restore and none gets one too many.
RestoresMatchHotplugs == TypeOK /\ NoHotplugLost /\ NoApplyLoop

\* What is applied is what was remembered, for every head, and leaves
\* something to look at.
LayoutsAreSafe == OnlyRememberedLayouts /\ NeverBlanks /\ []EveryHeadConfigured

\* When the monitors stop changing the daemon comes to rest, with the layout
\* of the monitors connected then tried.
ComesToRest == <>[](Quiet /\ tried = plugged)
=============================================================================

