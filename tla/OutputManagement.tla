-------------------------- MODULE OutputManagement --------------------------
(***************************************************************************)
(* wlhooks/protocols/output_management.c: the client side of the protocol  *)
(* wlr-output-management-v1, with the compositor it talks to.  The client  *)
(* keeps a mirror of the heads that is only as fresh as the events it has  *)
(* dispatched from its private queue, and builds configurations on it.     *)
(***************************************************************************)
EXTENDS Naturals, SequencesExt, FiniteSets

CONSTANTS
  Connectors,     \* "DP-1", "HDMI-A-1", ...
  Monitors,       \* what identity_for tells apart: EDID or description
  Modes,          \* modes of a head
  NoMonitor,      \* nothing is plugged in
  NoMode,         \* current_mode is null
  NoConfig,       \* no configuration is built
  MaxHeads,       \* OM_MAX_HEADS
  MaxSerial       \* bound: serial after which the monitors stay as they are

ASSUME HeadsAssumption == MaxHeads \in Nat \ {0} /\ MaxSerial \in Nat
ASSUME NullAssumption  == NoMonitor \notin Monitors /\ NoMode \notin Modes \union {"off"}
ASSUME ModesAssumption == {"off", "leave"} \intersect Modes = {}

\* Heads beyond OM_MAX_HEADS are dropped, and never seen: the machine has no
\* more connectors than that.
ASSUME CapacityAssumption == IsFiniteSet(Connectors) /\ Cardinality(Connectors) <= MaxHeads

VARIABLES
  \* the compositor
  plugged,        \* the monitor on each connector
  layout,         \* the state of each head: "off" or its mode
  serial,         \* serial of the last "done" it sent
  wire,           \* events the client has not dispatched
  request,        \* a configuration sent and not answered
  \* the client
  s_heads,        \* the slots of the mirror, s_head_count of them
  s_serial,       \* serial of the last "done" dispatched
  s_set_sig       \* the set of connectors it announced

compositorVars == <<plugged, layout, serial>>
mirrorVars     == <<s_heads, s_serial, s_set_sig>>

States  == Modes \union {"off"}
Results == {"succeeded", "failed", "cancelled"}

Event == [kind: {"head"}, name: Connectors, id: Monitors, state: States]
         \union [kind: {"state"}, name: Connectors, state: States]
         \union [kind: {"finished"}, name: Connectors]
         \union [kind: {"done"}, serial: Nat]
         \union [kind: {"sync"}]
         \union [kind: {"result"}, result: Results]

\* What a configuration asks of a head; heads it does not name are left alone.
Settings == States \union {"leave"}
Config   == [serial: Nat, heads: [Connectors -> Settings]]

Slot == [name: Connectors, id: Monitors, enabled: BOOLEAN,
         mode: Modes \union {NoMode}, finished: BOOLEAN]

-----------------------------------------------------------------------------
(***************************************************************************)
(* The mirror.                                                             *)
(***************************************************************************)
LiveSlots == {i \in DOMAIN s_heads : ~s_heads[i].finished}
LiveNames == {s_heads[i].name : i \in LiveSlots}

\* The monitors the client believes are connected.  Two live slots never
\* carry one name (MirrorExact).
Mirrored == [c \in Connectors |->
               IF c \in LiveNames
               THEN s_heads[CHOOSE i \in LiveSlots : s_heads[i].name = c].id
               ELSE NoMonitor]

\* A head that is off sends no current_mode: the mirror keeps the last one.
Shown(state, mode) ==
  [enabled |-> state # "off", mode |-> IF state = "off" THEN mode ELSE state]

NewHead(ev) ==
  [name |-> ev.name, id |-> ev.id, finished |-> FALSE,
   enabled |-> Shown(ev.state, NoMode).enabled, mode |-> Shown(ev.state, NoMode).mode]

\* Mutant: the slot of an unplugged head is never used again.
MgrHeadNeverReuses(ev) ==
  /\ s_heads' = IF Len(s_heads) < MaxHeads THEN Append(s_heads, NewHead(ev)) ELSE s_heads
  /\ UNCHANGED <<s_serial, s_set_sig>>

\* A head takes the first finished slot, else a fresh one, else it is dropped.
MgrHead(ev) ==
  /\ \/ \E i \in DOMAIN s_heads :
          /\ s_heads[i].finished
          /\ \A j \in 1 .. i - 1 : ~s_heads[j].finished
          /\ s_heads' = [s_heads EXCEPT ![i] = NewHead(ev)]
     \/ /\ LiveSlots = DOMAIN s_heads
        /\ s_heads' = IF Len(s_heads) < MaxHeads THEN Append(s_heads, NewHead(ev))
                      ELSE s_heads
  /\ UNCHANGED <<s_serial, s_set_sig>>

\* Mutant: the slot stays in use.
HeadFinishedForgotten(ev) == UNCHANGED mirrorVars

HeadFinished(ev) ==
  /\ s_heads' = [i \in DOMAIN s_heads |->
                   IF i \in LiveSlots /\ s_heads[i].name = ev.name
                   THEN [s_heads[i] EXCEPT !.finished = TRUE]
                   ELSE s_heads[i]]
  /\ UNCHANGED <<s_serial, s_set_sig>>

HeadState(ev) ==
  /\ s_heads' = [i \in DOMAIN s_heads |->
                   IF i \in LiveSlots /\ s_heads[i].name = ev.name
                   THEN [s_heads[i] EXCEPT
                           !.enabled = Shown(ev.state, @).enabled,
                           !.mode = Shown(ev.state, @).mode]
                   ELSE s_heads[i]]
  /\ UNCHANGED <<s_serial, s_set_sig>>

\* outputs_changed fires only when the set of connectors differs.
SetChanged(ev)       == ev.kind = "done" /\ LiveNames # s_set_sig

MgrDone(ev) ==
  /\ s_serial' = ev.serial
  /\ s_set_sig' = LiveNames
  /\ UNCHANGED s_heads

\* The event at the head of the queue is dispatched.
Deliver ==
  /\ wire # <<>>
  /\ wire' = Tail(wire)
  /\ LET ev == Head(wire)
     IN  \/ ev.kind = "head"     /\ MgrHead(ev)
         \/ ev.kind = "finished" /\ HeadFinished(ev)
         \/ ev.kind = "state"    /\ HeadState(ev)
         \/ ev.kind = "done"     /\ MgrDone(ev)

\* The roundtrip, or the wait for the answer, returns.
Consume(kind) ==
  /\ wire # <<>>
  /\ Head(wire).kind = kind
  /\ wire' = Tail(wire)
  /\ UNCHANGED mirrorVars

-----------------------------------------------------------------------------
(***************************************************************************)
(* The compositor, as the protocol describes it: what changes together is  *)
(* announced together and closed by a "done" with a new serial.            *)
(***************************************************************************)
Connected(heads) == {c \in Connectors : heads[c] # NoMonitor}

\* The events that take the client from plugged and layout to p and l.
Changes(p, l) ==
  LET gone == Connected(plugged) \ Connected(p)
      new  == Connected(p) \ Connected(plugged)
      kept == {c \in Connected(p) \ new : layout[c] # l[c]}
  IN  SetToSeq({[kind |-> "finished", name |-> c] : c \in gone})
      \o SetToSeq({[kind |-> "head", name |-> c, id |-> p[c], state |-> l[c]] : c \in new})
      \o SetToSeq({[kind |-> "state", name |-> c, state |-> l[c]] : c \in kept})
      \o <<[kind |-> "done", serial |-> serial + 1]>>

Become(p, l) ==
  /\ plugged' = p
  /\ layout' = l
  /\ serial' = serial + 1

\* Monitors come and go on any connectors at once; between two monitors a
\* connector is seen empty.
Hotplug ==
  \E p \in [Connectors -> Monitors \union {NoMonitor}], l \in [Connectors -> States] :
    /\ p # plugged
    /\ \A c \in Connectors :
         /\ plugged[c] # NoMonitor => p[c] \in {plugged[c], NoMonitor}
         /\ p[c] = NoMonitor => l[c] = "off"
         /\ p[c] = plugged[c] => l[c] = layout[c]
    /\ serial < MaxSerial
    /\ Become(p, l)
    /\ wire' = wire \o Changes(p, l)
    /\ UNCHANGED <<request, mirrorVars>>

\* Another client, or the compositor itself, reconfigures a head.
ChangeElsewhere ==
  \E c \in Connected(plugged), state \in States :
    LET l == [layout EXCEPT ![c] = state]
    IN  /\ state # layout[c]
        /\ serial < MaxSerial
        /\ Become(plugged, l)
        /\ wire' = wire \o Changes(plugged, l)
        /\ UNCHANGED <<request, mirrorVars>>

\* The answer to wl_display.sync.
SendSync ==
  /\ \A i \in DOMAIN wire : wire[i].kind # "sync"
  /\ wire' = Append(wire, [kind |-> "sync"])
  /\ UNCHANGED <<compositorVars, request, mirrorVars>>

Result(result) == [kind |-> "result", result |-> result]

\* A configuration built on an older serial is cancelled.
AnswerCancelled ==
  /\ request.serial # serial
  /\ wire' = Append(wire, Result("cancelled"))
  /\ UNCHANGED compositorVars

AnswerFailed ==
  /\ request.serial = serial
  /\ wire' = Append(wire, Result("failed"))
  /\ UNCHANGED compositorVars

\* The changes are announced before or after the answer.
AnswerSucceeded ==
  LET l == [c \in Connectors |->
              IF c \in Connected(plugged) /\ request.heads[c] # "leave"
              THEN request.heads[c] ELSE layout[c]]
  IN  /\ request.serial = serial
      /\ Become(plugged, l)
      /\ \/ wire' = Append(wire, Result("succeeded")) \o Changes(plugged, l)
         \/ wire' = Append(wire \o Changes(plugged, l), Result("succeeded"))

Answer ==
  /\ request # NoConfig
  /\ request' = NoConfig
  /\ AnswerCancelled \/ AnswerFailed \/ AnswerSucceeded
  /\ UNCHANGED mirrorVars

-----------------------------------------------------------------------------
\* The client has bound the manager and drained the first burst: the mirror
\* is exact and the first serial is known.
OutputInit ==
  /\ plugged \in [Connectors -> Monitors \union {NoMonitor}]
  /\ layout \in [Connectors -> States]
  /\ \A c \in Connectors : plugged[c] = NoMonitor => layout[c] = "off"
  /\ serial = 1
  /\ wire = <<>>
  /\ request = NoConfig
  /\ s_set_sig = Connected(plugged)
  /\ s_heads = SetToSeq({NewHead([name |-> c, id |-> plugged[c], state |-> layout[c]]) :
                           c \in s_set_sig})
  /\ s_serial = 1

OutputTypeOK ==
  /\ plugged \in [Connectors -> Monitors \union {NoMonitor}]
  /\ layout \in [Connectors -> States]
  /\ serial \in Nat
  /\ wire \in Seq(Event)
  /\ request \in Config \union {NoConfig}
  /\ s_heads \in Seq(Slot) /\ Len(s_heads) <= MaxHeads
  /\ s_serial \in 1 .. serial
  /\ s_set_sig \subseteq Connectors

\* With nothing left to dispatch, the mirror holds every connected head once
\* and no other, whatever was plugged and pulled before.
MirrorExact ==
  wire = <<>> =>
    /\ Mirrored = plugged
    /\ \A i, j \in LiveSlots : s_heads[i].name = s_heads[j].name => i = j
=============================================================================

