------------------------ MODULE DisplayLayoutProofs ------------------------
(***************************************************************************)
(* Proofs about the two clients that arrange the displays, for any         *)
(* connectors, monitors, modes and profiles: SessionRestore, on the mirror *)
(* and the wire of OutputManagement, and DisplayPage.                      *)
(***************************************************************************)
EXTENDS SessionRestore, FiniteSetTheorems, SequenceTheorems, TLAPS

-----------------------------------------------------------------------------
(***************************************************************************)
(* What is still on the wire.  A point is what the client will hold when   *)
(* it has dispatched the events before it: the monitors it sees, those it  *)
(* saw at the last "done", the serial of that one, and the restores that   *)
(* are due by then.  A journey is a list of points, each reached from the  *)
(* one before by an event of the wire.                                     *)
(***************************************************************************)
Views == [Connectors -> Monitors \union {NoMonitor}]
Point == [view: Views, base: Views, serial: Nat, due: Nat]

\* Between two announcements a connector keeps its monitor, loses it or gets one.
Gap(old, new) == \A c \in Connectors : old[c] # NoMonitor => new[c] \in {old[c], NoMonitor}

Changed(old, new) == Connected(old) # Connected(new)

Leads(ev, a, b) ==
  /\ ev \in Event
  /\ ev.kind = "head" =>
       /\ a.view[ev.name] = NoMonitor
       /\ b.view = [a.view EXCEPT ![ev.name] = ev.id]
  /\ ev.kind = "finished" =>
       /\ a.view[ev.name] # NoMonitor
       /\ b.view = [a.view EXCEPT ![ev.name] = NoMonitor]
  /\ ev.kind \notin {"head", "finished"} => b.view = a.view
  /\ ev.kind \in {"sync", "result"} => a.view = a.base
  /\ ev.kind = "done" =>
       /\ Gap(a.base, a.view) /\ b.base = a.view
       /\ b.serial = ev.serial /\ ev.serial > a.serial
       /\ b.due >= a.due /\ (Changed(a.base, a.view) => b.due >= a.due + 1)
  /\ ev.kind # "done" => b.base = a.base /\ b.serial = a.serial /\ b.due = a.due

\* The last serial is that of the last point's base and of no other.
Before(a, b) ==
  /\ a.serial <= b.serial /\ (a.serial = b.serial => a.base = b.base)
  /\ a.due <= b.due

Route(w, r, a, b) ==
  /\ r \in [1 .. Len(w) + 1 -> Point]
  /\ r[1] = a /\ r[Len(w) + 1] = b
  /\ \A i \in 1 .. Len(w) : Leads(w[i], r[i], r[i + 1])
  /\ \A i \in 1 .. Len(w) + 1 : Before(r[i], b)

Journey(w, a, b) == \E r : Route(w, r, a, b)

\* With an empty wire the journey is over.
LEMMA NoEvents ==
  ASSUME NEW a, NEW b, Journey(<<>>, a, b)
  PROVE  a = b
BY DEF Journey, Route

\* And an empty journey leads from a point to itself.
LEMMA Stay ==
  ASSUME NEW a \in Point
  PROVE  Journey(<<>>, a, a)
<1> DEFINE r == [i \in 1 .. 1 |-> a]
<1>1. a.serial \in Nat /\ a.due \in Nat
  BY DEF Point
<1>2. Route(<<>>, r, a, a)
  BY <1>1 DEF Route, Before
<1> QED
  BY <1>2 DEF Journey

\* The first event leads to a point on the way, and the rest from there.
LEMMA Depart ==
  ASSUME NEW w \in Seq(Event), w # <<>>, NEW a, NEW b, Journey(w, a, b)
  PROVE  \E c \in Point : /\ a \in Point /\ b \in Point
                          /\ Leads(Head(w), a, c) /\ Before(a, b) /\ Before(c, b)
                          /\ Journey(Tail(w), c, b)
<1>1. PICK r : Route(w, r, a, b)
  BY DEF Journey
<1>2. Len(w) \in Nat /\ Len(w) >= 1 /\ Head(w) = w[1]
  OBVIOUS
<1>3. Tail(w) \in Seq(Event) /\ Len(Tail(w)) = Len(w) - 1
  BY HeadTailProperties
<1>4. \A i \in 1 .. Len(Tail(w)) : Tail(w)[i] = w[i + 1]
  BY HeadTailProperties
<1> DEFINE t == [i \in 1 .. Len(w) |-> r[i + 1]]
           n == Len(w)
<1>5. r \in [1 .. n + 1 -> Point] /\ r[1] = a /\ r[n + 1] = b
  BY <1>1 DEF Route
<1>6. /\ \A i \in 1 .. n : Leads(w[i], r[i], r[i + 1])
      /\ \A i \in 1 .. n + 1 : Before(r[i], b)
  BY <1>1 DEF Route
<1>7. Len(Tail(w)) + 1 = n /\ Len(Tail(w)) = n - 1
  BY <1>2, <1>3
<1> HIDE DEF n
<1>8. n \in Nat /\ n >= 1
  BY <1>2 DEF n
<1>9. t \in [1 .. n -> Point] /\ t[1] = r[2] /\ t[n] = b
  BY <1>5, <1>8 DEF n
<1>10. \A i \in 1 .. n - 1 : Leads(Tail(w)[i], t[i], t[i + 1])
  <2> SUFFICES ASSUME NEW i \in 1 .. n - 1 PROVE Leads(Tail(w)[i], t[i], t[i + 1])
    OBVIOUS
  <2>1. Tail(w)[i] = w[i + 1] /\ i + 1 \in 1 .. n /\ t[i] = r[i + 1] /\ t[i + 1] = r[i + 1 + 1]
    BY <1>4, <1>7, <1>8 DEF n
  <2> QED
    BY <1>6, <2>1
<1>11. \A i \in 1 .. n : Before(t[i], b)
  <2> SUFFICES ASSUME NEW i \in 1 .. n PROVE Before(t[i], b)
    OBVIOUS
  <2>1. t[i] = r[i + 1] /\ i + 1 \in 1 .. n + 1
    BY <1>8 DEF n
  <2> QED
    BY <1>6, <2>1
<1>12. Route(Tail(w), t, r[2], b)
  BY <1>7, <1>9, <1>10, <1>11 DEF Route
<1>13. /\ a \in Point /\ b \in Point /\ r[2] \in Point
       /\ Leads(Head(w), a, r[2]) /\ Before(a, b) /\ Before(r[2], b)
  BY <1>2, <1>5, <1>6, <1>8
<1> QED
  BY <1>12, <1>13 DEF Journey

\* What is sent after the events of a journey prolongs it.
LEMMA Continue ==
  ASSUME NEW w \in Seq(Event), NEW x \in Seq(Event), NEW a, NEW b, NEW c,
         Journey(w, a, b), Journey(x, b, c)
  PROVE  Journey(w \o x, a, c)
<1>1. PICK r : Route(w, r, a, b)
  BY DEF Journey
<1>2. PICK s : Route(x, s, b, c)
  BY DEF Journey
<1> DEFINE n == Len(w)
           m == Len(x)
           t == [i \in 1 .. n + m + 1 |-> IF i <= n THEN r[i] ELSE s[i - n]]
<1>3. n \in Nat /\ m \in Nat /\ w \o x \in Seq(Event) /\ Len(w \o x) = n + m
  OBVIOUS
<1>4. \A i \in 1 .. n + m : (w \o x)[i] = IF i <= n THEN w[i] ELSE x[i - n]
  OBVIOUS
<1>5. /\ r \in [1 .. n + 1 -> Point] /\ r[1] = a /\ r[n + 1] = b
      /\ \A i \in 1 .. n : Leads(w[i], r[i], r[i + 1])
      /\ \A i \in 1 .. n + 1 : Before(r[i], b)
  BY <1>1 DEF Route
<1>6. /\ s \in [1 .. m + 1 -> Point] /\ s[1] = b /\ s[m + 1] = c
      /\ \A i \in 1 .. m : Leads(x[i], s[i], s[i + 1])
      /\ \A i \in 1 .. m + 1 : Before(s[i], c)
  BY <1>2 DEF Route
<1> HIDE DEF n, m
<1>7. t \in [1 .. n + m + 1 -> Point] /\ t[1] = a /\ t[n + m + 1] = c
  <2>1. \A i \in 1 .. n + m + 1 : (IF i <= n THEN r[i] ELSE s[i - n]) \in Point
    BY <1>3, <1>5, <1>6
  <2>2. t[1] = a
    BY <1>3, <1>5, <1>6
  <2>3. t[n + m + 1] = c
    BY <1>3, <1>5, <1>6
  <2> QED
    BY <2>1, <2>2, <2>3
<1>8. ASSUME NEW i \in 1 .. n + m PROVE Leads((w \o x)[i], t[i], t[i + 1])
  <2>1. CASE i < n
    <3>1. (w \o x)[i] = w[i] /\ t[i] = r[i] /\ t[i + 1] = r[i + 1]
      BY <1>3, <1>4, <2>1
    <3> QED
      BY <1>3, <1>5, <2>1, <3>1
  <2>2. CASE i = n
    <3>1. (w \o x)[i] = w[i] /\ t[i] = r[i] /\ t[i + 1] = r[i + 1]
      BY <1>3, <1>4, <1>5, <1>6, <2>2
    <3> QED
      BY <1>3, <1>5, <2>2, <3>1
  <2>3. CASE i > n
    <3>1. i - n \in 1 .. m /\ i + 1 - n = i - n + 1 /\ i + 1 \in 1 .. n + m + 1
      BY <1>3, <2>3
    <3>2. (w \o x)[i] = x[i - n] /\ t[i] = s[i - n]
      BY <1>3, <1>4, <2>3
    <3>3. t[i + 1] = s[i - n + 1]
      BY <1>3, <2>3, <3>1
    <3> QED
      BY <1>6, <3>1, <3>2, <3>3
  <2> QED
    BY <1>3, <2>1, <2>2, <2>3
<1>9. ASSUME NEW i \in 1 .. n + m + 1 PROVE Before(t[i], c)
  <2>1. Before(b, c)
    BY <1>3, <1>6
  <2>2. CASE i <= n
    <3>1. t[i] = r[i] /\ Before(r[i], b) /\ r[i] \in Point /\ b \in Point /\ c \in Point
      BY <1>3, <1>5, <1>6, <2>2
    <3>2. /\ r[i].serial \in Nat /\ b.serial \in Nat /\ c.serial \in Nat
          /\ r[i].due \in Nat /\ b.due \in Nat /\ c.due \in Nat
      BY <3>1 DEF Point
    <3> QED
      BY <2>1, <3>1, <3>2 DEF Before
  <2>3. CASE ~(i <= n)
    <3>1. t[i] = s[i - n] /\ i - n \in 1 .. m + 1
      BY <1>3, <2>3
    <3> QED
      BY <1>6, <3>1
  <2> QED
    BY <2>2, <2>3
<1>10. Len(w \o x) = n + m
  BY DEF n, m
<1>11. Route(w \o x, t, a, c)
  BY <1>7, <1>8, <1>9, <1>10 DEF Route
<1> QED
  BY <1>11 DEF Journey

LEMMA OneEvent ==
  ASSUME NEW a \in Point, NEW b \in Point, NEW ev, Leads(ev, a, b), Before(a, b)
  PROVE  Journey(<<ev>>, a, b)
<1> DEFINE r == [i \in 1 .. 2 |-> IF i = 1 THEN a ELSE b]
<1>1. Before(b, b)
  BY DEF Before, Point
<1>2. Len(<<ev>>) = 1 /\ <<ev>>[1] = ev
  OBVIOUS
<1>3. r \in [1 .. 2 -> Point] /\ r[1] = a /\ r[2] = b
  OBVIOUS
<1>4. /\ \A i \in 1 .. 1 : Leads(<<ev>>[i], r[i], r[i + 1])
      /\ \A i \in 1 .. 2 : Before(r[i], b)
  BY <1>1, <1>2, <1>3
<1>5. Route(<<ev>>, r, a, b)
  BY <1>2, <1>3, <1>4 DEF Route
<1> QED
  BY <1>5 DEF Journey

-----------------------------------------------------------------------------
(***************************************************************************)
(* The announcement of a change.                                           *)
(***************************************************************************)
\* SetToSeq lists a finite set, each member once.
LEMMA SetToSeqLists ==
  ASSUME NEW S, IsFiniteSet(S)
  PROVE  /\ SetToSeq(S) \in Seq(S)
         /\ Len(SetToSeq(S)) = Cardinality(S)
         /\ \A x \in S : \E i \in 1 .. Len(SetToSeq(S)) : SetToSeq(S)[i] = x
         /\ \A i, j \in 1 .. Len(SetToSeq(S)) : SetToSeq(S)[i] = SetToSeq(S)[j] => i = j
<1> DEFINE D == 1 .. Cardinality(S)
           s == SetToSeq(S)
<1>1. Cardinality(S) \in Nat /\ ExistsBijection(D, S)
  BY FS_CardinalityType
<1>2. PICK f \in [D -> S] : IsInjective(f)
  BY <1>1 DEF ExistsBijection, Bijection, Injection
<1>3. s \in [D -> S] /\ IsInjective(s)
  BY <1>2 DEF SetToSeq
<1>4. IsFiniteSet(D) /\ Cardinality(D) = Cardinality(S)
  BY <1>1, FS_Interval
<1>5. s \in Surjection(D, S)
  BY <1>3, <1>4, FS_Injection DEF Injection
<1>6. \A x \in S : \E i \in D : s[i] = x
  BY <1>5 DEF Surjection
<1>7. s \in Seq(S) /\ Len(s) = Cardinality(S) /\ DOMAIN s = D
  BY <1>1, <1>3
<1> QED
  BY <1>3, <1>6, <1>7 DEF IsInjective

\* With one event, or slot, for each of some connectors there are finitely many,
\* and the list of them names each of these connectors once.
Lists(T, events, C, f) ==
  /\ events \in Seq(T) /\ Len(events) <= Cardinality(Connectors)
  /\ \A i \in 1 .. Len(events) : \E c \in C : events[i] = f[c]
  /\ \A c \in C : \E i \in 1 .. Len(events) : events[i].name = c
  /\ \A i, j \in 1 .. Len(events) : events[i].name = events[j].name => i = j

LEMMA OneOfEach ==
  ASSUME NEW T, NEW C \in SUBSET Connectors, NEW f \in [C -> T],
         \A c \in C : f[c].name = c
  PROVE  Lists(T, SetToSeq({f[c] : c \in C}), C, f)
<1> DEFINE S == {f[c] : c \in C}
           events == SetToSeq(S)
<1>1. IsFiniteSet(S) /\ Cardinality(S) <= Cardinality(Connectors)
  <2>1. IsFiniteSet(C) /\ Cardinality(C) <= Cardinality(Connectors)
    BY CapacityAssumption, FS_Subset
  <2>2. f \in Surjection(C, S)
    BY DEF Surjection
  <2>3. IsFiniteSet(S) /\ Cardinality(S) <= Cardinality(C)
    BY <2>1, <2>2, FS_Surjection
  <2>4. Cardinality(S) \in Nat /\ Cardinality(C) \in Nat /\ Cardinality(Connectors) \in Nat
    BY <2>1, <2>3, CapacityAssumption, FS_CardinalityType
  <2> QED
    BY <2>1, <2>3, <2>4
<1>2. /\ events \in Seq(S)
      /\ \A x \in S : \E i \in 1 .. Len(events) : events[i] = x
      /\ \A i, j \in 1 .. Len(events) : events[i] = events[j] => i = j
  BY <1>1, SetToSeqLists
<1>3. S \subseteq T
  OBVIOUS
<1> HIDE DEF events
<1>4. \A i \in 1 .. Len(events) : \E c \in C : events[i] = f[c] /\ events[i].name = c
  BY <1>2
<1>5. \A i, j \in 1 .. Len(events) : events[i].name = events[j].name => i = j
  BY <1>2, <1>4
<1>6. events \in Seq(T) /\ Len(events) <= Cardinality(Connectors)
  <2>1. Len(events) = Cardinality(S)
    BY <1>1, SetToSeqLists DEF events
  <2> QED
    BY <1>1, <1>2, <1>3, <2>1
<1> HIDE DEF S
<1>7. ASSUME NEW c \in C PROVE \E i \in 1 .. Len(events) : events[i].name = c
  <2>1. f[c] \in S
    BY DEF S
  <2>2. PICK i \in 1 .. Len(events) : events[i] = f[c]
    BY <1>2, <2>1
  <2> QED
    BY <2>2
<1>8. Lists(T, events, C, f)
  BY <1>4, <1>5, <1>6, <1>7 DEF Lists
<1> QED
  BY <1>8 DEF events, S

Seen(a, v) == [view |-> v, base |-> a.base, serial |-> a.serial, due |-> a.due]

\* What an event about connector c makes of the monitor seen there.
Makes(ev, c, before, after) ==
  \/ ev.kind = "head" /\ before = NoMonitor /\ after = ev.id
  \/ ev.kind = "finished" /\ before # NoMonitor /\ after = NoMonitor
  \/ ev.kind = "state" /\ after = before

\* The events of some connectors, in any order, take the view through each of
\* these connectors once.
LEMMA Sweep ==
  ASSUME NEW C \in SUBSET Connectors, NEW f \in [C -> Event], NEW a \in Point,
         NEW v \in Views,
         \A c \in C : f[c].name = c /\ Makes(f[c], c, a.view[c], v[c]),
         \A c \in Connectors \ C : v[c] = a.view[c]
  PROVE  Journey(SetToSeq({f[c] : c \in C}), a, Seen(a, v))
<1> DEFINE events == SetToSeq({f[c] : c \in C})
           n == Len(events)
           Swept(i) == [c \in Connectors |->
                          IF \E j \in 1 .. n : j < i /\ events[j].name = c THEN v[c]
                          ELSE a.view[c]]
           r == [i \in 1 .. n + 1 |-> Seen(a, Swept(i))]
<1>1. /\ events \in Seq(Event)
      /\ \A i \in 1 .. n : \E c \in C : events[i] = f[c]
      /\ \A c \in C : \E i \in 1 .. n : events[i].name = c
      /\ \A i, j \in 1 .. n : events[i].name = events[j].name => i = j
  <2>1. Lists(Event, events, C, f)
    BY OneOfEach
  <2> QED
    BY <2>1 DEF Lists
<1>2. /\ a.view \in Views /\ a.base \in Views /\ a.serial \in Nat /\ a.due \in Nat
      /\ a = Seen(a, a.view)
  BY DEF Point, Seen
<1> HIDE DEF events
<1>3. n \in Nat
  BY <1>1
<1> HIDE DEF n
<1>4. \A i \in 1 .. n + 1 : Swept(i) \in Views
  BY <1>2 DEF Views
<1>5. r \in [1 .. n + 1 -> Point]
  BY <1>2, <1>4 DEF Seen, Point
<1>6. Swept(1) = a.view
  <2>1. \A c \in Connectors : Swept(1)[c] = a.view[c]
    BY <1>3
  <2> QED
    BY <1>2, <2>1 DEF Views
<1>7. Swept(n + 1) = v
  <2>1. \A c \in Connectors : Swept(n + 1)[c] = v[c]
    <3> SUFFICES ASSUME NEW c \in Connectors PROVE Swept(n + 1)[c] = v[c]
      OBVIOUS
    <3>1. CASE c \in C
      <4>1. PICK i \in 1 .. n : events[i].name = c
        BY <1>1, <3>1 DEF n
      <4>2. i < n + 1
        BY <1>3
      <4> QED
        BY <4>1, <4>2
    <3>2. CASE c \notin C
      BY <3>2
    <3> QED
      BY <3>1, <3>2
  <2> QED
    BY <2>1 DEF Views
<1>8. ASSUME NEW i \in 1 .. n PROVE Leads(events[i], r[i], r[i + 1])
  <2>1. PICK c \in C : events[i] = f[c]
    BY <1>1 DEF n
  <2>2. /\ f[c] \in Event /\ f[c].name = c /\ Makes(f[c], c, a.view[c], v[c])
        /\ c \in Connectors
    OBVIOUS
  <2>3. /\ i \in 1 .. n + 1 /\ i + 1 \in 1 .. n + 1
        /\ \A j \in 1 .. n : j < i + 1 <=> j < i \/ j = i
    BY <1>3
  <2>4. Swept(i)[c] = a.view[c]
    <3>1. \A j \in 1 .. n : events[j].name = c => j = i
      BY <1>1, <2>1, <2>2 DEF n
    <3> QED
      BY <1>3, <2>2, <3>1
  <2>5. Swept(i + 1) = [Swept(i) EXCEPT ![c] = v[c]]
    <3>1. \A d \in Connectors : Swept(i + 1)[d] = IF d = c THEN v[c] ELSE Swept(i)[d]
      <4> SUFFICES ASSUME NEW d \in Connectors
                   PROVE  Swept(i + 1)[d] = IF d = c THEN v[c] ELSE Swept(i)[d]
        OBVIOUS
      <4>1. CASE d = c
        BY <2>1, <2>2, <2>3, <4>1
      <4>2. CASE d # c
        <5>1. events[i].name # d
          BY <2>1, <2>2, <4>2
        <5>2. (\E j \in 1 .. n : j < i + 1 /\ events[j].name = d)
                <=> (\E j \in 1 .. n : j < i /\ events[j].name = d)
          BY <2>3, <5>1
        <5> QED
          BY <4>2, <5>2
      <4> QED
        BY <4>1, <4>2
    <3>2. Swept(i) \in Views /\ Swept(i + 1) \in Views
      BY <1>4, <2>3
    <3> HIDE DEF Swept
    <3> QED
      BY <2>2, <3>1, <3>2 DEF Views
  <2>6. r[i] = Seen(a, Swept(i)) /\ r[i + 1] = Seen(a, Swept(i + 1))
    BY <2>3
  <2>7. Swept(i + 1) = [Swept(i) EXCEPT ![c] = v[c]] /\ Swept(i) \in Views
    BY <1>4, <2>3, <2>5
  <2> HIDE DEF Swept, r
  <2>8. v[c] = Swept(i)[c] => Swept(i + 1) = Swept(i)
    BY <2>2, <2>7 DEF Views
  <2>9. f[c].kind \in {"head", "finished", "state"}
    BY <2>2 DEF Makes
  <2>10. /\ r[i].view = Swept(i) /\ r[i + 1].view = Swept(i + 1)
         /\ r[i].base = r[i + 1].base /\ r[i].serial = r[i + 1].serial
         /\ r[i].due = r[i + 1].due
    BY <2>6 DEF Seen
  <2>11. Makes(events[i], c, r[i].view[c], v[c])
    BY <2>1, <2>2, <2>4, <2>10
  <2>12. /\ events[i] \in Event /\ events[i].name = c
         /\ events[i].kind \in {"head", "finished", "state"}
         /\ r[i + 1].view = [r[i].view EXCEPT ![c] = v[c]]
         /\ v[c] = r[i].view[c] => r[i + 1].view = r[i].view
    BY <2>1, <2>2, <2>7, <2>8, <2>9, <2>10
  <2> HIDE DEF events
  <2> QED
    BY <2>10, <2>11, <2>12 DEF Leads, Makes
<1>9. \A i \in 1 .. n + 1 : Before(r[i], Seen(a, v))
  BY <1>2 DEF Before, Seen
<1>10. r[1] = a /\ r[n + 1] = Seen(a, v)
  BY <1>2, <1>3, <1>6, <1>7
<1> HIDE DEF r
<1>11. Route(events, r, a, Seen(a, v))
  BY <1>5, <1>8, <1>9, <1>10 DEF Route, n
<1> QED
  BY <1>11 DEF Journey, events

\* The answers on the wire.
NoAnswer(w)    == \A i \in 1 .. Len(w) : w[i].kind # "result"
OneAnswer(w)   == \A i, j \in 1 .. Len(w) :
                    w[i].kind = "result" /\ w[j].kind = "result" => i = j

\* Events that are no answers change nothing about the answers on the wire.
LEMMA NoAnswerAfter ==
  ASSUME NEW w \in Seq(Event), NEW x \in Seq(Event), NoAnswer(x)
  PROVE  /\ NoAnswer(w) => NoAnswer(w \o x)
         /\ OneAnswer(w) => OneAnswer(w \o x)
<1>1. /\ Len(w) \in Nat /\ Len(x) \in Nat /\ Len(w \o x) = Len(w) + Len(x)
      /\ \A i \in 1 .. Len(w) + Len(x) :
           (w \o x)[i] = IF i <= Len(w) THEN w[i] ELSE x[i - Len(w)]
  OBVIOUS
<1>2. \A i \in 1 .. Len(w) + Len(x) :
        (w \o x)[i].kind = "result" => i \in 1 .. Len(w) /\ (w \o x)[i] = w[i]
  BY <1>1 DEF NoAnswer
<1> QED
  BY <1>1, <1>2 DEF NoAnswer, OneAnswer

LEMMA NoAnswerTail ==
  ASSUME NEW w \in Seq(Event), w # <<>>
  PROVE  /\ NoAnswer(w) => NoAnswer(Tail(w))
         /\ OneAnswer(w) => OneAnswer(Tail(w))
         /\ OneAnswer(w) /\ Head(w).kind = "result" => NoAnswer(Tail(w))
<1>1. /\ Len(w) \in Nat /\ Len(w) >= 1 /\ Head(w) = w[1] /\ Len(Tail(w)) = Len(w) - 1
      /\ \A i \in 1 .. Len(w) - 1 : Tail(w)[i] = w[i + 1]
  BY HeadTailProperties
<1>2. \A i \in 1 .. Len(w) - 1 : i + 1 \in 1 .. Len(w) /\ i + 1 # 1
  BY <1>1
<1>3. 1 \in 1 .. Len(w)
  BY <1>1
<1>4. NoAnswer(w) => NoAnswer(Tail(w))
  BY <1>1, <1>2 DEF NoAnswer
<1>5. OneAnswer(w) => OneAnswer(Tail(w))
  BY <1>1, <1>2 DEF OneAnswer
<1>6. OneAnswer(w) /\ Head(w).kind = "result" => NoAnswer(Tail(w))
  BY <1>1, <1>2, <1>3 DEF OneAnswer, NoAnswer
<1> QED
  BY <1>4, <1>5, <1>6

LEMMA AnAnswer ==
  ASSUME NEW w \in Seq(Event), NEW ev \in Event, NoAnswer(w)
  PROVE  OneAnswer(Append(w, ev))
<1>1. /\ Len(w) \in Nat /\ Len(Append(w, ev)) = Len(w) + 1
      /\ \A i \in 1 .. Len(w) : Append(w, ev)[i] = w[i]
  OBVIOUS
<1>2. \A i \in 1 .. Len(w) + 1 : Append(w, ev)[i].kind = "result" => i = Len(w) + 1
  BY <1>1 DEF NoAnswer
<1> QED
  BY <1>1, <1>2 DEF OneAnswer

\* A point at which everything seen is announced.
At(v, n, d) == [view |-> v, base |-> v, serial |-> n, due |-> d]

LEMMA EventTypes ==
  ASSUME NEW c \in Connectors
  PROVE  /\ [kind |-> "finished", name |-> c] \in Event
         /\ \A id \in Monitors, state \in States :
              [kind |-> "head", name |-> c, id |-> id, state |-> state] \in Event
         /\ \A state \in States : [kind |-> "state", name |-> c, state |-> state] \in Event
BY DEF Event

\* The events of a change, all between two "done"s, lead from what was announced
\* before to what is there after it.
LEMMA Announcement ==
  ASSUME plugged \in Views, layout \in [Connectors -> States], serial \in Nat,
         NEW p \in Views, NEW l \in [Connectors -> States], Gap(plugged, p),
         NEW d \in Nat, NEW e \in Nat, e >= d, Changed(plugged, p) => e >= d + 1
  PROVE  /\ Changes(p, l) \in Seq(Event) /\ NoAnswer(Changes(p, l))
         /\ Journey(Changes(p, l), At(plugged, serial, d), At(p, serial + 1, e))
<1> DEFINE gone == Connected(plugged) \ Connected(p)
           new  == Connected(p) \ Connected(plugged)
           kept == {c \in Connected(p) \ new : layout[c] # l[c]}
           Finished(c) == [kind |-> "finished", name |-> c]
           Appears(c)  == [kind |-> "head", name |-> c, id |-> p[c], state |-> l[c]]
           Turns(c)    == [kind |-> "state", name |-> c, state |-> l[c]]
           fs == [c \in gone |-> Finished(c)]
           hs == [c \in new |-> Appears(c)]
           ss == [c \in kept |-> Turns(c)]
           done == [kind |-> "done", serial |-> serial + 1]
           mid  == [c \in Connectors |-> IF c \in gone THEN NoMonitor ELSE plugged[c]]
           a == At(plugged, serial, d)
           b == At(p, serial + 1, e)
<1>1. Connected(plugged) \subseteq Connectors /\ Connected(p) \subseteq Connectors
  BY DEF Connected
<1>2. gone \in SUBSET Connectors /\ new \in SUBSET Connectors /\ kept \in SUBSET Connectors
  BY <1>1
<1>3. fs \in [gone -> Event]
  BY <1>2, EventTypes
<1>4. hs \in [new -> Event]
  <2>1. \A c \in new : p[c] \in Monitors /\ l[c] \in States /\ c \in Connectors
    BY DEF Connected, Views
  <2> QED
    BY <2>1, EventTypes
<1>5. ss \in [kept -> Event]
  <2>1. \A c \in kept : l[c] \in States /\ c \in Connectors
    BY <1>2
  <2> QED
    BY <2>1, EventTypes
<1>6. /\ mid \in Views /\ a \in Point /\ b \in Point
      /\ Seen(a, mid) \in Point /\ Seen(a, p) \in Point
      /\ Seen(Seen(a, mid), p) = Seen(a, p) /\ Seen(Seen(a, p), p) = Seen(a, p)
  BY DEF At, Point, Views, Seen
<1>7. /\ a.view = plugged /\ Seen(a, mid).view = mid /\ Seen(a, p).view = p
      /\ a.base = plugged /\ Seen(a, p).base = plugged
      /\ Seen(a, p).serial = serial /\ Seen(a, p).due = d
      /\ b.view = p /\ b.base = p /\ b.serial = serial + 1 /\ b.due = e
  BY DEF At, Seen
<1> HIDE DEF a, b
<1>8. Journey(SetToSeq({fs[c] : c \in gone}), a, Seen(a, mid))
  <2>1. \A c \in gone : fs[c].name = c /\ Makes(fs[c], c, a.view[c], mid[c])
    BY <1>1, <1>7 DEF Makes, Connected
  <2>2. \A c \in Connectors \ gone : mid[c] = a.view[c]
    BY <1>7
  <2> HIDE DEF fs, gone, mid
  <2> QED
    BY <1>2, <1>3, <1>6, <2>1, <2>2, Sweep
<1>9. Journey(SetToSeq({hs[c] : c \in new}), Seen(a, mid), Seen(a, p))
  <2>1. \A c \in new : hs[c].name = c /\ Makes(hs[c], c, mid[c], p[c])
    BY <1>1 DEF Makes, Connected
  <2>2. \A c \in Connectors \ new : p[c] = mid[c]
    BY <1>1 DEF Connected, Gap
  <2> HIDE DEF hs, new, mid
  <2>3. Journey(SetToSeq({hs[c] : c \in new}), Seen(a, mid), Seen(Seen(a, mid), p))
    BY <1>2, <1>4, <1>6, <1>7, <2>1, <2>2, Sweep
  <2> QED
    BY <1>6, <2>3
<1>10. Journey(SetToSeq({ss[c] : c \in kept}), Seen(a, p), Seen(a, p))
  <2>1. \A c \in kept : ss[c].name = c /\ Makes(ss[c], c, p[c], p[c])
    BY DEF Makes
  <2> HIDE DEF ss, kept
  <2>2. Journey(SetToSeq({ss[c] : c \in kept}), Seen(a, p), Seen(Seen(a, p), p))
    BY <1>2, <1>5, <1>6, <1>7, <2>1, Sweep
  <2> QED
    BY <1>6, <2>2
<1>11. Journey(<<done>>, Seen(a, p), b)
  <2>1. done \in Event /\ done.kind = "done" /\ done.serial = serial + 1
    BY DEF Event
  <2> HIDE DEF done
  <2>2. Leads(done, Seen(a, p), b)
    BY <1>7, <2>1 DEF Leads
  <2>3. Before(Seen(a, p), b)
    BY <1>7 DEF Before
  <2> QED
    BY <1>6, <2>2, <2>3, OneEvent
<1> DEFINE F == SetToSeq({fs[c] : c \in gone})
           H == SetToSeq({hs[c] : c \in new})
           T == SetToSeq({ss[c] : c \in kept})
<1>12. /\ F \in Seq(Event) /\ H \in Seq(Event) /\ T \in Seq(Event) /\ <<done>> \in Seq(Event)
       /\ NoAnswer(F) /\ NoAnswer(H) /\ NoAnswer(T) /\ NoAnswer(<<done>>)
  <2>1. \A c \in gone : fs[c].name = c
    OBVIOUS
  <2>2. \A c \in new : hs[c].name = c
    OBVIOUS
  <2>3. \A c \in kept : ss[c].name = c
    OBVIOUS
  <2>4. done \in Event
    BY DEF Event
  <2> HIDE DEF fs, hs, ss, gone, new, kept, done
  <2>5. Lists(Event, F, gone, fs)
    BY <1>2, <1>3, <2>1, OneOfEach
  <2>6. Lists(Event, H, new, hs)
    BY <1>2, <1>4, <2>2, OneOfEach
  <2>7. Lists(Event, T, kept, ss)
    BY <1>2, <1>5, <2>3, OneOfEach
  <2>8. \A i \in 1 .. Len(<<done>>) : <<done>>[i] = done
    OBVIOUS
  <2> HIDE DEF F, H, T
  <2>9. F \in Seq(Event) /\ H \in Seq(Event) /\ T \in Seq(Event) /\ <<done>> \in Seq(Event)
    BY <2>4, <2>5, <2>6, <2>7 DEF Lists
  <2>10. NoAnswer(F) /\ NoAnswer(H) /\ NoAnswer(T)
    <3>1. /\ \A c \in gone : fs[c].kind = "finished"
          /\ \A c \in new : hs[c].kind = "head"
          /\ \A c \in kept : ss[c].kind = "state"
      BY DEF fs, hs, ss
    <3>2. /\ \A i \in 1 .. Len(F) : \E c \in gone : F[i] = fs[c]
          /\ \A i \in 1 .. Len(H) : \E c \in new : H[i] = hs[c]
          /\ \A i \in 1 .. Len(T) : \E c \in kept : T[i] = ss[c]
      BY <2>5, <2>6, <2>7 DEF Lists
    <3>3. NoAnswer(F)
      BY <3>1, <3>2 DEF NoAnswer
    <3>4. NoAnswer(H)
      BY <3>1, <3>2 DEF NoAnswer
    <3>5. NoAnswer(T)
      BY <3>1, <3>2 DEF NoAnswer
    <3> QED
      BY <3>3, <3>4, <3>5
  <2>11. NoAnswer(<<done>>)
    BY <2>8 DEF NoAnswer, done
  <2> QED
    BY <2>9, <2>10, <2>11
<1>13. Changes(p, l) = F \o H \o T \o <<done>>
  <2>1. /\ {fs[c] : c \in gone} = {Finished(c) : c \in gone}
        /\ {hs[c] : c \in new} = {Appears(c) : c \in new}
        /\ {ss[c] : c \in kept} = {Turns(c) : c \in kept}
    OBVIOUS
  <2> QED
    BY <2>1 DEF Changes
<1> HIDE DEF F, H, T, done
<1>14. Journey(F \o H, a, Seen(a, p))
  BY <1>8, <1>9, <1>12, Continue DEF F, H
<1>15. F \o H \in Seq(Event) /\ F \o H \o T \in Seq(Event)
  BY <1>12
<1>16. Journey(F \o H \o T, a, Seen(a, p))
  BY <1>10, <1>12, <1>14, <1>15, Continue DEF T
<1>17. Journey(F \o H \o T \o <<done>>, a, b)
  BY <1>11, <1>12, <1>15, <1>16, Continue
<1>18. F \o H \o T \o <<done>> \in Seq(Event)
  BY <1>12, <1>15
<1>19. NoAnswer(F \o H \o T \o <<done>>)
  BY <1>12, <1>15, NoAnswerAfter
<1> QED
  BY <1>13, <1>17, <1>18, <1>19 DEF a, b

-----------------------------------------------------------------------------
(***************************************************************************)
(* The mirror's slots.                                                     *)
(***************************************************************************)
Live(h) == {i \in DOMAIN h : ~h[i].finished}

\* The slots show view v: each connected head in one live slot, and no other.
Shows(h, v) ==
  /\ h \in Seq(Slot) /\ Len(h) <= MaxHeads
  /\ \A i, j \in Live(h) : h[i].name = h[j].name => i = j
  /\ \A c \in Connectors : v[c] # NoMonitor <=> \E i \in Live(h) : h[i].name = c
  /\ \A i \in Live(h) : v[h[i].name] = h[i].id

\* Slots that show a view are what the client computes on.
LEMMA MirrorShown ==
  ASSUME NEW v \in Views, Shows(s_heads, v)
  PROVE  Mirrored = v /\ LiveNames = Connected(v)
<1>1. LiveSlots = Live(s_heads) /\ s_heads \in Seq(Slot)
  BY DEF LiveSlots, Live, Shows
<1>2. \A i \in Live(s_heads) : s_heads[i].name \in Connectors
  <2> SUFFICES ASSUME NEW i \in Live(s_heads) PROVE s_heads[i].name \in Connectors
    OBVIOUS
  <2>1. s_heads[i] \in Slot
    BY <1>1 DEF Live
  <2> QED
    BY <2>1 DEF Slot
<1>3. LiveNames = Connected(v)
  BY <1>1, <1>2 DEF LiveNames, Connected, Shows
<1>4. ASSUME NEW c \in Connectors PROVE Mirrored[c] = v[c]
  <2>1. CASE c \in LiveNames
    <3>1. \E i \in LiveSlots : s_heads[i].name = c
      BY <2>1 DEF LiveNames
    <3> DEFINE k == CHOOSE i \in LiveSlots : s_heads[i].name = c
    <3>2. k \in LiveSlots /\ s_heads[k].name = c
      BY <3>1
    <3>3. v[c] = s_heads[k].id
      BY <1>1, <3>2 DEF Shows
    <3>4. Mirrored[c] = s_heads[k].id
      BY <2>1 DEF Mirrored
    <3> QED
      BY <3>3, <3>4
  <2>2. CASE c \notin LiveNames
    BY <1>3, <2>2 DEF Mirrored, Connected
  <2> QED
    BY <2>1, <2>2
<1>5. Mirrored = v
  BY <1>4 DEF Mirrored, Views
<1> QED
  BY <1>3, <1>5

\* Slots that hold different connectors, none of them c, leave room for c.
LEMMA RoomForOneMore ==
  ASSUME NEW h \in Seq(Slot), NEW c \in Connectors,
         \A i, j \in DOMAIN h : h[i].name = h[j].name => i = j,
         \A i \in DOMAIN h : h[i].name # c
  PROVE  Len(h) < MaxHeads
<1> DEFINE n == Len(h)
           rest == Connectors \ {c}
           f == [i \in 1 .. n |-> h[i].name]
<1>1. n \in Nat /\ DOMAIN h = 1 .. n
  OBVIOUS
<1>2. IsFiniteSet(rest) /\ Cardinality(rest) = Cardinality(Connectors) - 1
  BY CapacityAssumption, FS_RemoveElement
<1>3. \A i \in 1 .. n : h[i].name \in rest
  <2> SUFFICES ASSUME NEW i \in 1 .. n PROVE h[i].name \in rest
    OBVIOUS
  <2>1. h[i] \in Slot
    OBVIOUS
  <2> QED
    BY <1>1, <2>1 DEF Slot
<1>4. f \in Injection(1 .. n, rest)
  BY <1>1, <1>3 DEF Injection, IsInjective
<1> HIDE DEF f, rest, n
<1>5. Cardinality(1 .. n) = n
  BY <1>1, FS_Interval
<1>6. n <= Cardinality(rest)
  BY <1>2, <1>4, <1>5, FS_Injection
<1>7. Cardinality(Connectors) \in Nat
  BY CapacityAssumption, FS_CardinalityType
<1> QED
  BY <1>1, <1>2, <1>6, <1>7, CapacityAssumption, HeadsAssumption DEF n

LEMMA NewHeadIsSlot ==
  ASSUME NEW ev, ev.name \in Connectors, ev.id \in Monitors, ev.state \in States
  PROVE  /\ NewHead(ev) \in Slot
         /\ NewHead(ev).name = ev.name /\ NewHead(ev).id = ev.id
         /\ NewHead(ev).finished = FALSE
<1>1. /\ Shown(ev.state, NoMode).enabled \in BOOLEAN
      /\ Shown(ev.state, NoMode).mode \in Modes \union {NoMode}
  BY DEF Shown, States
<1> QED
  BY <1>1 DEF NewHead, Slot

LEMMA EventFields ==
  ASSUME NEW ev \in Event
  PROVE  /\ ev.kind \in {"head", "state", "finished"} => ev.name \in Connectors
         /\ ev.kind = "head" => ev.id \in Monitors /\ ev.state \in States
         /\ ev.kind = "state" => ev.state \in States
         /\ ev.kind = "done" => ev.serial \in Nat
         /\ ev.kind \in {"head", "state", "finished", "done", "sync", "result"}
BY DEF Event

\* A new head reuses a finished slot or gets a fresh one: it is never dropped.
LEMMA HeadAppears ==
  ASSUME NEW v \in Views, Shows(s_heads, v), NEW ev \in Event, ev.kind = "head",
         v[ev.name] = NoMonitor, MgrHead(ev)
  PROVE  Shows(s_heads', [v EXCEPT ![ev.name] = ev.id])
<1> DEFINE head == NewHead(ev)
           u == [v EXCEPT ![ev.name] = ev.id]
<1>1. ev.name \in Connectors /\ ev.id \in Monitors /\ ev.state \in States
  BY EventFields
<1>2. /\ head \in Slot /\ head.name = ev.name /\ head.id = ev.id /\ head.finished = FALSE
  BY <1>1, NewHeadIsSlot
<1>3. /\ s_heads \in Seq(Slot) /\ Len(s_heads) <= MaxHeads /\ Len(s_heads) \in Nat
      /\ \A i, j \in Live(s_heads) : s_heads[i].name = s_heads[j].name => i = j
      /\ \A c \in Connectors : v[c] # NoMonitor <=> \E i \in Live(s_heads) : s_heads[i].name = c
      /\ \A i \in Live(s_heads) : v[s_heads[i].name] = s_heads[i].id
  BY DEF Shows
<1>4. \A i \in Live(s_heads) : s_heads[i].name # ev.name
  BY <1>1, <1>3
<1>5. ASSUME NEW k \in Nat, NEW h \in Seq(Slot), Len(h) <= MaxHeads,
             Live(h) = Live(s_heads) \union {k}, k \in DOMAIN h, k \notin Live(s_heads),
             h[k] = head, \A i \in Live(s_heads) : h[i] = s_heads[i]
      PROVE  Shows(h, u)
  <2>1. u[ev.name] = ev.id /\ \A c \in Connectors : c # ev.name => u[c] = v[c]
    BY <1>1 DEF Views
  <2>2. ev.id # NoMonitor
    BY <1>1, NullAssumption
  <2>3. \A i, j \in Live(h) : h[i].name = h[j].name => i = j
    BY <1>2, <1>3, <1>4, <1>5
  <2>4. \A c \in Connectors : u[c] # NoMonitor <=> \E i \in Live(h) : h[i].name = c
    <3> SUFFICES ASSUME NEW c \in Connectors
                 PROVE  u[c] # NoMonitor <=> \E i \in Live(h) : h[i].name = c
      OBVIOUS
    <3>1. CASE c = ev.name
      BY <1>2, <1>5, <2>1, <2>2, <3>1
    <3>2. CASE c # ev.name
      <4>1. (\E i \in Live(h) : h[i].name = c)
              <=> (\E i \in Live(s_heads) : s_heads[i].name = c)
        BY <1>2, <1>5, <3>2
      <4> QED
        BY <1>3, <2>1, <3>2, <4>1
    <3> QED
      BY <3>1, <3>2
  <2>5. \A i \in Live(h) : u[h[i].name] = h[i].id
    <3> SUFFICES ASSUME NEW i \in Live(h) PROVE u[h[i].name] = h[i].id
      OBVIOUS
    <3>1. CASE i = k
      BY <1>2, <1>5, <2>1, <3>1
    <3>2. CASE i \in Live(s_heads)
      <4>1. s_heads[i] \in Slot
        BY <1>3, <3>2 DEF Live
      <4>2. s_heads[i].name \in Connectors
        BY <4>1 DEF Slot
      <4> QED
        BY <1>3, <1>4, <1>5, <2>1, <3>2, <4>2
    <3> QED
      BY <1>5, <3>1, <3>2
  <2> QED
    BY <1>5, <2>3, <2>4, <2>5 DEF Shows
<1> HIDE DEF head, u
<1>6. CASE \E i \in DOMAIN s_heads : s_heads[i].finished /\ s_heads' = [s_heads EXCEPT ![i] = head]
  <2>1. PICK i \in DOMAIN s_heads :
          s_heads[i].finished /\ s_heads' = [s_heads EXCEPT ![i] = head]
    BY <1>6
  <2>2. /\ s_heads' \in Seq(Slot) /\ Len(s_heads') = Len(s_heads)
        /\ DOMAIN s_heads' = DOMAIN s_heads /\ i \in Nat
        /\ s_heads'[i] = head /\ \A j \in DOMAIN s_heads : j # i => s_heads'[j] = s_heads[j]
    BY <1>2, <1>3, <2>1
  <2>3. Live(s_heads') = Live(s_heads) \union {i} /\ i \notin Live(s_heads)
    BY <1>2, <2>1, <2>2 DEF Live
  <2>4. \A j \in Live(s_heads) : s_heads'[j] = s_heads[j]
    BY <2>2, <2>3 DEF Live
  <2> QED
    BY <1>3, <1>5, <2>2, <2>3, <2>4 DEF u
<1>7. CASE /\ LiveSlots = DOMAIN s_heads
           /\ s_heads' = IF Len(s_heads) < MaxHeads THEN Append(s_heads, head) ELSE s_heads
  <2>1. Live(s_heads) = DOMAIN s_heads
    BY <1>7 DEF Live, LiveSlots
  <2>2. Len(s_heads) < MaxHeads
    BY <1>1, <1>3, <1>4, <2>1, RoomForOneMore
  <2> DEFINE k == Len(s_heads) + 1
  <2>3. s_heads' = Append(s_heads, head)
    BY <1>7, <2>2
  <2>4. /\ s_heads' \in Seq(Slot) /\ Len(s_heads') = k /\ DOMAIN s_heads' = 1 .. k
        /\ s_heads'[k] = head /\ \A j \in DOMAIN s_heads : s_heads'[j] = s_heads[j]
        /\ DOMAIN s_heads = 1 .. Len(s_heads)
    BY <1>2, <1>3, <2>3
  <2>5. k \in Nat /\ k <= MaxHeads /\ k \in 1 .. k /\ k \notin 1 .. Len(s_heads)
        /\ 1 .. k = (1 .. Len(s_heads)) \union {k}
    BY <1>3, <2>2, HeadsAssumption
  <2> HIDE DEF k
  <2>6. Live(s_heads') = Live(s_heads) \union {k} /\ k \notin Live(s_heads)
    BY <1>2, <2>1, <2>4, <2>5 DEF Live
  <2>7. Shows(s_heads', u)
    BY <1>5, <2>1, <2>4, <2>5, <2>6
  <2> QED
    BY <2>7 DEF u
<1> QED
  BY <1>6, <1>7 DEF MgrHead, head
LEMMA HeadGoes ==
  ASSUME NEW v \in Views, Shows(s_heads, v), NEW ev \in Event, ev.kind = "finished",
         HeadFinished(ev)
  PROVE  Shows(s_heads', [v EXCEPT ![ev.name] = NoMonitor])
<1> DEFINE u == [v EXCEPT ![ev.name] = NoMonitor]
<1>1. ev.name \in Connectors
  BY EventFields
<1>2. /\ s_heads \in Seq(Slot) /\ Len(s_heads) <= MaxHeads /\ Len(s_heads) \in Nat
      /\ \A i, j \in Live(s_heads) : s_heads[i].name = s_heads[j].name => i = j
      /\ \A c \in Connectors : v[c] # NoMonitor <=> \E i \in Live(s_heads) : s_heads[i].name = c
      /\ \A i \in Live(s_heads) : v[s_heads[i].name] = s_heads[i].id
  BY DEF Shows
<1>3. \A i \in DOMAIN s_heads : s_heads[i] \in Slot
  BY <1>2
<1> DEFINE Goes(i) == i \in LiveSlots /\ s_heads[i].name = ev.name
<1>4. /\ s_heads' \in [DOMAIN s_heads -> Slot]
      /\ \A i \in DOMAIN s_heads :
           /\ Goes(i) => s_heads'[i].finished
           /\ ~Goes(i) => s_heads'[i] = s_heads[i]
  <2>1. \A i \in DOMAIN s_heads : [s_heads[i] EXCEPT !.finished = TRUE] \in Slot
    BY <1>3 DEF Slot
  <2>2. \A i \in DOMAIN s_heads : [s_heads[i] EXCEPT !.finished = TRUE].finished
    BY <1>3 DEF Slot
  <2> QED
    BY <1>3, <2>1, <2>2 DEF HeadFinished
<1>5. s_heads' \in Seq(Slot) /\ Len(s_heads') = Len(s_heads) /\ DOMAIN s_heads' = DOMAIN s_heads
  BY <1>2, <1>4
<1>6. LiveSlots = Live(s_heads)
  BY DEF LiveSlots, Live
<1>7. Live(s_heads') = {i \in Live(s_heads) : s_heads[i].name # ev.name}
  BY <1>4, <1>5, <1>6 DEF Live
<1>8. \A i \in Live(s_heads') : s_heads'[i] = s_heads[i]
  BY <1>4, <1>5, <1>6, <1>7 DEF Live
<1>9. \A i \in Live(s_heads) : s_heads[i].name \in Connectors
  BY <1>3 DEF Live, Slot
<1>10. u[ev.name] = NoMonitor /\ \A c \in Connectors : c # ev.name => u[c] = v[c]
  BY <1>1 DEF Views
<1> HIDE DEF u, Goes
<1>11. \A c \in Connectors : u[c] # NoMonitor <=> \E i \in Live(s_heads') : s_heads'[i].name = c
  BY <1>2, <1>7, <1>8, <1>10
<1>12. /\ \A i, j \in Live(s_heads') : s_heads'[i].name = s_heads'[j].name => i = j
       /\ \A i \in Live(s_heads') : u[s_heads'[i].name] = s_heads'[i].id
  BY <1>2, <1>7, <1>8, <1>9, <1>10
<1> QED
  BY <1>2, <1>5, <1>11, <1>12 DEF Shows, u

LEMMA HeadTurns ==
  ASSUME NEW v \in Views, Shows(s_heads, v), NEW ev \in Event, ev.kind = "state",
         HeadState(ev)
  PROVE  Shows(s_heads', v)
<1>1. ev.state \in States
  BY EventFields
<1>2. /\ s_heads \in Seq(Slot) /\ Len(s_heads) <= MaxHeads /\ Len(s_heads) \in Nat
  BY DEF Shows
<1>3. \A i \in DOMAIN s_heads : s_heads[i] \in Slot
  BY <1>2
<1> DEFINE Turned(i) == [s_heads[i] EXCEPT !.enabled = Shown(ev.state, @).enabled,
                                           !.mode = Shown(ev.state, @).mode]
<1>4. ASSUME NEW i \in DOMAIN s_heads
      PROVE  /\ Turned(i) \in Slot /\ Turned(i).name = s_heads[i].name
             /\ Turned(i).id = s_heads[i].id /\ Turned(i).finished = s_heads[i].finished
  <2>1. s_heads[i] \in Slot
    BY <1>3
  <2>2. /\ Shown(ev.state, s_heads[i].enabled).enabled \in BOOLEAN
        /\ Shown(ev.state, s_heads[i].mode).mode \in Modes \union {NoMode}
    <3>1. s_heads[i].mode \in Modes \union {NoMode}
      BY <2>1 DEF Slot
    <3> QED
      BY <1>1, <3>1 DEF Shown, States
  <2> QED
    BY <2>1, <2>2 DEF Slot
<1>5. /\ s_heads' \in [DOMAIN s_heads -> Slot]
      /\ \A i \in DOMAIN s_heads :
           /\ s_heads'[i].name = s_heads[i].name /\ s_heads'[i].id = s_heads[i].id
           /\ s_heads'[i].finished = s_heads[i].finished
  <2>1. s_heads' = [i \in DOMAIN s_heads |->
                      IF i \in LiveSlots /\ s_heads[i].name = ev.name THEN Turned(i)
                      ELSE s_heads[i]]
    BY DEF HeadState
  <2> HIDE DEF Turned
  <2> QED
    BY <1>3, <1>4, <2>1
<1>6. s_heads' \in Seq(Slot) /\ Len(s_heads') = Len(s_heads) /\ DOMAIN s_heads' = DOMAIN s_heads
  BY <1>2, <1>5
<1>7. Live(s_heads') = Live(s_heads)
  BY <1>5, <1>6 DEF Live
<1>8. \A i \in Live(s_heads) : s_heads'[i].name = s_heads[i].name /\ s_heads'[i].id = s_heads[i].id
  BY <1>5, <1>6 DEF Live
<1> QED
  BY <1>6, <1>7, <1>8 DEF Shows

\* The first burst fills one slot for each connected head.
LEMMA FirstBurst ==
  ASSUME NEW v \in Views, NEW l \in [Connectors -> States]
  PROVE  Shows(SetToSeq({NewHead([name |-> c, id |-> v[c],
  state |-> l[c]]) : c \in Connected(v)}), v)
<1> DEFINE C == Connected(v)
           First(c) == [name |-> c, id |-> v[c], state |-> l[c]]
           f == [c \in C |-> NewHead(First(c))]
           h == SetToSeq({f[c] : c \in C})
<1>1. C \in SUBSET Connectors
  BY DEF Connected
<1>2. \A c \in C : /\ f[c] \in Slot /\ f[c].name = c /\ f[c].id = v[c] /\ f[c].finished = FALSE
                   /\ v[c] \in Monitors
  <2> SUFFICES ASSUME NEW c \in C
               PROVE  /\ f[c] \in Slot /\ f[c].name = c /\ f[c].id = v[c] /\ f[c].finished = FALSE
                      /\ v[c] \in Monitors
    OBVIOUS
  <2>1. c \in Connectors /\ v[c] \in Monitors /\ l[c] \in States
    BY DEF Connected, Views
  <2>2. First(c).name = c /\ First(c).id = v[c] /\ First(c).state = l[c]
    OBVIOUS
  <2>3. f[c] = NewHead(First(c))
    OBVIOUS
  <2> HIDE DEF f, First
  <2> QED
    BY <2>1, <2>2, <2>3, NewHeadIsSlot
<1>3. f \in [C -> Slot]
  <2>1. f = [c \in C |-> f[c]]
    OBVIOUS
  <2> HIDE DEF f
  <2> QED
    BY <1>2, <2>1
<1>4. h = SetToSeq({NewHead([name |-> c, id |-> v[c], state |-> l[c]]) : c \in Connected(v)})
  <2>1. {f[c] : c \in C} = {NewHead([name |-> c, id |-> v[c], state |-> l[c]]) : c \in C}
    OBVIOUS
  <2> QED
    BY <2>1
<1> HIDE DEF f, C
<1>5. Lists(Slot, h, C, f)
  BY <1>1, <1>2, <1>3, OneOfEach
<1> HIDE DEF h
<1>6. /\ h \in Seq(Slot) /\ Len(h) <= Cardinality(Connectors) /\ DOMAIN h = 1 .. Len(h)
      /\ \A i \in 1 .. Len(h) : \E c \in C : h[i] = f[c]
      /\ \A c \in C : \E i \in 1 .. Len(h) : h[i].name = c
      /\ \A i, j \in 1 .. Len(h) : h[i].name = h[j].name => i = j
  BY <1>5 DEF Lists
<1>7. Len(h) <= MaxHeads
  BY <1>6, CapacityAssumption, FS_CardinalityType, HeadsAssumption
<1>8. Live(h) = DOMAIN h
  BY <1>2, <1>6 DEF Live
<1>9. \A i \in DOMAIN h : v[h[i].name] = h[i].id
  BY <1>2, <1>6
<1>10. \A c \in Connectors : v[c] # NoMonitor <=> \E i \in DOMAIN h : h[i].name = c
  BY <1>2, <1>6 DEF Connected, C
<1>11. Shows(h, v)
  BY <1>6, <1>7, <1>8, <1>9, <1>10 DEF Shows
<1> QED
  BY <1>4, <1>11

-----------------------------------------------------------------------------
(***************************************************************************)
(* The invariant.  The client is at a point from which the wire leads to   *)
(* what the compositor has; its restores are paid for by the changes of    *)
(* the set it has seen; and what it asked for is for the monitors of the   *)
(* serial it asked with.                                                   *)
(***************************************************************************)
Pending == (IF restore_queued THEN 1 ELSE 0) + (IF phase = "refresh" THEN 1 ELSE 0)

Here(a) ==
  /\ a \in Point
  /\ Shows(s_heads, a.view)
  /\ s_set_sig = Connected(a.base)
  /\ s_serial = a.serial /\ a.serial >= 1
  /\ restores + Pending <= a.due
  /\ ~restore_queued /\ phase # "refresh" => tried = a.base

There == At(plugged, serial, 1 + hotplugs)

Types ==
  /\ plugged \in Views
  /\ layout \in [Connectors -> States]
  /\ serial \in Nat
  /\ wire \in Seq(Event)
  /\ request \in Config \union {NoConfig}
  /\ restore_queued \in BOOLEAN
  /\ phase \in {"loop", "refresh", "apply"}
  /\ tried \in Views \union {NoSet}
  /\ restores \in Nat /\ hotplugs \in Nat

MirrorInv == \E a : Here(a) /\ Journey(wire, a, There)

AnswersInv ==
  /\ OneAnswer(wire)
  /\ NoAnswer(wire) \/ (phase = "apply" /\ request = NoConfig)

Remembered(config, heads) ==
  Enables(config) /\ \E p \in Matching(heads) : config = ConfigFor(p, heads)

RequestInv ==
  request # NoConfig =>
    /\ phase = "apply"
    /\ NoAnswer(wire)
    /\ Remembered(request.heads, tried)
    /\ request.serial <= serial
    /\ request.serial = serial => tried = plugged

Inv == Types /\ MirrorInv /\ AnswersInv /\ RequestInv

\* The invariant has the types of the rest.
LEMMA InvIsTyped ==
  ASSUME Inv
  PROVE  TypeOK
<1>1. PICK a : Here(a) /\ Journey(wire, a, There)
  BY DEF Inv, MirrorInv
<1>2. PICK r : Route(wire, r, a, There)
  BY <1>1 DEF Journey
<1>3. wire \in Seq(Event) /\ Len(wire) \in Nat
  BY DEF Inv, Types
<1>4. 1 \in 1 .. Len(wire) + 1
  BY <1>3
<1>5. Before(a, There)
  BY <1>2, <1>4 DEF Route
<1>6. There.serial = serial
  BY DEF There, At
<1>7. s_serial \in 1 .. serial
  BY <1>1, <1>5, <1>6 DEF Here, Before, Point, Inv, Types
<1>8. s_set_sig \subseteq Connectors
  BY <1>1 DEF Here, Connected
<1>9. s_heads \in Seq(Slot) /\ Len(s_heads) <= MaxHeads
  BY <1>1 DEF Here, Shows
<1> QED
  BY <1>7, <1>8, <1>9 DEF Inv, Types, TypeOK, OutputTypeOK, Views

LEMMA Start ==
  ASSUME Init
  PROVE  Inv
<1> DEFINE a == At(plugged, 1, 1)
<1>1. /\ plugged \in Views /\ layout \in [Connectors -> States]
      /\ serial = 1 /\ wire = <<>> /\ request = NoConfig /\ s_set_sig = Connected(plugged)
      /\ s_serial = 1 /\ restore_queued = TRUE /\ phase = "loop" /\ tried = NoSet
      /\ restores = 0 /\ hotplugs = 0
  BY DEF Init, OutputInit, FirstRestore, Views
<1>2. Shows(s_heads, plugged)
  <2>1. s_heads = SetToSeq({NewHead([name |-> c, id |-> plugged[c], state |-> layout[c]]) :
                             c \in Connected(plugged)})
    BY DEF Init, OutputInit
  <2> QED
    BY <1>1, <2>1, FirstBurst
<1>3. a \in Point /\ a.view = plugged /\ a.base = plugged /\ a.serial = 1 /\ a.due = 1
  BY <1>1 DEF At, Point
<1>4. a = There
  BY <1>1 DEF There
<1> HIDE DEF a
<1>5. Here(a)
  BY <1>1, <1>2, <1>3 DEF Here, Pending
<1>6. Journey(wire, a, There)
  BY <1>1, <1>3, <1>4, Stay
<1>7. Types
  BY <1>1 DEF Types
<1>8. AnswersInv /\ RequestInv
  BY <1>1 DEF AnswersInv, RequestInv, OneAnswer, NoAnswer
<1> QED
  BY <1>5, <1>6, <1>7, <1>8 DEF Inv, MirrorInv

\* The client is somewhere on the way, and takes the event at the head.
LEMMA OnTheWay ==
  ASSUME Inv
  PROVE  \E a \in Point :
           /\ Here(a) /\ Journey(wire, a, There) /\ Before(a, There)
           /\ Mirrored = a.view /\ LiveNames = Connected(a.view)
<1>1. PICK a : Here(a) /\ Journey(wire, a, There)
  BY DEF Inv, MirrorInv
<1>2. PICK r : Route(wire, r, a, There)
  BY <1>1 DEF Journey
<1>3. wire \in Seq(Event) /\ Len(wire) \in Nat
  BY DEF Inv, Types
<1>4. 1 \in 1 .. Len(wire) + 1
  BY <1>3
<1>5. Before(a, There)
  BY <1>2, <1>4 DEF Route
<1>6. Mirrored = a.view /\ LiveNames = Connected(a.view)
  BY <1>1, MirrorShown DEF Here, Point
<1> QED
  BY <1>1, <1>5, <1>6 DEF Here

\* One event moves the client one point on; a changed set pays for the restore it
\* queues.
LEMMA DispatchKeeps ==
  ASSUME Inv, Dispatch
  PROVE  Inv'
<1> DEFINE ev == Head(wire)
<1>1. PICK a \in Point : /\ Here(a) /\ Journey(wire, a, There)
                         /\ Mirrored = a.view /\ LiveNames = Connected(a.view)
  BY OnTheWay
<1>2. /\ wire \in Seq(Event) /\ wire # <<>> /\ wire' = Tail(wire) /\ wire' \in Seq(Event)
      /\ ev \in Event
  BY HeadTailProperties DEF Inv, Types, Dispatch, Deliver
<1>3. PICK c \in Point : Leads(ev, a, c) /\ Journey(Tail(wire), c, There)
  BY <1>1, <1>2, Depart
<1>4. UNCHANGED <<plugged, layout, serial, request, phase, tried, restores, hotplugs>>
  BY DEF Dispatch, compositorVars, historyVars
<1>5. There' = There
  BY <1>4 DEF There, At
<1>6. /\ a.view \in Views /\ a.base \in Views /\ a.serial \in Nat /\ a.due \in Nat
      /\ c.view \in Views /\ c.base \in Views /\ c.serial \in Nat /\ c.due \in Nat
  BY DEF Point
<1>7. restore_queued \in BOOLEAN /\ restores \in Nat /\ phase \in {"loop", "refresh",
"apply"}
  BY DEF Inv, Types
<1>8. /\ Shows(s_heads, a.view) /\ s_set_sig = Connected(a.base) /\ s_serial = a.serial
      /\ a.serial >= 1 /\ restores + Pending <= a.due
      /\ (~restore_queued /\ phase # "refresh" => tried = a.base)
  BY <1>1 DEF Here
<1>9. \/ ev.kind = "head" /\ MgrHead(ev)
      \/ ev.kind = "finished" /\ HeadFinished(ev)
      \/ ev.kind = "state" /\ HeadState(ev)
      \/ ev.kind = "done" /\ MgrDone(ev)
  BY DEF Dispatch, Deliver
<1> HIDE DEF ev
<1>10. Shows(s_heads', c.view)
  <2>1. CASE ev.kind = "head" /\ MgrHead(ev)
    <3>1. a.view[ev.name] = NoMonitor /\ c.view = [a.view EXCEPT ![ev.name] = ev.id]
      BY <1>3, <2>1 DEF Leads
    <3> QED
      BY <1>2, <1>6, <1>8, <2>1, <3>1, HeadAppears
  <2>2. CASE ev.kind = "finished" /\ HeadFinished(ev)
    <3>1. c.view = [a.view EXCEPT ![ev.name] = NoMonitor]
      BY <1>3, <2>2 DEF Leads
    <3> QED
      BY <1>2, <1>6, <1>8, <2>2, <3>1, HeadGoes
  <2>3. CASE ev.kind = "state" /\ HeadState(ev)
    <3>1. c.view = a.view
      BY <1>3, <2>3 DEF Leads
    <3> QED
      BY <1>2, <1>6, <1>8, <2>3, <3>1, HeadTurns
  <2>4. CASE ev.kind = "done" /\ MgrDone(ev)
    <3>1. c.view = a.view /\ s_heads' = s_heads
      BY <1>3, <2>4 DEF Leads, MgrDone
    <3> QED
      BY <1>8, <3>1
  <2> QED
    BY <1>9, <2>1, <2>2, <2>3, <2>4
<1>11. Here(c)'
  <2>1. CASE ev.kind # "done"
    <3>1. UNCHANGED <<s_set_sig, s_serial, restore_queued>>
      BY <1>9, <2>1 DEF MgrHead, HeadFinished, HeadState, Dispatch, SetChanged, ev
    <3>2. c.base = a.base /\ c.serial = a.serial /\ c.due = a.due
      BY <1>3, <2>1 DEF Leads
    <3> QED
      BY <1>4, <1>8, <1>10, <3>1, <3>2 DEF Here, Pending
  <2>2. CASE ev.kind = "done"
    <3>1. /\ s_set_sig' = Connected(c.base) /\ s_serial' = c.serial /\ c.base = a.view
          /\ Gap(a.base, a.view) /\ c.serial > a.serial /\ c.due >= a.due
          /\ Changed(a.base, a.view) => c.due >= a.due + 1
      BY <1>1, <1>3, <1>9, <2>2 DEF Leads, MgrDone
    <3>2. CASE Changed(a.base, a.view)
      <4>1. restore_queued' = TRUE
        BY <1>1, <1>8, <2>2, <3>2 DEF Dispatch, SetChanged, ScheduleRestore, Changed, ev
      <4> QED
        BY <1>4, <1>6, <1>7, <1>8, <1>10, <3>1, <3>2, <4>1 DEF Here, Pending
    <3>3. CASE ~Changed(a.base, a.view)
      <4>1. restore_queued' = restore_queued
        BY <1>1, <1>8, <3>3 DEF Dispatch, SetChanged, Changed, ev
      <4>2. a.base = a.view
        <5>1. \A x \in Connectors : a.base[x] = a.view[x]
          BY <3>1, <3>3 DEF Gap, Changed, Connected
        <5> QED
          BY <1>6, <5>1 DEF Views
      <4> QED
        BY <1>4, <1>6, <1>7, <1>8, <1>10, <3>1, <4>1, <4>2 DEF Here, Pending
    <3> QED
      BY <3>2, <3>3
  <2> QED
    BY <2>1, <2>2
<1>12. MirrorInv'
  BY <1>2, <1>3, <1>5, <1>11 DEF MirrorInv
<1>13. Types'
  <2>1. restore_queued' \in BOOLEAN
    BY <1>7 DEF Dispatch, ScheduleRestore
  <2> QED
    BY <1>2, <1>4, <2>1 DEF Inv, Types
<1>14. AnswersInv' /\ RequestInv'
  BY <1>2, <1>4, NoAnswerTail DEF Inv, AnswersInv, RequestInv
<1> QED
  BY <1>12, <1>13, <1>14 DEF Inv

LEMMA BeginRestoreKeeps ==
  ASSUME Inv, BeginRestore
  PROVE  Inv'
<1>1. PICK a \in Point : Here(a) /\ Journey(wire, a, There)
  BY OnTheWay
<1>2. /\ UNCHANGED <<plugged, layout, serial, wire, request, s_heads, s_serial, s_set_sig,
                     tried, restores, hotplugs>>
      /\ phase = "loop" /\ restore_queued = TRUE /\ phase' = "refresh" /\ restore_queued' = FALSE
  BY DEF BeginRestore, compositorVars, mirrorVars, historyVars, Inv, Types
<1>3. There' = There
  BY <1>2 DEF There, At
<1>4. Here(a)'
  BY <1>1, <1>2 DEF Here, Pending
<1>5. MirrorInv'
  BY <1>1, <1>2, <1>3, <1>4 DEF MirrorInv
<1> QED
  BY <1>2, <1>5 DEF Inv, Types, AnswersInv, RequestInv

LEMMA ConfigType ==
  ASSUME NEW p \in Profiles, NEW v \in Views
  PROVE  ConfigFor(p, v) \in [Connectors -> Settings]
<1>1. \A id : ProfileSetting(p, id) \in Settings
  BY ProfilesAssumption DEF ProfileSetting, Settings
<1> QED
  BY <1>1 DEF ConfigFor, Settings

\* At the answer to the roundtrip everything seen is announced: the restore is
\* computed for the monitors of the serial it is sent with.
LEMMA ComputeRestoreKeeps ==
  ASSUME Inv, ComputeRestore
  PROVE  Inv'
<1>1. PICK a \in Point : /\ Here(a) /\ Journey(wire, a, There) /\ Mirrored = a.view
  BY OnTheWay
<1>2. /\ wire \in Seq(Event) /\ wire # <<>> /\ wire' = Tail(wire) /\ wire' \in Seq(Event)
      /\ Head(wire).kind = "sync"
  BY HeadTailProperties DEF Inv, Types, ComputeRestore, Consume
<1>3. PICK c \in Point : /\ Leads(Head(wire), a, c) /\ Before(a, There)
                         /\ Journey(Tail(wire), c, There)
  BY <1>1, <1>2, Depart
<1>4. /\ UNCHANGED <<plugged, layout, serial, restore_queued, hotplugs, s_heads, s_serial,
                     s_set_sig>>
      /\ phase = "refresh" /\ tried' = Mirrored /\ restores' = restores + 1
  BY DEF ComputeRestore, Consume, compositorVars, mirrorVars
<1>5. There' = There /\ There.serial = serial /\ There.base = plugged
  BY <1>4 DEF There, At
<1>6. c.view = a.view /\ c.base = a.base /\ c.serial = a.serial /\ c.due = a.due /\ a.view = a.base
  BY <1>2, <1>3 DEF Leads
<1>7. request = NoConfig /\ NoAnswer(wire)
  BY <1>4 DEF Inv, RequestInv, AnswersInv
<1>8. \/ phase' = "loop" /\ request' = NoConfig
      \/ /\ phase' = "apply"
         /\ \E p \in Matching(Mirrored) :
              /\ MayApply(ConfigFor(p, Mirrored))
              /\ request' = [serial |-> s_serial, heads |-> ConfigFor(p, Mirrored)]
  BY <1>7 DEF ComputeRestore, Restored
<1>9. Here(c)'
  <2>1. phase' # "refresh" /\ restores \in Nat /\ restore_queued \in BOOLEAN /\ a.due \in Nat
    BY <1>8 DEF Inv, Types, Point
  <2> QED
    BY <1>1, <1>4, <1>6, <2>1 DEF Here, Pending
<1>10. MirrorInv'
  BY <1>2, <1>3, <1>5, <1>9 DEF MirrorInv
<1>11. AnswersInv'
  <2>1. NoAnswer(wire')
    BY <1>2, <1>7, NoAnswerTail
  <2> QED
    BY <2>1 DEF AnswersInv, NoAnswer, OneAnswer
<1>12. a.view \in Views /\ a.serial \in Nat /\ s_serial = a.serial
  BY <1>1 DEF Point, Here
<1>13. request' \in Config \union {NoConfig} /\ RequestInv'
  <2>1. CASE phase' = "loop" /\ request' = NoConfig
    BY <2>1 DEF RequestInv
  <2>2. CASE /\ phase' = "apply"
             /\ \E p \in Matching(Mirrored) :
                  /\ MayApply(ConfigFor(p, Mirrored))
                  /\ request' = [serial |-> s_serial, heads |-> ConfigFor(p, Mirrored)]
    <3>1. PICK p \in Matching(Mirrored) :
             /\ MayApply(ConfigFor(p, Mirrored))
             /\ request' = [serial |-> s_serial, heads |-> ConfigFor(p, Mirrored)]
      BY <2>2
    <3>2. ConfigFor(p, Mirrored) \in [Connectors -> Settings]
      BY <1>1, <1>12, ConfigType DEF Matching
    <3>3. request'.serial = a.serial /\ request'.heads = ConfigFor(p, Mirrored)
      BY <1>12, <3>1
    <3>4. request' \in Config
      BY <1>12, <3>1, <3>2 DEF Config
    <3>5. Remembered(request.heads, tried)'
      BY <1>4, <3>1, <3>3 DEF Remembered, MayApply
    <3>6. serial' = serial /\ plugged' = plugged /\ tried' = a.base
      BY <1>1, <1>4, <1>6
    <3>7. NoAnswer(wire)'
      BY <1>2, <1>7, NoAnswerTail
    <3> QED
      BY <1>3, <1>5, <2>2, <3>3, <3>4, <3>5, <3>6, <3>7 DEF RequestInv, Before
  <2> QED
    BY <1>8, <2>1, <2>2
<1>14. Types'
  BY <1>1, <1>2, <1>4, <1>8, <1>12, <1>13 DEF Inv, Types
<1> QED
  BY <1>10, <1>11, <1>13, <1>14 DEF Inv

\* The answer that ends the wait was the only one.
LEMMA EndApplyKeeps ==
  ASSUME Inv, EndApply
  PROVE  Inv'
<1>1. PICK a \in Point : Here(a) /\ Journey(wire, a, There)
  BY OnTheWay
<1>2. /\ wire \in Seq(Event) /\ wire # <<>> /\ wire' = Tail(wire) /\ wire' \in Seq(Event)
      /\ Head(wire).kind = "result"
  BY HeadTailProperties DEF Inv, Types, EndApply, Consume
<1>3. PICK c \in Point : Leads(Head(wire), a, c) /\ Journey(Tail(wire), c, There)
  BY <1>1, <1>2, Depart
<1>4. /\ UNCHANGED <<plugged, layout, serial, request, restore_queued, tried, restores,
                     hotplugs, s_heads, s_serial, s_set_sig>>
      /\ phase = "apply" /\ phase' = "loop"
  BY DEF EndApply, Consume, Restored, compositorVars, mirrorVars
<1>5. There' = There
  BY <1>4 DEF There, At
<1>6. c.view = a.view /\ c.base = a.base /\ c.serial = a.serial /\ c.due = a.due
  BY <1>2, <1>3 DEF Leads
<1>7. Here(c)'
  BY <1>1, <1>4, <1>6 DEF Here, Pending
<1>8. MirrorInv'
  BY <1>2, <1>3, <1>5, <1>7 DEF MirrorInv
<1>9. ~NoAnswer(wire)
  <2>1. Head(wire) = wire[1] /\ 1 \in 1 .. Len(wire)
    BY <1>2
  <2> QED
    BY <1>2, <2>1 DEF NoAnswer
<1>10. request = NoConfig /\ OneAnswer(wire)
  BY <1>9 DEF Inv, AnswersInv
<1>11. NoAnswer(wire')
  BY <1>2, <1>10, NoAnswerTail
<1>12. AnswersInv' /\ RequestInv'
  BY <1>4, <1>10, <1>11 DEF AnswersInv, RequestInv, NoAnswer, OneAnswer
<1> QED
  BY <1>2, <1>4, <1>8, <1>12 DEF Inv, Types

\* The compositor adds to the end of the wire, and the client stays where it is.
LEMMA StaysHere ==
  ASSUME NEW a \in Point, Here(a), UNCHANGED <<mirrorVars, restore_queued, phase, tried,
                                               restores>>
  PROVE  Here(a)'
BY DEF Here, Pending, mirrorVars

LEMMA ThereIsAPoint ==
  ASSUME Inv
  PROVE  There \in Point
BY DEF There, At, Point, Inv, Types

\* What is sent when nothing changed can be dispatched where everything is announced.
LEMMA AnEventMore ==
  ASSUME NEW w \in Seq(Event), NEW a, NEW b \in Point, Journey(w, a, b), b.view = b.base,
         NEW ev \in Event, ev.kind \in {"sync", "result"}
  PROVE  Append(w, ev) \in Seq(Event) /\ Journey(Append(w, ev), a, b)
<1>1. Append(w, ev) = w \o <<ev>> /\ <<ev>> \in Seq(Event) /\ Append(w, ev) \in Seq(Event)
  OBVIOUS
<1>2. Before(b, b)
  BY DEF Before, Point
<1>3. Leads(ev, b, b)
  BY DEF Leads
<1>4. Journey(<<ev>>, b, b)
  BY <1>2, <1>3, OneEvent
<1> QED
  BY <1>1, <1>4, Continue

LEMMA AnswerSyncKeeps ==
  ASSUME Inv, AnswerSync
  PROVE  Inv'
<1> DEFINE sync == [kind |-> "sync"]
<1>1. PICK a \in Point : Here(a) /\ Journey(wire, a, There)
  BY OnTheWay
<1>2. /\ wire \in Seq(Event) /\ wire' = Append(wire, sync)
      /\ UNCHANGED <<plugged, layout, serial, request, mirrorVars, restore_queued, phase,
                     tried, restores, hotplugs>>
  BY DEF Inv, Types, AnswerSync, SendSync, compositorVars, daemonVars, historyVars
<1>3. sync \in Event /\ sync.kind = "sync" /\ <<sync>> \in Seq(Event)
  BY DEF Event
<1>4. There' = There /\ There \in Point /\ There.view = There.base
  BY <1>2, ThereIsAPoint DEF There, At
<1>5. NoAnswer(<<sync>>)
  <2>1. Len(<<sync>>) = 1 /\ <<sync>>[1] = sync
    OBVIOUS
  <2> QED
    BY <1>3, <2>1 DEF NoAnswer
<1>6. wire' = wire \o <<sync>>
  BY <1>2, <1>3
<1> HIDE DEF sync
<1>7. wire' \in Seq(Event) /\ Journey(wire', a, There')
  BY <1>1, <1>2, <1>3, <1>4, AnEventMore
<1>8. Here(a)'
  BY <1>1, <1>2, StaysHere
<1>9. (NoAnswer(wire) => NoAnswer(wire')) /\ (OneAnswer(wire) => OneAnswer(wire'))
  BY <1>2, <1>3, <1>5, <1>6, NoAnswerAfter
<1>10. MirrorInv'
  BY <1>7, <1>8 DEF MirrorInv
<1>11. AnswersInv' /\ RequestInv'
  BY <1>2, <1>9 DEF Inv, AnswersInv, RequestInv
<1> QED
  BY <1>2, <1>7, <1>10, <1>11 DEF Inv, Types

\* A change, announced after what is on the wire already.
LEMMA Announced ==
  ASSUME Inv, NEW w \in Seq(Event), NEW a, Journey(w, a, There),
         NEW p \in Views, NEW l \in [Connectors -> States], Gap(plugged, p),
         NEW e \in Nat, e >= 1 + hotplugs, Changed(plugged, p) => e >= 2 + hotplugs
  PROVE  /\ Changes(p, l) \in Seq(Event) /\ NoAnswer(Changes(p, l))
         /\ w \o Changes(p, l) \in Seq(Event)
         /\ Journey(w \o Changes(p, l), a, At(p, serial + 1, e))
<1> DEFINE d == 1 + hotplugs
<1>1. /\ plugged \in Views /\ layout \in [Connectors -> States] /\ serial \in Nat
      /\ d \in Nat /\ e >= d /\ (Changed(plugged, p) => e >= d + 1)
  BY DEF Inv, Types
<1>2. There = At(plugged, serial, d)
  BY DEF There
<1> HIDE DEF d
<1>3. /\ Changes(p, l) \in Seq(Event) /\ NoAnswer(Changes(p, l))
      /\ Journey(Changes(p, l), At(plugged, serial, d), At(p, serial + 1, e))
  BY <1>1, Announcement
<1> QED
  BY <1>2, <1>3, Continue

LEMMA NoGap ==
  ASSUME NEW v \in Views
  PROVE  Gap(v, v) /\ ~Changed(v, v)
BY DEF Gap, Changed

LEMMA PlugOrPullKeeps ==
  ASSUME Inv, PlugOrPull
  PROVE  Inv'
<1>1. PICK p \in Views, l \in [Connectors -> States] :
        /\ \A c \in Connectors : plugged[c] # NoMonitor => p[c] \in {plugged[c], NoMonitor}
        /\ Become(p, l)
        /\ wire' = wire \o Changes(p, l)
        /\ UNCHANGED <<request, mirrorVars>>
  BY DEF PlugOrPull, Hotplug, Views
<1>2. PICK a \in Point : Here(a) /\ Journey(wire, a, There)
  BY OnTheWay
<1>3. /\ plugged' = p /\ layout' = l /\ serial' = serial + 1 /\ hotplugs' = hotplugs + 1
      /\ UNCHANGED <<request, mirrorVars, restore_queued, phase, tried, restores>>
      /\ wire \in Seq(Event) /\ hotplugs \in Nat /\ serial \in Nat
  BY <1>1 DEF PlugOrPull, Become, daemonVars, Inv, Types
<1>4. Gap(plugged, p)
  BY <1>1 DEF Gap
<1> DEFINE e == 2 + hotplugs
<1>5. There' = At(p, serial + 1, e) /\ e \in Nat /\ e >= 1 + hotplugs /\ e >= 2 + hotplugs
  BY <1>3 DEF There
<1> HIDE DEF e
<1>6. /\ Changes(p, l) \in Seq(Event) /\ NoAnswer(Changes(p, l))
      /\ wire' \in Seq(Event) /\ Journey(wire', a, There')
  BY <1>1, <1>2, <1>3, <1>4, <1>5, Announced
<1>7. Here(a)'
  BY <1>2, <1>3, StaysHere
<1>8. MirrorInv'
  BY <1>6, <1>7 DEF MirrorInv
<1>9. (NoAnswer(wire) => NoAnswer(wire')) /\ (OneAnswer(wire) => OneAnswer(wire'))
  BY <1>1, <1>3, <1>6, NoAnswerAfter
<1>10. AnswersInv'
  BY <1>3, <1>9 DEF Inv, AnswersInv
<1>11. request # NoConfig => request.serial \in Nat
  BY DEF Inv, Types, Config
<1>12. RequestInv'
  BY <1>3, <1>9, <1>11 DEF Inv, RequestInv
<1>13. Types'
  BY <1>3, <1>6 DEF Inv, Types
<1> QED
  BY <1>8, <1>10, <1>12, <1>13 DEF Inv

LEMMA ChangeElsewhereKeeps ==
  ASSUME Inv, ChangeElsewhere, UNCHANGED <<daemonVars, historyVars>>
  PROVE  Inv'
<1>1. PICK c \in Connected(plugged), state \in States :
        LET l == [layout EXCEPT ![c] = state]
        IN  /\ Become(plugged, l)
            /\ wire' = wire \o Changes(plugged, l)
            /\ UNCHANGED <<request, mirrorVars>>
  BY DEF ChangeElsewhere
<1> DEFINE l == [layout EXCEPT ![c] = state]
           e == 1 + hotplugs
<1>2. PICK a \in Point : Here(a) /\ Journey(wire, a, There)
  BY OnTheWay
<1>3. /\ plugged' = plugged /\ layout' = l /\ serial' = serial + 1
      /\ wire' = wire \o Changes(plugged, l)
      /\ UNCHANGED <<request, mirrorVars, restore_queued, phase, tried, restores, hotplugs>>
  BY <1>1 DEF Become, daemonVars, historyVars
<1>4. /\ wire \in Seq(Event) /\ hotplugs \in Nat /\ serial \in Nat /\ plugged \in Views
      /\ l \in [Connectors -> States] /\ e \in Nat /\ e >= 1 + hotplugs
  <2>1. /\ wire \in Seq(Event) /\ hotplugs \in Nat /\ serial \in Nat /\ plugged \in Views
        /\ layout \in [Connectors -> States]
    BY DEF Inv, Types
  <2>2. l \in [Connectors -> States]
    BY <2>1
  <2> QED
    BY <2>1, <2>2
<1>5. There' = At(plugged, serial + 1, e)
  BY <1>3 DEF There
<1> HIDE DEF e, l
<1>6. /\ Changes(plugged, l) \in Seq(Event) /\ NoAnswer(Changes(plugged, l))
      /\ wire' \in Seq(Event) /\ Journey(wire', a, There')
  BY <1>2, <1>3, <1>4, <1>5, NoGap, Announced
<1>7. Here(a)'
  BY <1>2, <1>3, StaysHere
<1>8. MirrorInv'
  BY <1>6, <1>7 DEF MirrorInv
<1>9. (NoAnswer(wire) => NoAnswer(wire')) /\ (OneAnswer(wire) => OneAnswer(wire'))
  BY <1>3, <1>4, <1>6, NoAnswerAfter
<1>10. AnswersInv'
  BY <1>3, <1>9 DEF Inv, AnswersInv
<1>11. request # NoConfig => request.serial \in Nat
  BY DEF Inv, Types, Config
<1>12. RequestInv'
  BY <1>3, <1>4, <1>9, <1>11 DEF Inv, RequestInv
<1>13. Types'
  BY <1>3, <1>4, <1>6 DEF Inv, Types
<1> QED
  BY <1>8, <1>10, <1>12, <1>13 DEF Inv

\* The answer and the changes it may bring are sent in either order.
LEMMA AnswerKeeps ==
  ASSUME Inv, AnswerRequest
  PROVE  Inv'
<1>1. PICK a \in Point : Here(a) /\ Journey(wire, a, There)
  BY OnTheWay
<1>2. /\ request # NoConfig /\ request' = NoConfig
      /\ UNCHANGED <<mirrorVars, restore_queued, phase, tried, restores, hotplugs>>
      /\ AnswerCancelled \/ AnswerFailed \/ AnswerSucceeded
  BY DEF AnswerRequest, Answer, daemonVars, historyVars
<1>3. /\ wire \in Seq(Event) /\ serial \in Nat /\ hotplugs \in Nat /\ plugged \in Views
      /\ layout \in [Connectors -> States] /\ request \in Config
      /\ phase = "apply" /\ NoAnswer(wire)
  BY <1>2 DEF Inv, Types, RequestInv
<1>4. \A r \in Results : Result(r) \in Event /\ Result(r).kind = "result"
  BY DEF Result, Event
<1>5. There \in Point /\ There.view = There.base
  BY ThereIsAPoint DEF There, At
<1>6. \A r \in Results : /\ Append(wire, Result(r)) \in Seq(Event)
                         /\ Journey(Append(wire, Result(r)), a, There)
                         /\ OneAnswer(Append(wire, Result(r)))
  BY <1>1, <1>3, <1>4, <1>5, AnEventMore, AnAnswer
<1>7. Here(a)'
  BY <1>1, <1>2, StaysHere
<1>8. SUFFICES /\ plugged' = plugged /\ layout' \in [Connectors -> States] /\ serial' \in Nat
               /\ wire' \in Seq(Event) /\ OneAnswer(wire') /\ Journey(wire', a, There')
  <2>1. MirrorInv'
    BY <1>7, <1>8 DEF MirrorInv
  <2>2. AnswersInv' /\ RequestInv'
    BY <1>2, <1>3, <1>8 DEF AnswersInv, RequestInv
  <2>3. Types'
    BY <1>2, <1>3, <1>8 DEF Inv, Types
  <2> QED
    BY <2>1, <2>2, <2>3 DEF Inv
<1>9. CASE AnswerCancelled \/ AnswerFailed
  <2>1. PICK r \in Results : wire' = Append(wire, Result(r))
    BY <1>9 DEF AnswerCancelled, AnswerFailed, Results
  <2>2. UNCHANGED <<plugged, layout, serial, hotplugs>>
    BY <1>2, <1>9 DEF AnswerCancelled, AnswerFailed, compositorVars
  <2>3. There' = There
    BY <2>2 DEF There, At
  <2> QED
    BY <1>3, <1>6, <2>1, <2>2, <2>3
<1>10. CASE AnswerSucceeded
  <2> DEFINE l == [c \in Connectors |->
                     IF c \in Connected(plugged) /\ request.heads[c] # "leave"
                     THEN request.heads[c] ELSE layout[c]]
             e == 1 + hotplugs
             R == Result("succeeded")
             ch == Changes(plugged, l)
  <2>1. /\ plugged' = plugged /\ layout' = l /\ serial' = serial + 1
        /\ \/ wire' = Append(wire, R) \o ch
           \/ wire' = Append(wire \o ch, R)
    BY <1>10 DEF AnswerSucceeded, Become
  <2>2. l \in [Connectors -> States]
    <3>1. request.heads \in [Connectors -> Settings]
      BY <1>3 DEF Config
    <3> QED
      BY <1>3, <3>1 DEF Settings
  <2>3. There' = At(plugged, serial + 1, e) /\ e \in Nat /\ e >= 1 + hotplugs
    BY <1>2, <1>3, <2>1 DEF There
  <2>4. R \in Event /\ R.kind = "result" /\ "succeeded" \in Results
    BY <1>4 DEF Results
  <2> HIDE DEF l, e, R
  <2>5. Gap(plugged, plugged) /\ ~Changed(plugged, plugged)
    BY <1>3, NoGap
  <2>6. /\ ch \in Seq(Event) /\ NoAnswer(ch) /\ wire \o ch \in Seq(Event)
        /\ Journey(wire \o ch, a, There')
    BY <1>1, <1>3, <2>2, <2>3, <2>5, Announced
  <2>7. /\ Append(wire, R) \in Seq(Event) /\ OneAnswer(Append(wire, R))
        /\ Journey(Append(wire, R), a, There)
    BY <1>6, <2>4 DEF R
  <2>8. /\ Append(wire, R) \o ch \in Seq(Event)
        /\ Journey(Append(wire, R) \o ch, a, There')
    BY <1>3, <2>2, <2>3, <2>5, <2>7, Announced
  <2>9. There' \in Point /\ There'.view = There'.base
    BY <1>3, <2>3 DEF At, Point
  <2> HIDE DEF ch
  <2>10. CASE wire' = Append(wire, R) \o ch
    <3>1. OneAnswer(wire')
      BY <2>6, <2>7, <2>10, NoAnswerAfter
    <3> QED
      BY <1>3, <2>1, <2>2, <2>8, <2>10, <3>1
  <2>11. CASE wire' = Append(wire \o ch, R)
    <3>1. NoAnswer(wire \o ch)
      BY <1>3, <2>6, NoAnswerAfter
    <3>2. OneAnswer(wire')
      BY <2>4, <2>6, <2>11, <3>1, AnAnswer
    <3>3. wire' \in Seq(Event) /\ Journey(wire', a, There')
      BY <2>4, <2>6, <2>9, <2>11, AnEventMore
    <3> QED
      BY <1>3, <2>1, <2>2, <3>2, <3>3
  <2> QED
    BY <2>1, <2>10, <2>11
<1> QED
  BY <1>2, <1>9, <1>10

LEMMA StutterKeeps ==
  ASSUME Inv, UNCHANGED vars
  PROVE  Inv'
<1>1. /\ UNCHANGED <<plugged, layout, serial, wire, request, s_heads, s_serial, s_set_sig>>
      /\ UNCHANGED <<restore_queued, phase, tried, restores, hotplugs>>
  BY DEF vars, compositorVars, mirrorVars, daemonVars, historyVars
<1>2. There' = There /\ \A a : Here(a)' <=> Here(a)
  BY <1>1 DEF There, Here, Pending
<1>3. MirrorInv'
  BY <1>1, <1>2 DEF Inv, MirrorInv
<1> QED
  BY <1>1, <1>3 DEF Inv, Types, AnswersInv, RequestInv

LEMMA Step ==
  ASSUME Inv, [Next]_vars
  PROVE  Inv'
<1>1. CASE Dispatch
  BY <1>1, DispatchKeeps
<1>2. CASE BeginRestore
  BY <1>2, BeginRestoreKeeps
<1>3. CASE ComputeRestore
  BY <1>3, ComputeRestoreKeeps
<1>4. CASE EndApply
  BY <1>4, EndApplyKeeps
<1>5. CASE AnswerSync
  BY <1>5, AnswerSyncKeeps
<1>6. CASE AnswerRequest
  BY <1>6, AnswerKeeps
<1>7. CASE PlugOrPull
  BY <1>7, PlugOrPullKeeps
<1>8. CASE ChangeElsewhere /\ UNCHANGED <<daemonVars, historyVars>>
  BY <1>8, ChangeElsewhereKeeps
<1>9. CASE UNCHANGED vars
  BY <1>9, StutterKeeps
<1> QED
  BY <1>1, <1>2, <1>3, <1>4, <1>5, <1>6, <1>7, <1>8, <1>9
  DEF Next, Daemon, Compositor, Environment

LEMMA Always == Spec => []Inv
<1>1. Init => Inv
  BY Start
<1>2. Inv /\ [Next]_vars => Inv'
  BY Step
<1> QED
  BY <1>1, <1>2, PTL DEF Spec

-----------------------------------------------------------------------------
\* With nothing left to dispatch the mirror holds every connected head once and no
\* other, whatever was plugged, pulled, finished and reused before.
THEOREM MirrorIsExact == Spec => []MirrorExact
<1>1. Inv => MirrorExact
  <2> SUFFICES ASSUME Inv, wire = <<>>
               PROVE  /\ Mirrored = plugged
                      /\ \A i, j \in LiveSlots : s_heads[i].name = s_heads[j].name => i = j
    BY DEF MirrorExact
  <2>1. PICK a \in Point : Here(a) /\ Journey(wire, a, There) /\ Mirrored = a.view
    BY OnTheWay
  <2>2. a = There
    BY <2>1, NoEvents
  <2>3. a.view = plugged
    BY <2>2 DEF There, At
  <2>4. \A i, j \in LiveSlots : s_heads[i].name = s_heads[j].name => i = j
    BY <2>1 DEF Here, Shows, LiveSlots, Live
  <2> QED
    BY <2>1, <2>3, <2>4
<1> QED
  BY <1>1, Always, PTL

\* Once all is quiet the last restore was for the monitors connected now, however
\* hotplugs interleaved with its roundtrip and its wait; and no more restores were
\* run than the connected set has changed, besides the first.
THEOREM EveryHotplugIsRestoredOnce == Spec => []RestoresMatchHotplugs
<1>1. ASSUME Inv PROVE NoHotplugLost
  <2> SUFFICES ASSUME Quiet PROVE tried = plugged
    BY DEF NoHotplugLost
  <2>1. PICK a \in Point : Here(a) /\ Journey(wire, a, There)
    BY <1>1, OnTheWay
  <2>2. a = There
    BY <2>1, NoEvents DEF Quiet
  <2>3. a.base = plugged
    BY <2>2 DEF There, At
  <2> QED
    BY <2>1, <2>3 DEF Here, Quiet
<1>2. ASSUME Inv PROVE NoApplyLoop
  <2>1. PICK a \in Point : Here(a) /\ Before(a, There)
    BY <1>2, OnTheWay
  <2>2. /\ a.due \in Nat /\ restores \in Nat /\ hotplugs \in Nat
        /\ a.due <= There.due /\ restores + Pending <= a.due
    BY <1>2, <2>1 DEF Point, Here, Before, Inv, Types
  <2>3. There.due = 1 + hotplugs
    BY DEF There, At
  <2>4. Pending \in Nat
    BY DEF Pending
  <2> QED
    BY <2>2, <2>3, <2>4 DEF NoApplyLoop
<1>3. Inv => RestoresMatchHotplugs
  BY <1>1, <1>2, InvIsTyped DEF RestoresMatchHotplugs
<1> QED
  BY <1>3, Always, PTL

-----------------------------------------------------------------------------
\* Two connected heads never share an identity.
LEMMA IdentitiesDiffer ==
  ASSUME NEW v, NEW c \in Connected(v), NEW d \in Connected(v),
         IdentityOf(v, c) = IdentityOf(v, d)
  PROVE  c = d
<1>1. c \in Connectors /\ d \in Connectors
  BY DEF Connected
<1>2. CASE v[c] = v[d]
  <2> SUFFICES ASSUME c # d PROVE FALSE
    OBVIOUS
  <2>1. IdentityOf(v, c) = <<v[c], c>> /\ IdentityOf(v, d) = <<v[d], d>>
    BY <1>1, <1>2 DEF IdentityOf
  <2>2. <<v[c], c>>[2] = <<v[d], d>>[2]
    BY <2>1
  <2> QED
    BY <2>2
<1>3. CASE v[c] # v[d]
  <2>1. IdentityOf(v, c)[1] = v[c] /\ IdentityOf(v, d)[1] = v[d]
    BY DEF IdentityOf
  <2> QED
    BY <1>3, <2>1
<1> QED
  BY <1>2, <1>3

\* So the configuration has what the profile says of every connected head.
LEMMA ConfiguredAll ==
  ASSUME NEW p, NEW v, NEW c \in Connected(v)
  PROVE  ConfigFor(p, v)[c] = ProfileSetting(p, IdentityOf(v, c))
<1>1. c = CHOOSE d \in Connected(v) : IdentityOf(v, d) = IdentityOf(v, c)
  <2> DEFINE d == CHOOSE d \in Connected(v) : IdentityOf(v, d) = IdentityOf(v, c)
  <2>1. d \in Connected(v) /\ IdentityOf(v, d) = IdentityOf(v, c)
    OBVIOUS
  <2> HIDE DEF d
  <2>2. d = c
    BY <2>1, IdentitiesDiffer
  <2> QED
    BY <2>2 DEF d
<1> QED
  BY <1>1 DEF ConfigFor, Connected

\* What a step applies is what was remembered for the monitors connected.
LEMMA AppliedIsRemembered ==
  ASSUME Inv, [Next]_vars, Applied
  PROVE  /\ plugged \in Views /\ Enables(request.heads)
         /\ \E p \in Matching(plugged) : request.heads = ConfigFor(p, plugged)
         /\ \A c \in Connected(plugged) :
              request.heads[c] # "leave" => layout'[c] = request.heads[c]
<1>1. Answer
  <2>1. request # NoConfig /\ request' = NoConfig /\ layout' # layout
    BY DEF Applied
  <2>2. ~Dispatch /\ ~BeginRestore /\ ~EndApply /\ ~AnswerSync /\ ~PlugOrPull
    BY <2>1 DEF Dispatch, BeginRestore, EndApply, Restored, AnswerSync, SendSync,
                PlugOrPull, Hotplug, compositorVars
  <2>3. ~ComputeRestore /\ ~ChangeElsewhere
    BY <2>1 DEF ComputeRestore, ChangeElsewhere, compositorVars
  <2>4. ~UNCHANGED vars
    BY <2>1 DEF vars
  <2> QED
    BY <2>2, <2>3, <2>4 DEF Next, Daemon, Compositor, Environment, AnswerRequest
<1>2. request.serial = serial /\ AnswerSucceeded
  BY <1>1 DEF Answer, AnswerCancelled, AnswerFailed, AnswerSucceeded, Applied,
              compositorVars
<1>3. plugged \in Views /\ Remembered(request.heads, plugged)
  BY <1>2 DEF Applied, Inv, Types, RequestInv
<1>4. layout' = [c \in Connectors |->
                   IF c \in Connected(plugged) /\ request.heads[c] # "leave"
                   THEN request.heads[c] ELSE layout[c]]
  BY <1>2 DEF AnswerSucceeded, Become
<1>5. Connected(plugged) \subseteq Connectors
  BY DEF Connected
<1>6. \A c \in Connected(plugged) :
        request.heads[c] # "leave" => layout'[c] = request.heads[c]
  BY <1>4, <1>5
<1> QED
  BY <1>3, <1>6 DEF Remembered

\* Each connected head gets its remembered state, or is left if none is remembered.
LEMMA RememberedApplied ==
  ASSUME Inv, [Next]_vars, Applied
  PROVE  \E p \in Profiles :
           /\ p.outputs = SetKey(plugged)
           /\ \A c \in Connected(plugged) :
                ProfileSetting(p, IdentityOf(plugged, c)) \in {"leave", layout'[c]}
<1>1. PICK p \in Matching(plugged) : request.heads = ConfigFor(p, plugged)
  BY AppliedIsRemembered
<1>2. p \in Profiles /\ p.outputs = SetKey(plugged)
  BY DEF Matching
<1>3. ASSUME NEW c \in Connected(plugged)
      PROVE  ProfileSetting(p, IdentityOf(plugged, c)) \in {"leave", layout'[c]}
  <2>1. request.heads[c] = ProfileSetting(p, IdentityOf(plugged, c))
    BY <1>1, AppliedIsRemembered, ConfiguredAll
  <2>2. request.heads[c] # "leave" => layout'[c] = request.heads[c]
    BY AppliedIsRemembered
  <2> QED
    BY <2>1, <2>2
<1> QED
  BY <1>2, <1>3

\* The mode that made the configuration worth applying is among what is applied.
LEMMA SomethingLit ==
  ASSUME Inv, [Next]_vars, Applied
  PROVE  \E c \in Connected(plugged) : layout'[c] # "off"
<1>1. PICK c \in Connectors : request.heads[c] \in Modes
  BY AppliedIsRemembered DEF Enables
<1>2. request.heads[c] # "leave" /\ request.heads[c] # "off"
  BY <1>1, ModesAssumption
<1>3. c \in Connected(plugged)
  <2>1. PICK p \in Matching(plugged) : request.heads = ConfigFor(p, plugged)
    BY AppliedIsRemembered
  <2> QED
    BY <1>2, <2>1 DEF ConfigFor
<1> QED
  BY <1>2, <1>3, AppliedIsRemembered

\* The profile is the only one of its set, and has a state for each of its heads.
LEMMA NoHeadLeft ==
  ASSUME Inv
  PROVE  EveryHeadConfigured
<1> SUFFICES ASSUME request # NoConfig, NEW p \in Profiles,
                    DOMAIN p.states = p.outputs, p.outputs = SetKey(tried),
                    NEW c \in Connected(tried)
             PROVE  request.heads[c] # "leave"
  BY DEF EveryHeadConfigured
<1>1. PICK q \in Matching(tried) : request.heads = ConfigFor(q, tried)
  BY DEF Inv, RequestInv, Remembered
<1>2. q = p
  BY <1>1, ProfilesAssumption DEF Matching
<1>3. IdentityOf(tried, c) \in DOMAIN p.states
  BY DEF SetKey
<1>4. ProfileSetting(p, IdentityOf(tried, c)) \in States
  BY <1>3, ProfilesAssumption DEF ProfileSetting
<1>5. "leave" \notin States
  BY ModesAssumption DEF States
<1>6. request.heads[c] = ProfileSetting(p, IdentityOf(tried, c))
  BY <1>1, <1>2, ConfiguredAll
<1> QED
  BY <1>4, <1>5, <1>6

\* What the daemon applies was remembered for exactly the monitors that are connected
\* when the compositor applies it, leaves one of them lit, and leaves no head of a
\* complete profile out.
THEOREM RestoredLayoutsAreSafe == Spec => LayoutsAreSafe
<1>1. Inv /\ [Next]_vars =>
        [Applied =>
           \E p \in Profiles :
             /\ p.outputs = SetKey(plugged)
             /\ \A c \in Connected(plugged) :
                  ProfileSetting(p, IdentityOf(plugged, c)) \in {"leave", layout'[c]}]_vars
  BY RememberedApplied
<1>2. Inv /\ [Next]_vars =>
        [Applied => \E c \in Connected(plugged) : layout'[c] # "off"]_vars
  BY SomethingLit
<1>3. Inv => EveryHeadConfigured
  BY NoHeadLeft
<1>4. Spec => OnlyRememberedLayouts
  BY <1>1, Always, PTL DEF Spec, OnlyRememberedLayouts
<1>5. Spec => NeverBlanks
  BY <1>2, Always, PTL DEF Spec, NeverBlanks
<1>6. Spec => []EveryHeadConfigured
  BY <1>3, Always, PTL
<1> QED
  BY <1>4, <1>5, <1>6 DEF LayoutsAreSafe

=============================================================================
