------------------------- MODULE SettingsStorageProofs -------------------------
(***************************************************************************)
(* The safety of SettingsStorage, for any settings and any number of       *)
(* edits, pin changes, Syncs, reloads and faults.                          *)
(***************************************************************************)
EXTENDS SettingsStorageInvariant, SequenceTheorems, TLAPS

----------------------------------------------------------------------------
(* Queues *)

LEMMA QueueTail ==
    ASSUME NEW S, NEW q \in Seq(S), q # <<>>
    PROVE  /\ Head(q) = q[1] /\ Head(q) \in S /\ 1 \in DOMAIN q
           /\ Tail(q) \in Seq(S)
           /\ \A i \in DOMAIN Tail(q) : i \in Nat \ {0} /\ i + 1 \in DOMAIN q /\ Tail(q)[i] = q[i + 1]
           /\ \A i \in DOMAIN q : i \in Nat \ {0}
           /\ \A i \in DOMAIN q : i > 1 => i - 1 \in DOMAIN Tail(q) /\ Tail(q)[i - 1] = q[i]
<1>1. /\ Head(q) = q[1] /\ Head(q) \in S /\ Tail(q) \in Seq(S) /\ Len(q) \in Nat \ {0}
      /\ Len(Tail(q)) = Len(q) - 1 /\ \A i \in 1 .. Len(Tail(q)) : Tail(q)[i] = q[i + 1]
  BY HeadTailProperties, LenProperties, EmptySeq
<1>2. DOMAIN q = 1 .. Len(q) /\ DOMAIN Tail(q) = 1 .. Len(Tail(q))
  BY <1>1, LenProperties
<1> QED
  BY <1>1, <1>2

LEMMA QueueAppend ==
    ASSUME NEW S, NEW q \in Seq(S), NEW e \in S
    PROVE  /\ Append(q, e) \in Seq(S) /\ Append(q, e) # <<>>
           /\ \A i \in DOMAIN q : i \in Nat \ {0} /\ i \in DOMAIN Append(q, e) /\ Append(q, e)[i] = q[i]
           /\ \A i \in DOMAIN Append(q, e) :
                  (i \in DOMAIN q /\ Append(q, e)[i] = q[i]) \/ (i = Len(q) + 1 /\ Append(q, e)[i] = e)
           /\ Len(q) + 1 \in DOMAIN Append(q, e) /\ Append(q, e)[Len(q) + 1] = e
           /\ q # <<>> => Head(Append(q, e)) = Head(q) /\ Len(q) > 0
           /\ q = <<>> => Head(Append(q, e)) = e /\ Len(q) = 0
           /\ Len(q) + 1 \notin DOMAIN q
<1> DEFINE a == Append(q, e)
<1>1. /\ a \in Seq(S) /\ Len(a) = Len(q) + 1 /\ Len(q) \in Nat
      /\ \A i \in 1 .. Len(q) : a[i] = q[i]
      /\ a[Len(q) + 1] = e /\ DOMAIN a = 1 .. Len(a) /\ DOMAIN q = 1 .. Len(q)
  BY AppendProperties, LenProperties
<1>2. Len(q) = 0 <=> q = <<>>
  BY EmptySeq, LenProperties
<1>3. Head(a) = a[1] /\ (q # <<>> => Head(q) = q[1])
  OBVIOUS
<1> HIDE DEF a
<1>4. a # <<>>
  BY <1>1 DEF a
<1>5. /\ q # <<>> => Head(a) = Head(q) /\ Len(q) > 0
      /\ q = <<>> => Head(a) = e /\ Len(q) = 0
  BY <1>1, <1>2, <1>3
<1>6. /\ \A i \in DOMAIN q : i \in Nat \ {0} /\ i \in DOMAIN a /\ a[i] = q[i]
      /\ \A i \in DOMAIN a : (i \in DOMAIN q /\ a[i] = q[i]) \/ (i = Len(q) + 1 /\ a[i] = e)
      /\ Len(q) + 1 \in DOMAIN a /\ Len(q) + 1 \notin DOMAIN q
  <2>1. DOMAIN a = 1 .. Len(q) + 1 /\ DOMAIN q = 1 .. Len(q) /\ Len(q) \in Nat
    BY <1>1
  <2>2. ASSUME NEW i \in DOMAIN q PROVE i \in Nat \ {0} /\ i \in DOMAIN a /\ a[i] = q[i]
    BY <1>1, <2>1
  <2>3. ASSUME NEW i \in DOMAIN a
        PROVE  (i \in DOMAIN q /\ a[i] = q[i]) \/ (i = Len(q) + 1 /\ a[i] = e)
    <3>1. i \in 1 .. Len(q) \/ i = Len(q) + 1
      BY <2>1
    <3>2. CASE i \in 1 .. Len(q)
      BY <1>1, <2>1, <3>2
    <3>3. CASE i = Len(q) + 1
      BY <1>1, <3>3
    <3> QED
      BY <3>1, <3>2, <3>3
  <2>4. Len(q) + 1 \in DOMAIN a /\ Len(q) + 1 \notin DOMAIN q
    BY <2>1
  <2> QED
    BY <2>2, <2>3, <2>4
<1> QED
  BY <1>1, <1>4, <1>5, <1>6 DEF a

LEMMA QueueReplace ==
    ASSUME NEW S, NEW q \in Seq(S), q # <<>>, NEW e \in S
    PROVE  /\ <<>> \o Tail(q) = Tail(q)
           /\ <<e>> \o Tail(q) \in Seq(S) /\ <<e>> \o Tail(q) # <<>>
           /\ Head(<<e>> \o Tail(q)) = e /\ (<<e>> \o Tail(q))[1] = e
           /\ DOMAIN (<<e>> \o Tail(q)) = DOMAIN q
           /\ \A i \in DOMAIN q : i \in Nat \ {0} /\ (i > 1 => (<<e>> \o Tail(q))[i] = q[i])
<1> DEFINE c == <<e>> \o Tail(q)
<1>1. /\ Tail(q) \in Seq(S) /\ Len(q) \in Nat \ {0} /\ DOMAIN q = 1 .. Len(q)
      /\ Len(Tail(q)) = Len(q) - 1 /\ \A i \in 1 .. Len(Tail(q)) : Tail(q)[i] = q[i + 1]
  BY HeadTailProperties, LenProperties, EmptySeq
<1>2. <<e>> \in Seq(S) /\ Len(<<e>>) = 1 /\ <<e>>[1] = e
  OBVIOUS
<1>3. /\ c \in Seq(S) /\ Len(c) = 1 + Len(Tail(q))
      /\ \A i \in 1 .. Len(c) : c[i] = IF i <= 1 THEN <<e>>[i] ELSE Tail(q)[i - 1]
  BY <1>1, <1>2, ConcatProperties
<1>4. DOMAIN c = 1 .. Len(c)
  BY <1>3, LenProperties
<1>5. <<>> \o Tail(q) = Tail(q)
  BY <1>1, ConcatEmptySeq
<1>6. Head(c) = c[1]
  OBVIOUS
<1> HIDE DEF c
<1>7. c[1] = e /\ c # <<>>
  BY <1>1, <1>2, <1>3, EmptySeq
<1> QED
  BY <1>1, <1>2, <1>3, <1>4, <1>5, <1>6, <1>7 DEF c

\* The turns of saveQueue.
LEMMA TurnsAppended ==
    /\ \A a : Append(<<>>, a) = <<a>>
    /\ \A a, b : Append(<<a>>, b) = <<a, b>>
<1>1. ASSUME NEW a PROVE Append(<<>>, a) = <<a>>
  OBVIOUS
<1>2. ASSUME NEW a, NEW b PROVE Append(<<a>>, b) = <<a, b>>
  <2> DEFINE s == Append(<<a>>, b)
             t == <<a, b>>
  <2>1. /\ t \in Seq({a, b}) /\ <<a>> \in Seq({a, b}) /\ Len(<<a>>) = 1 /\ <<a>>[1] = a
        /\ Len(t) = 2 /\ t[1] = a /\ t[2] = b
    OBVIOUS
  <2>2. s \in Seq({a, b}) /\ Len(s) = 2 /\ s[1] = a /\ s[2] = b
    BY <2>1, AppendProperties
  <2>3. 1 .. 2 = {1, 2}
    OBVIOUS
  <2>4. \A i \in 1 .. Len(s) : s[i] = t[i]
    BY <2>1, <2>2, <2>3
  <2> HIDE DEF s, t
  <2>5. s = t
    BY <2>1, <2>2, <2>4, SeqEqual
  <2> QED
    BY <2>5 DEF s, t
<1> QED
  BY <1>1, <1>2

LEMMA TurnsTaken ==
    /\ \A a : Head(<<a>>) = a /\ Tail(<<a>>) = <<>> /\ <<a>> # <<>>
    /\ \A a, b : Head(<<a, b>>) = a /\ Tail(<<a, b>>) = <<b>> /\ <<a, b>> # <<>> /\ <<a, b>> # <<b>>
    /\ \A a, b, c : <<a, b>> # <<c>>
    /\ \A a, b, c, d : <<a, b>> = <<c, d>> => a = c /\ b = d
    /\ \A a, b : <<a>> = <<b>> => a = b
  OBVIOUS

----------------------------------------------------------------------------
(* Pins and packages *)

LEMMA NewerPin ==
    ASSUME NEW n \in Nat, NEW p \in Pins(n), NEW q \in Pins(n)
    PROVE  Newer(p, q) \in Pins(n) /\ Newer(p, q).at >= p.at /\ Newer(p, q).at >= q.at
  BY DEF Newer, Pins

LEMMA NoPinIsOldest == \A n \in Nat : NoPin \in Pins(n) /\ NoPin.at = 0
  BY DEF NoPin, Pins

LEMMA DefaultsAreWhole ==
    ASSUME NEW n \in Nat
    PROVE  /\ Defaults \in Whole(n) /\ Defaults.vals \in [Fields -> 0 .. n]
           /\ Defaults.pin = NoPin /\ \A f \in Fields : Defaults.vals[f] = 0
<1>1. 0 \in 0 .. n
  OBVIOUS
<1>2. Defaults.vals = [f \in Fields |-> 0] /\ Defaults.pin = NoPin
  BY DEF Defaults
<1>3. [f \in Fields |-> 0] \in [Fields -> 0 .. n]
  BY <1>1
<1> QED
  BY <1>2, <1>3, NoPinIsOldest DEF Defaults, Whole

LEMMA WholeFields ==
    ASSUME NEW n \in Nat, NEW p \in Whole(n)
    PROVE  /\ p.vals \in [Fields -> 0 .. n] /\ DOMAIN p.vals = Fields
           /\ p.pin \in Pins(n) /\ p.pin.at \in 0 .. n
           /\ p.favorites \in BOOLEAN /\ p.bad \in BOOLEAN
  BY DEF Whole, Pins

LEMMA WholeIsPackage == ASSUME NEW n \in Nat PROVE Whole(n) \subseteq Package(n)
<1>1. [Fields -> 0 .. n] \in {[S -> 0 .. n] : S \in SUBSET Fields}
  OBVIOUS
<1>2. [Fields -> 0 .. n] \subseteq Parts(n)
  BY <1>1 DEF Parts
<1> QED
  BY <1>2 DEF Whole, Package

LEMMA PartFields ==
    ASSUME NEW n \in Nat, NEW p \in Package(n)
    PROVE  /\ DOMAIN p.vals \subseteq Fields /\ \A f \in DOMAIN p.vals : p.vals[f] \in 0 .. n
           /\ p.vals = [f \in DOMAIN p.vals |-> p.vals[f]]
           /\ p.pin \in Pins(n) /\ p.pin.at \in 0 .. n
           /\ p.favorites \in BOOLEAN /\ p.bad \in BOOLEAN
<1>1. PICK S \in SUBSET Fields : p.vals \in [S -> 0 .. n]
  BY DEF Package, Parts
<1>2. p.pin \in Pins(n) /\ p.favorites \in BOOLEAN /\ p.bad \in BOOLEAN
  BY DEF Package
<1> QED
  BY <1>1, <1>2 DEF Pins

LEMMA PartTyped ==
    ASSUME NEW n \in Nat, NEW S \in SUBSET Fields, NEW v \in [S -> 0 .. n],
           NEW pin \in Pins(n), NEW x \in BOOLEAN, NEW y \in BOOLEAN
    PROVE  [vals |-> v, pin |-> pin, favorites |-> x, bad |-> y] \in Package(n)
<1>1. v \in Parts(n)
  BY DEF Parts
<1> QED
  BY <1>1 DEF Package

\* Merging fills in what is missing.
LEMMA MergeFields ==
    ASSUME NEW n \in Nat, NEW p \in Package(n), NEW q \in Whole(n)
    PROVE  /\ Merge(p, q) \in Whole(n)
           /\ \A f \in Fields : Merge(p, q).vals[f] = IF f \in DOMAIN p.vals THEN p.vals[f] ELSE q.vals[f]
           /\ Merge(p, q).pin = Newer(p.pin, q.pin)
           /\ Merge(p, q).pin.at >= p.pin.at /\ Merge(p, q).pin.at >= q.pin.at
           /\ Merge(p, q).favorites = p.favorites /\ Merge(p, q).bad = p.bad
<1> DEFINE vals == [f \in Fields |-> IF f \in DOMAIN p.vals THEN p.vals[f] ELSE q.vals[f]]
           m    == [vals |-> vals, pin |-> Newer(p.pin, q.pin), favorites |-> p.favorites, bad |-> p.bad]
<1>1. /\ DOMAIN p.vals \subseteq Fields /\ \A f \in DOMAIN p.vals : p.vals[f] \in 0 .. n
      /\ p.pin \in Pins(n) /\ p.favorites \in BOOLEAN /\ p.bad \in BOOLEAN
  BY PartFields
<1>2. q.vals \in [Fields -> 0 .. n] /\ DOMAIN q.vals = Fields /\ q.pin \in Pins(n)
  BY WholeFields
<1>4. p = [vals |-> p.vals, pin |-> p.pin, favorites |-> p.favorites, bad |-> p.bad]
  BY DEF Package
<1>5. Merge(p, q) = [p EXCEPT !.vals = vals, !.pin = Newer(p.pin, q.pin)]
  BY DEF Merge
<1>6. Merge(p, q) = m
  BY <1>4, <1>5
<1>7. vals \in [Fields -> 0 .. n]
  BY <1>1, <1>2
<1>8. Newer(p.pin, q.pin) \in Pins(n) /\ Newer(p.pin, q.pin).at >= p.pin.at
      /\ Newer(p.pin, q.pin).at >= q.pin.at
  BY <1>1, <1>2, NewerPin
<1>9. \A f \in Fields : vals[f] = IF f \in DOMAIN p.vals THEN p.vals[f] ELSE q.vals[f]
  OBVIOUS
<1> HIDE DEF vals
<1> QED
  BY <1>1, <1>6, <1>7, <1>8, <1>9 DEF Whole

\* Whole packages are equal if their fields are.
LEMMA WholeEqual ==
    ASSUME NEW n \in Nat, NEW p \in Whole(n), NEW q \in Whole(n),
           \A f \in Fields : p.vals[f] = q.vals[f], p.pin = q.pin,
           p.favorites = q.favorites, p.bad = q.bad
    PROVE  p = q
<1>1. p.vals \in [Fields -> 0 .. n] /\ q.vals \in [Fields -> 0 .. n]
  BY WholeFields
<1>2. p.vals = q.vals
  BY <1>1
<1> QED
  BY <1>2 DEF Whole

LEMMA NewerThanNone ==
    ASSUME NEW n \in Nat, NEW p \in Pins(n)
    PROVE  Newer(p, NoPin) = p
  BY DEF Newer, NoPin, Pins

LEMMA MergeWhole ==
    ASSUME NEW n \in Nat, NEW p \in Whole(n), NEW q \in Whole(n), Newer(p.pin, q.pin) = p.pin
    PROVE  Merge(p, q) = p
<1>1. p \in Package(n)
  BY WholeIsPackage
<1>2. DOMAIN p.vals = Fields
  BY WholeFields
<1>3. /\ Merge(p, q) \in Whole(n) /\ \A f \in Fields : Merge(p, q).vals[f] = p.vals[f]
      /\ Merge(p, q).pin = p.pin /\ Merge(p, q).favorites = p.favorites /\ Merge(p, q).bad = p.bad
  BY <1>1, <1>2, MergeFields
<1> QED
  BY <1>3, WholeEqual

LEMMA NormalFields ==
    ASSUME NEW n \in Nat, NEW p \in Whole(n)
    PROVE  /\ Normal(p) \in Whole(n) /\ Normal(p).vals = p.vals /\ Normal(p).pin = p.pin
           /\ Normal(p).favorites = p.favorites /\ Normal(p).bad = FALSE
           /\ ~p.bad => Normal(p) = p
<1>1. /\ Normal(p) \in Whole(n) /\ Normal(p).vals = p.vals /\ Normal(p).pin = p.pin
      /\ Normal(p).favorites = p.favorites /\ Normal(p).bad = FALSE
  BY DEF Normal, Whole
<1>2. ASSUME ~p.bad PROVE Normal(p) = p
  BY <1>1, <1>2, WholeEqual, WholeFields
<1> QED
  BY <1>1, <1>2

LEMMA RebasedFields ==
    ASSUME NEW n \in Nat, package \in Whole(n), NEW b \in Whole(n)
    PROVE  /\ Rebased(b) \in Whole(n) /\ Rebased(b).vals = b.vals
           /\ Rebased(b).pin = Newer(package.pin, b.pin) /\ Rebased(b).pin.at >= package.pin.at
<1>1. package.pin \in Pins(n) /\ b.pin \in Pins(n)
  BY WholeFields
<1>2. Newer(package.pin, b.pin) \in Pins(n) /\ Newer(package.pin, b.pin).at >= package.pin.at
  BY <1>1, NewerPin
<1> QED
  BY <1>2 DEF Rebased, Whole

LEMMA RepinnedFields ==
    ASSUME NEW n \in Nat, NEW p \in Whole(n), NEW pin \in Pins(n)
    PROVE  /\ [p EXCEPT !.pin = pin] \in Whole(n) /\ [p EXCEPT !.pin = pin].vals = p.vals
           /\ [p EXCEPT !.pin = pin].pin = pin
  BY DEF Whole

\* What is typed up to a time is typed up to a later one.
LEMMA Later ==
    ASSUME NEW n \in Nat, NEW m \in Nat, n <= m
    PROVE  /\ Pins(n) \subseteq Pins(m) /\ Package(n) \subseteq Package(m) /\ Whole(n) \subseteq Whole(m)
           /\ Files(n) \subseteq Files(m) /\ Jobs(n) \subseteq Jobs(m)
           /\ Seq(Jobs(n)) \subseteq Seq(Jobs(m))
           /\ [Fields -> 0 .. n] \subseteq [Fields -> 0 .. m] /\ 0 .. n \subseteq 0 .. m
<1>1. 0 .. n \subseteq 0 .. m
  OBVIOUS
<1>2. Pins(n) \subseteq Pins(m)
  BY <1>1 DEF Pins
<1>3. [Fields -> 0 .. n] \subseteq [Fields -> 0 .. m]
  BY <1>1
<1>4. Whole(n) \subseteq Whole(m)
  BY <1>2, <1>3 DEF Whole
<1>5. Parts(n) \subseteq Parts(m)
  <2> SUFFICES ASSUME NEW v \in Parts(n) PROVE v \in Parts(m)
    OBVIOUS
  <2>1. PICK S \in SUBSET Fields : v \in [S -> 0 .. n]
    BY DEF Parts
  <2>2. v \in [S -> 0 .. m]
    BY <2>1, <1>1
  <2> QED
    BY <2>2 DEF Parts
<1>6. Package(n) \subseteq Package(m)
  BY <1>2, <1>5 DEF Package
<1>7. Files(n) \subseteq Files(m)
  BY <1>1, <1>6 DEF Files
<1>8. Jobs(n) \subseteq Jobs(m)
  BY <1>1 DEF Jobs
<1>9. Seq(Jobs(n)) \subseteq Seq(Jobs(m))
  BY <1>8, SeqMonotonic
<1> QED
  BY <1>1, <1>2, <1>3, <1>4, <1>6, <1>7, <1>8, <1>9

----------------------------------------------------------------------------
(* The queues *)

LEMMA SettingsTurn ==
    ASSUME QueueInv, store # <<>>, Head(store) = "settings"
    PROVE  /\ Live /\ busy /\ jobs # <<>>
           /\ IF pinned = 0 THEN Tail(store) = <<>> ELSE Tail(store) = <<"pin">>
<1>1. store \in {<<"settings">>, <<"settings", "pin">>}
  BY TurnsTaken DEF QueueInv, Turns
<1>2. busy /\ jobs # <<>>
  BY <1>1, TurnsTaken DEF QueueInv, Turns
<1>3. Live
  BY <1>2 DEF QueueInv, PhaseInv
<1>4. IF pinned = 0 THEN store = <<"settings">> ELSE store = <<"settings", "pin">>
  BY <1>1, TurnsTaken DEF QueueInv, Turns
<1>5. CASE pinned = 0
  BY <1>2, <1>3, <1>4, <1>5, TurnsTaken
<1>6. CASE pinned # 0
  <2>1. store = <<"settings", "pin">>
    BY <1>4, <1>6
  <2>2. Tail(store) = <<"pin">>
    BY <2>1, TurnsTaken
  <2> QED
    BY <1>2, <1>3, <1>6, <2>2
<1> QED
  BY <1>5, <1>6

LEMMA PinTurn ==
    ASSUME QueueInv, store # <<>>, Head(store) = "pin"
    PROVE  /\ Live /\ pinned # 0 /\ pins # <<>> /\ phase = "running"
           /\ Tail(store) = IF busy THEN <<"settings">> ELSE <<>>
<1>1. store \in {<<"pin">>, <<"pin", "settings">>}
  BY TurnsTaken DEF QueueInv, Turns
<1>2. pinned # 0 /\ pins # <<>>
  BY <1>1, TurnsTaken DEF QueueInv, Turns
<1>3. Live /\ phase = "running"
  BY <1>2 DEF QueueInv, PhaseInv, Live
<1>4. store = IF busy THEN <<"pin", "settings">> ELSE <<"pin">>
  BY <1>1, TurnsTaken DEF QueueInv, Turns
<1> QED
  BY <1>2, <1>3, <1>4, TurnsTaken

LEMMA NoTurns ==
    ASSUME QueueInv, ~Live
    PROVE  store = <<>> /\ jobs = <<>> /\ pins = <<>> /\ ~busy /\ pinned = 0
<1>1. jobs = <<>> /\ pins = <<>> /\ ~busy /\ pinned = 0
  BY DEF QueueInv, PhaseInv
<1> QED
  BY <1>1, TurnsTaken DEF QueueInv, Turns

\* The positions of the steps.
LEMMA WriteTurn ==
    ASSUME Typed, QueueInv, step = "write" PROVE Live /\ store # <<>>
<1>1. Live
  BY DEF Typed, QueuesTyped, QueueInv, PhaseInv, Live
<1> QED
  BY <1>1 DEF QueueInv, StepInv

LEMMA TurnSettings ==
    ASSUME QueueInv, ~busy
    PROVE  Append(store, "settings") = IF pinned = 0 THEN <<"settings">> ELSE <<"pin", "settings">>
<1>1. store = IF pinned = 0 THEN <<>> ELSE <<"pin">>
  BY TurnsTaken DEF QueueInv, Turns
<1> QED
  BY <1>1, TurnsAppended

LEMMA TurnPin ==
    ASSUME QueueInv, pinned = 0
    PROVE  Append(store, "pin") = IF busy THEN <<"settings", "pin">> ELSE <<"pin">>
<1>1. store = IF busy THEN <<"settings">> ELSE <<>>
  BY TurnsTaken DEF QueueInv, Turns
<1> QED
  BY <1>1, TurnsAppended

LEMMA OffQueue == ASSUME Off PROVE QueueInv'
<1>1. /\ phase' = "off" /\ jobs' = <<>> /\ busy' = FALSE /\ pins' = <<>> /\ pinned' = 0
      /\ store' = <<>> /\ step' = "idle"
  BY DEF Off
<1>2. Turns'
  BY <1>1, TurnsTaken DEF Turns
<1>3. PhaseInv' /\ StepInv'
  BY <1>1 DEF PhaseInv, StepInv, Live
<1>4. ReloadsAlone'
  BY <1>1 DEF ReloadsAlone
<1> QED
  BY <1>2, <1>3, <1>4 DEF QueueInv

LEMMA HydrateQueue ==
    ASSUME QueueInv, ~Live, NEW p, Hydrate(p), step' = "idle"
    PROVE  QueueInv'
<1>1. store = <<>> /\ pins = <<>> /\ ~busy /\ pinned = 0
  BY NoTurns
<1>2. /\ phase' = "saving" /\ jobs' = <<Save("initial")>> /\ busy' = busy /\ pins' = pins
      /\ pinned' = pinned /\ store' = store
  BY DEF Hydrate
<1>3. Turns'
  BY <1>1, <1>2, TurnsTaken DEF Turns
<1>4. PhaseInv' /\ StepInv'
  BY <1>1, <1>2 DEF PhaseInv, StepInv, Live
<1>5. jobs'[1].kind = "initial" /\ DOMAIN jobs' = {1}
  BY <1>2 DEF Save, Job
<1>6. ReloadsAlone'
  BY <1>5 DEF ReloadsAlone
<1> QED
  BY <1>3, <1>4, <1>6 DEF QueueInv

LEMMA QueueFrame ==
    ASSUME QueueInv, UNCHANGED <<phase, jobs, busy, pins, pinned, store, step>>
    PROVE  QueueInv'
  BY DEF QueueInv, Turns, PhaseInv, ReloadsAlone, StepInv, Live, AtHead, Reloading

\* What a queue has left, or gets.
LEMMA JobsTail ==
    ASSUME Typed, QueueInv, jobs # <<>>, jobs' = Tail(jobs)
    PROVE  /\ ReloadsAlone'
           /\ \A i \in DOMAIN jobs' : jobs'[i].kind # "seed"
           /\ phase = "running" => \A i \in DOMAIN jobs' : jobs'[i].kind # "initial"
           /\ phase = "saving" => jobs' = <<>>
<1>1. jobs \in Seq(Jobs(clock))
  BY DEF Typed, QueuesTyped, HistoryTyped
<1>2. \A i \in DOMAIN jobs' : i \in Nat \ {0} /\ i + 1 \in DOMAIN jobs /\ jobs'[i] = jobs[i + 1]
  BY <1>1, QueueTail
<1>3. ReloadsAlone
  BY DEF QueueInv
<1>4. \A i \in DOMAIN jobs' : jobs'[i].kind # "seed"
  BY <1>2, <1>3 DEF ReloadsAlone
<1>5. \A i, j \in DOMAIN jobs' :
          {jobs'[i].kind, jobs'[j].kind} \subseteq {"reload", "seed"} => i = j
  <2> SUFFICES ASSUME NEW i \in DOMAIN jobs', NEW j \in DOMAIN jobs',
                      {jobs'[i].kind, jobs'[j].kind} \subseteq {"reload", "seed"}
               PROVE  i = j
    OBVIOUS
  <2>1. i + 1 \in DOMAIN jobs /\ j + 1 \in DOMAIN jobs /\ i \in Nat /\ j \in Nat
    BY <1>2
  <2>2. jobs'[i] = jobs[i + 1] /\ jobs'[j] = jobs[j + 1]
    BY <1>2
  <2>3. i + 1 = j + 1
    BY <1>3, <2>1, <2>2 DEF ReloadsAlone
  <2> QED
    BY <2>1, <2>3
<1>6. phase = "running" => \A i \in DOMAIN jobs' : jobs'[i].kind # "initial"
  BY <1>2 DEF QueueInv, PhaseInv
<1>7. phase = "saving" => jobs' = <<>>
  BY TurnsTaken DEF QueueInv, PhaseInv
<1> QED
  BY <1>4, <1>5, <1>6, <1>7 DEF ReloadsAlone

LEMMA EndSaveQueue ==
    ASSUME Typed, QueueInv, store # <<>>, Head(store) = "settings", Saving,
           NEW ok \in BOOLEAN, NEW p, EndSave(ok, p)
    PROVE  QueueInv'
<1>1. CASE Off
  BY <1>1, OffQueue
<1>2. CASE ~(Head(jobs).kind = "initial" /\ ~ok)
  <2>1. /\ jobs' = Tail(jobs) /\ busy' = FALSE /\ phase' = "running" /\ store' = Tail(store)
        /\ step' = "idle" /\ pins' = pins /\ pinned' = pinned
    BY <1>2 DEF EndSave, Release
  <2>2. Live /\ IF pinned = 0 THEN Tail(store) = <<>> ELSE Tail(store) = <<"pin">>
    BY SettingsTurn
  <2>3. /\ ReloadsAlone'
        /\ phase = "running" => \A i \in DOMAIN jobs' : jobs'[i].kind # "initial"
        /\ phase = "saving" => jobs' = <<>>
    BY <2>1, JobsTail DEF Saving
  <2>4. pinned # 0 => pins # <<>>
    BY DEF QueueInv, Turns
  <2>5. Turns'
    BY <2>1, <2>2, <2>4, TurnsTaken DEF Turns
  <2>6. \A i \in DOMAIN jobs' : jobs'[i].kind # "initial"
    BY <2>2, <2>3 DEF Live
  <2>7. PhaseInv'
    BY <2>1, <2>6 DEF PhaseInv, Live
  <2>8. StepInv'
    BY <2>1 DEF StepInv
  <2> QED
    BY <2>3, <2>5, <2>7, <2>8 DEF QueueInv
<1> QED
  BY <1>1, <1>2 DEF EndSave

LEMMA EndPinQueue ==
    ASSUME Typed, QueueInv, store # <<>>, Head(store) = "pin",
           NEW ok \in BOOLEAN, NEW p, EndPin(ok, p), UNCHANGED <<phase, jobs, busy>>
    PROVE  QueueInv'
<1>1. pinned' = 0 /\ pins' = Tail(pins) /\ store' = Tail(store) /\ step' = "idle"
  BY DEF EndPin, Release
<1>2. phase = "running" /\ Tail(store) = IF busy THEN <<"settings">> ELSE <<>>
  BY PinTurn
<1>3. busy \in BOOLEAN /\ (busy => jobs # <<>>)
  BY DEF Typed, QueuesTyped, QueueInv, Turns
<1>4. Turns'
  BY <1>1, <1>2, <1>3, TurnsTaken DEF Turns
<1>5. PhaseInv' /\ ReloadsAlone'
  BY <1>1, <1>2 DEF QueueInv, PhaseInv, ReloadsAlone, Live
<1>6. StepInv'
  BY <1>1 DEF StepInv
<1> QED
  BY <1>4, <1>5, <1>6 DEF QueueInv

LEMMA ReloadIsRunning ==
    ASSUME Typed, QueueInv, Reloading, Live PROVE phase = "running"
<1>1. ASSUME phase = "saving" PROVE FALSE
  <2>1. jobs = <<Save("initial")>>
    BY <1>1 DEF QueueInv, PhaseInv
  <2>2. Head(jobs) = Save("initial")
    BY <2>1, TurnsTaken
  <2> QED
    BY <2>2 DEF Reloading, Save, Job
<1> QED
  BY <1>1 DEF Live

LEMMA SaveTyped ==
    ASSUME NEW n \in Nat, NEW kind \in {"initial", "save", "update", "reload", "seed"}
    PROVE  Save(kind) \in Jobs(n) /\ Save(kind).kind = kind
  BY DEF Save, Job, Jobs

\* The jobs after a reload, with or without the save of the favorites before them.
LEMMA AfterReload ==
    ASSUME Typed, QueueInv, Reloading, phase = "running",
           NEW rest \in {<<>>, <<Save("seed")>>}, jobs' = rest \o Tail(jobs)
    PROVE  /\ ReloadsAlone'
           /\ \A i \in DOMAIN jobs' : jobs'[i].kind # "initial"
           /\ jobs' \in Seq(Jobs(clock))
           /\ \A i \in DOMAIN jobs' : jobs'[i].kind = "update" => jobs'[i].field \in Fields
<1>1. jobs \in Seq(Jobs(clock)) /\ jobs # <<>> /\ clock \in Nat
  BY DEF Typed, QueuesTyped, HistoryTyped, Reloading
<1>2. Save("seed") \in Jobs(clock) /\ Save("seed").kind = "seed"
  BY <1>1, SaveTyped
<1>3. \A i \in DOMAIN jobs : jobs[i].kind = "update" => jobs[i].field \in Fields
  BY DEF Typed, QueuesTyped, HistoryTyped
<1>4. CASE rest = <<>>
  <2>1. jobs' = Tail(jobs)
    BY <1>1, <1>2, <1>4, QueueReplace
  <2>2. /\ Tail(jobs) \in Seq(Jobs(clock))
        /\ \A i \in DOMAIN Tail(jobs) : i + 1 \in DOMAIN jobs /\ Tail(jobs)[i] = jobs[i + 1]
    BY <1>1, QueueTail
  <2>3. \A i \in DOMAIN jobs' : jobs'[i].kind = "update" => jobs'[i].field \in Fields
    BY <1>3, <2>1, <2>2
  <2> QED
    BY <1>1, <2>1, <2>2, <2>3, JobsTail
<1>5. CASE rest = <<Save("seed")>>
  <2>1. /\ jobs' \in Seq(Jobs(clock)) /\ DOMAIN jobs' = DOMAIN jobs /\ jobs'[1] = Save("seed")
        /\ \A i \in DOMAIN jobs : i \in Nat \ {0} /\ (i > 1 => jobs'[i] = jobs[i])
    BY <1>1, <1>2, <1>5, QueueReplace
  <2>2. Head(jobs) = jobs[1] /\ 1 \in DOMAIN jobs /\ jobs[1].kind = "reload"
    BY <1>1, QueueTail DEF Reloading
  <2>3. \A i \in DOMAIN jobs : i = 1 \/ i > 1
    BY <2>1
  <2>4. \A i \in DOMAIN jobs : i > 1 => jobs[i].kind \notin {"reload", "seed", "initial"}
    BY <2>2 DEF QueueInv, ReloadsAlone, PhaseInv
  <2>5. \A i \in DOMAIN jobs' : i > 1 => jobs'[i].kind \notin {"reload", "seed", "initial"}
    BY <2>1, <2>4
  <2>6. \A i \in DOMAIN jobs' : jobs'[i].kind \in {"reload", "seed", "initial"} => i = 1
    BY <2>1, <2>3, <2>5
  <2>7. ReloadsAlone'
    BY <2>6 DEF ReloadsAlone
  <2>8. \A i \in DOMAIN jobs' : jobs'[i].kind # "initial" /\ (jobs'[i].kind = "update" => jobs'[i].field \in Fields)
    BY <1>2, <1>3, <2>1, <2>3, <2>5
  <2> QED
    BY <2>1, <2>7, <2>8
<1> QED
  BY <1>4, <1>5

LEMMA EndReloadQueue ==
    ASSUME Typed, QueueInv, AtHead, NEW rest \in {<<>>, <<Save("seed")>>}, EndReload(rest)
    PROVE  QueueInv'
<1>1. /\ jobs' = rest \o Tail(jobs) /\ busy' = FALSE /\ store' = Tail(store) /\ step' = "idle"
      /\ phase' = phase /\ pins' = pins /\ pinned' = pinned
  BY DEF EndReload, Left
<1>2. Live /\ IF pinned = 0 THEN Tail(store) = <<>> ELSE Tail(store) = <<"pin">>
  BY SettingsTurn DEF AtHead
<1>3. phase = "running" /\ Reloading
  BY <1>2, ReloadIsRunning DEF AtHead
<1>4. ReloadsAlone' /\ \A i \in DOMAIN jobs' : jobs'[i].kind # "initial"
  BY <1>1, <1>3, AfterReload
<1>5. pinned # 0 => pins # <<>>
  BY DEF QueueInv, Turns
<1>6. Turns'
  BY <1>1, <1>2, <1>5, TurnsTaken DEF Turns
<1>7. PhaseInv'
  BY <1>1, <1>3, <1>4 DEF PhaseInv, Live
<1>8. StepInv'
  BY <1>1 DEF StepInv
<1> QED
  BY <1>4, <1>6, <1>7, <1>8 DEF QueueInv

LEMMA SeedIs == ASSUME NEW p PROVE Seed(p) \in {<<>>, <<Save("seed")>>}
  BY DEF Seed

\* A job has taken its turn.
LEMMA TurnTaken ==
    ASSUME Typed, QueueInv, Live, jobs # <<>>, ~busy, busy' = TRUE,
           store' = Append(store, "settings"), UNCHANGED <<phase, jobs, pins, pinned, step>>
    PROVE  QueueInv'
<1>1. Append(store, "settings") = IF pinned = 0 THEN <<"settings">> ELSE <<"pin", "settings">>
  BY TurnSettings
<1>2. pinned # 0 => pins # <<>>
  BY DEF QueueInv, Turns
<1>3. Turns'
  BY <1>1, <1>2, TurnsTaken DEF Turns
<1>4. PhaseInv' /\ ReloadsAlone'
  BY DEF QueueInv, PhaseInv, ReloadsAlone, Live
<1>5. step \notin {"backup", "staged", "preserve", "normalise"}
  <2>1. step # "normalise" /\ (step \in {"backup", "staged", "preserve"} => AtHead)
    BY DEF QueueInv, StepInv
  <2>2. ~AtHead
    BY SettingsTurn DEF AtHead
  <2> QED
    BY <2>1, <2>2
<1>6. store' # <<>>
  BY <1>1, TurnsTaken
<1>7. StepInv'
  BY <1>5, <1>6 DEF StepInv
<1> QED
  BY <1>3, <1>4, <1>7 DEF QueueInv

LEMMA BeginSaveQueue == ASSUME Typed, QueueInv, BeginSave PROVE QueueInv'
<1>1. Live /\ jobs # <<>> /\ ~busy /\ UNCHANGED <<pins, pinned, step>>
  BY DEF BeginSave, Saving, Live
<1>2. CASE paused = "no"
  BY <1>1, <1>2, TurnTaken DEF BeginSave
<1>3. CASE paused # "no"
  <2>1. jobs' = Tail(jobs) /\ phase' = "running" /\ UNCHANGED <<busy, store>>
    BY <1>3 DEF BeginSave
  <2>2. /\ ReloadsAlone'
        /\ phase = "running" => \A i \in DOMAIN jobs' : jobs'[i].kind # "initial"
        /\ phase = "saving" => jobs' = <<>>
    BY <1>1, <2>1, JobsTail
  <2>3. \A i \in DOMAIN jobs' : jobs'[i].kind # "initial"
    BY <1>1, <2>2 DEF Live
  <2>4. Turns'
    BY <1>1, <2>1 DEF QueueInv, Turns
  <2>5. PhaseInv'
    BY <2>1, <2>3 DEF PhaseInv, Live
  <2>6. ~AtHead
    BY <1>1, SettingsTurn DEF AtHead
  <2>7. StepInv'
    BY <1>1, <2>1, <2>6 DEF QueueInv, StepInv
  <2> QED
    BY <2>2, <2>4, <2>5, <2>7 DEF QueueInv
<1> QED
  BY <1>2, <1>3

LEMMA BeginPinQueue == ASSUME Typed, QueueInv, BeginPin PROVE QueueInv'
<1>1. /\ phase = "running" /\ Live /\ pins # <<>> /\ pinned = 0 /\ UNCHANGED <<phase, jobs, busy, step>>
      /\ clock' = clock + 1 /\ clock \in Nat /\ busy \in BOOLEAN
  BY DEF BeginPin, Live, Typed, QueuesTyped, HistoryTyped
<1>2. PhaseInv' /\ ReloadsAlone'
  BY <1>1 DEF QueueInv, PhaseInv, ReloadsAlone, Live
<1>3. busy => jobs # <<>>
  BY DEF QueueInv, Turns
<1>4. CASE paused = "no"
  <2>1. pinned' = clock + 1 /\ store' = Append(store, "pin") /\ pins' = pins
    BY <1>1, <1>4 DEF BeginPin
  <2>2. store' = IF busy THEN <<"settings", "pin">> ELSE <<"pin">>
    BY <1>1, <2>1, TurnPin
  <2>3. pinned' # 0
    BY <1>1, <2>1
  <2>4. Turns'
    <3>1. CASE busy
      <4>1. store' = <<"settings", "pin">>
        BY <2>2, <3>1
      <4>2. store' \notin {<<>>, <<"pin">>, <<"settings">>}
        BY <4>1, TurnsTaken
      <4> QED
        BY <1>1, <1>3, <2>1, <2>3, <3>1, <4>1, <4>2 DEF Turns
    <3>2. CASE ~busy
      <4>1. store' = <<"pin">>
        BY <2>2, <3>2
      <4>2. store' \notin {<<>>, <<"settings">>}
        BY <4>1, TurnsTaken
      <4> QED
        BY <1>1, <1>3, <2>1, <2>3, <3>2, <4>1, <4>2 DEF Turns
    <3> QED
      BY <3>1, <3>2
  <2>5. StepInv /\ (step \in {"backup", "staged", "preserve"} => busy)
    BY <1>1, SettingsTurn DEF QueueInv, StepInv, AtHead
  <2>6. step \in {"backup", "staged", "preserve"} => Head(store') = "settings" /\ AtHead
    BY <1>1, <2>2, <2>5, TurnsTaken DEF StepInv
  <2>7. store' # <<>>
    BY <2>2, TurnsTaken
  <2>8. StepInv'
    BY <1>1, <2>5, <2>6, <2>7 DEF StepInv, AtHead, Reloading
  <2> QED
    BY <1>2, <2>4, <2>8 DEF QueueInv
<1>5. CASE paused # "no"
  <2>1. UNCHANGED <<pinned, store>>
    BY <1>5 DEF BeginPin
  <2>2. Turns' /\ StepInv'
    BY <1>1, <2>1 DEF QueueInv, Turns, StepInv, AtHead, Reloading, Live
  <2> QED
    BY <1>2, <2>2 DEF QueueInv
<1> QED
  BY <1>4, <1>5

LEMMA JobAppended ==
    ASSUME Typed, QueueInv, phase = "running", NEW n \in Nat, clock <= n, NEW job \in Jobs(n),
           job.kind \notin {"initial", "seed"}, job.kind = "update" => job.field \in Fields,
           \/ job.kind # "reload"
           \/ \A i \in DOMAIN jobs : jobs[i].kind \notin {"reload", "seed"},
           jobs' = Append(jobs, job), UNCHANGED <<phase, busy, pinned, store, step>>,
           pinned # 0 => pins' # <<>>
    PROVE  /\ QueueInv' /\ jobs' \in Seq(Jobs(n))
           /\ \A i \in DOMAIN jobs' : jobs'[i].kind = "update" => jobs'[i].field \in Fields
<1>1. jobs \in Seq(Jobs(n))
  BY Later DEF Typed, QueuesTyped, HistoryTyped
<1>2. /\ jobs' \in Seq(Jobs(n)) /\ jobs' # <<>>
      /\ \A i \in DOMAIN jobs' : (i \in DOMAIN jobs /\ jobs'[i] = jobs[i])
                                 \/ (i = Len(jobs) + 1 /\ jobs'[i] = job)
      /\ jobs # <<>> => Head(jobs') = Head(jobs)
      /\ \A i \in DOMAIN jobs : jobs'[i] = jobs[i]
  BY <1>1, QueueAppend
<1>3. \A i \in DOMAIN jobs' : jobs'[i].kind = "update" => jobs'[i].field \in Fields
  BY <1>2 DEF Typed, QueuesTyped, HistoryTyped
<1>4. ReloadsAlone'
  <2>1. ReloadsAlone
    BY DEF QueueInv
  <2>2. \A i \in DOMAIN jobs' : jobs'[i].kind = "seed" => i = 1
    BY <1>2, <2>1 DEF ReloadsAlone
  <2>3. ASSUME NEW i \in DOMAIN jobs', NEW j \in DOMAIN jobs',
               {jobs'[i].kind, jobs'[j].kind} \subseteq {"reload", "seed"}
        PROVE  i = j
    <3>1. CASE job.kind # "reload"
      <4>1. i \in DOMAIN jobs /\ j \in DOMAIN jobs /\ jobs'[i] = jobs[i] /\ jobs'[j] = jobs[j]
        BY <1>2, <2>3, <3>1
      <4> QED
        BY <2>1, <2>3, <4>1 DEF ReloadsAlone
    <3>2. CASE \A k \in DOMAIN jobs : jobs[k].kind \notin {"reload", "seed"}
      <4>1. i = Len(jobs) + 1 /\ j = Len(jobs) + 1
        BY <1>2, <2>3, <3>2
      <4> QED
        BY <4>1
    <3> QED
      BY <3>1, <3>2
  <2> QED
    BY <2>2, <2>3 DEF ReloadsAlone
<1>5. Turns'
  BY <1>2 DEF QueueInv, Turns
<1>6. PhaseInv'
  BY <1>2 DEF QueueInv, PhaseInv, Live
<1>7. StepInv'
  <2>1. StepInv /\ Live
    BY DEF QueueInv, Live
  <2>2. AtHead => AtHead'
    BY <1>2 DEF AtHead, Reloading
  <2> QED
    BY <2>1, <2>2 DEF StepInv
<1> QED
  BY <1>2, <1>3, <1>4, <1>5, <1>6, <1>7 DEF QueueInv

LEMMA QueueInit == Init => QueueInv
<1>1. ASSUME Init PROVE QueueInv
  <2>1. /\ phase = "off" /\ jobs = <<>> /\ busy = FALSE /\ pins = <<>> /\ pinned = 0
        /\ store = <<>> /\ step = "idle"
    BY <1>1 DEF Init
  <2>2. Turns
    BY <2>1, TurnsTaken DEF Turns
  <2>3. PhaseInv /\ StepInv /\ ReloadsAlone
    BY <2>1 DEF PhaseInv, StepInv, Live, ReloadsAlone
  <2> QED
    BY <2>2, <2>3 DEF QueueInv
<1> QED
  BY <1>1

\* How a startup reads the file.
LEMMA StartupReads ==
    ASSUME Typed, NEW ok \in BOOLEAN, ReadStartup(ok)
    PROVE  /\ phase = "reading" /\ ~Live /\ step = "idle" /\ UNCHANGED <<disk, backups, next, clock>>
           /\ \/ /\ Absent /\ Hydrate(Defaults) /\ foreign' = FALSE /\ unread' = FALSE
                 /\ UNCHANGED <<paused, step, loaded, acked, held>>
              \/ /\ Readable /\ Hydrate(Merge(disk.pkg, Defaults)) /\ foreign' = FALSE
                 /\ unread' = FALSE /\ UNCHANGED <<paused, step, loaded, acked, held>>
              \/ /\ Readable /\ loaded' = disk /\ step' = "backup" /\ unread' = TRUE /\ foreign' = FALSE
                 /\ UNCHANGED <<phase, settings, package, cache, paused, jobs, busy, snapshot,
                                previous, pins, pinned, store, unsaved, acked, held>>
              \/ /\ Unreadable /\ Hydrate(Defaults) /\ foreign' = TRUE /\ UNCHANGED <<step, loaded>>
                 /\ acked' = Defaults.vals /\ held' = 0
<1>1. phase = "reading" /\ step = "idle" /\ UNCHANGED <<disk, backups, next, clock>>
  BY DEF ReadStartup
<1>2. ~Live
  BY <1>1 DEF Live
<1>3. disk.form \in {"package", "other", "malformed", "missing"} /\ disk.pkg.bad \in BOOLEAN
  BY PartFields DEF Typed, FilesTyped, HistoryTyped, Files
<1>4. CASE ok /\ Absent
  BY <1>1, <1>2, <1>4 DEF ReadStartup, Absent
<1>5. CASE ok /\ Readable /\ ~disk.pkg.bad
  BY <1>1, <1>2, <1>5 DEF ReadStartup, Readable, Absent
<1>6. CASE ok /\ Readable /\ disk.pkg.bad
  BY <1>1, <1>2, <1>6 DEF ReadStartup, Readable, Absent
<1>7. CASE ~ok \/ disk.form = "malformed"
  BY <1>1, <1>2, <1>7 DEF ReadStartup, Readable, Absent
<1> QED
  BY <1>3, <1>4, <1>5, <1>6, <1>7 DEF Readable, Absent

\* What the steps of a reload leave alone.
LEMMA StayQueue ==
    ASSUME QueueInv, AtHead, Stay, step' \in {"backup", "staged", "preserve", "write"}
    PROVE  QueueInv'
<1>1. UNCHANGED <<phase, jobs, busy, pins, pinned, store>>
  BY DEF Stay
<1>2. Turns' /\ PhaseInv' /\ ReloadsAlone'
  <2>1. Live
    BY SettingsTurn DEF AtHead
  <2> QED
    BY <1>1, <2>1 DEF QueueInv, Turns, PhaseInv, ReloadsAlone, Live
<1>3. StepInv'
  BY <1>1 DEF StepInv, AtHead, Reloading
<1> QED
  BY <1>2, <1>3 DEF QueueInv

LEMMA QueueStep == Typed /\ QueueInv /\ [Next]_vars => QueueInv'
<1> SUFFICES ASSUME Typed, QueueInv, [Next]_vars PROVE QueueInv'
  OBVIOUS
<1>1. CASE Start
  <2>1. phase' = "reading" /\ ~Live /\ phase = "off"
    BY <1>1 DEF Start, Live
  <2>2. UNCHANGED <<jobs, busy, pins, pinned, store, step>>
    BY <1>1 DEF Start, memory, queues
  <2> QED
    BY <2>1, <2>2 DEF QueueInv, Turns, PhaseInv, ReloadsAlone, StepInv, Live
<1>2. ASSUME NEW ok \in BOOLEAN, ReadStartup(ok) PROVE QueueInv'
  <2>1. ~Live /\ phase = "reading" /\ step = "idle"
    BY <1>2, StartupReads
  <2>2. CASE \E p : Hydrate(p) /\ step' = step
    BY <2>1, <2>2, HydrateQueue
  <2>3. CASE step' = "backup" /\ UNCHANGED <<phase, jobs, busy, pins, pinned, store>>
    BY <2>1, <2>3 DEF QueueInv, Turns, PhaseInv, ReloadsAlone, StepInv, Live
  <2> QED
    BY <1>2, <2>2, <2>3, StartupReads
<1>3. ASSUME NEW ok \in BOOLEAN, BackupStartup(ok) PROVE QueueInv'
  <2>1. ~Live /\ phase = "reading"
    BY <1>3 DEF BackupStartup, Live
  <2>2. CASE ok
    <3>1. step' = "normalise" /\ UNCHANGED <<phase, jobs, busy, pins, pinned, store>>
      BY <1>3, <2>2 DEF BackupStartup
    <3> QED
      BY <2>1, <3>1 DEF QueueInv, Turns, PhaseInv, ReloadsAlone, StepInv, Live
  <2>3. CASE ~ok
    <3>1. step' = "idle" /\ Hydrate(Merge(loaded.pkg, Defaults))
      BY <1>3, <2>3 DEF BackupStartup
    <3> QED
      BY <2>1, <3>1, HydrateQueue
  <2> QED
    BY <2>2, <2>3
<1>4. ASSUME NEW ok \in BOOLEAN, WriteStartup(ok) PROVE QueueInv'
  <2>1. ~Live
    BY <1>4 DEF WriteStartup, Live
  <2>2. CASE ok
    BY <1>4, <2>1, <2>2, HydrateQueue DEF WriteStartup
  <2>3. CASE ~ok
    BY <1>4, <2>3, OffQueue DEF WriteStartup
  <2> QED
    BY <2>2, <2>3
<1>5. CASE BeginSave
  BY <1>5, BeginSaveQueue
<1>6. CASE StoreSave
  <2>1. store # <<>> /\ Head(store) = "settings" /\ Saving /\ step = "idle"
    BY <1>6 DEF StoreSave
  <2>2. Live
    BY <2>1, SettingsTurn
  <2>3. CASE Rebased(snapshot) = package \/ paused # "no"
    <3>1. (Rebased(snapshot) = package) \in BOOLEAN
      OBVIOUS
    <3>2. EndSave(Rebased(snapshot) = package, package)
      BY <1>6, <2>3 DEF StoreSave
    <3> QED
      BY <2>1, <3>1, <3>2, EndSaveQueue
  <2>4. CASE ~(Rebased(snapshot) = package \/ paused # "no")
    <3>1. step' = "write" /\ UNCHANGED <<phase, jobs, busy, pins, pinned, store>>
      BY <1>6, <2>4 DEF StoreSave
    <3> QED
      BY <2>1, <2>2, <3>1 DEF QueueInv, Turns, PhaseInv, ReloadsAlone, StepInv, Live
  <2> QED
    BY <2>3, <2>4
<1>7. ASSUME NEW ok \in BOOLEAN, WriteSave(ok) PROVE QueueInv'
  <2>1. step = "write" /\ Head(store) = "settings" /\ Saving /\ EndSave(ok, next)
    BY <1>7 DEF WriteSave
  <2>2. store # <<>>
    BY <2>1, WriteTurn
  <2> QED
    BY <2>1, <2>2, EndSaveQueue
<1>8. CASE BeginPin
  BY <1>8, BeginPinQueue
<1>9. CASE StorePin
  <2> DEFINE pin == Pinned(Newer(package.pin, cache), Head(pins), pinned)
             p   == [package EXCEPT !.pin = pin]
  <2>1. store # <<>> /\ Head(store) = "pin" /\ step = "idle" /\ UNCHANGED <<phase, jobs, busy>>
    BY <1>9 DEF StorePin
  <2>2. Live
    BY <2>1, PinTurn
  <2>3. CASE p = package \/ paused # "no"
    <3>1. (p = package) \in BOOLEAN
      OBVIOUS
    <3>2. EndPin(p = package, p)
      BY <1>9, <2>3 DEF StorePin
    <3> QED
      BY <2>1, <3>1, <3>2, EndPinQueue
  <2>4. CASE ~(p = package \/ paused # "no")
    <3>1. step' = "write" /\ UNCHANGED <<pins, pinned, store>>
      BY <1>9, <2>4 DEF StorePin
    <3> QED
      BY <2>1, <2>2, <3>1 DEF QueueInv, Turns, PhaseInv, ReloadsAlone, StepInv, Live
  <2> QED
    BY <2>3, <2>4
<1>10. ASSUME NEW ok \in BOOLEAN, WritePin(ok) PROVE QueueInv'
  <2>1. step = "write" /\ Head(store) = "pin" /\ EndPin(ok, next) /\ UNCHANGED <<phase, jobs, busy>>
    BY <1>10 DEF WritePin
  <2>2. store # <<>>
    BY <2>1, WriteTurn
  <2> QED
    BY <2>1, <2>2, EndPinQueue
<1>11. CASE BeginReload
  BY <1>11, TurnTaken DEF BeginReload, Reloading, Live
<1>12. ASSUME NEW ok \in BOOLEAN, ReadReload(ok) PROVE QueueInv'
  <2>1. AtHead
    BY <1>12 DEF ReadReload
  <2>2. CASE ok /\ Readable
    <3>1. Stay /\ step' \in {"backup", "staged"}
      BY <1>12, <2>2 DEF ReadReload
    <3> QED
      BY <2>1, <3>1, StayQueue
  <2>3. CASE ~(ok /\ Readable)
    <3>1. EndReload(Seed(package))
      BY <1>12, <2>3 DEF ReadReload, Unchanged
    <3> QED
      BY <2>1, <3>1, SeedIs, EndReloadQueue
  <2> QED
    BY <2>2, <2>3
<1>13. ASSUME NEW ok \in BOOLEAN, BackupReload(ok) PROVE QueueInv'
  <2>1. AtHead
    BY <1>13 DEF BackupReload
  <2>2. CASE ok
    <3>1. Stay /\ step' = "staged"
      BY <1>13, <2>2 DEF BackupReload
    <3> QED
      BY <2>1, <3>1, StayQueue
  <2>3. CASE ~ok
    <3>1. EndReload(Seed(package))
      BY <1>13, <2>3 DEF BackupReload, NotBackedUp, Unchanged
    <3> QED
      BY <2>1, <3>1, SeedIs, EndReloadQueue
  <2> QED
    BY <2>2, <2>3
<1>14. CASE Proceed
  <2>1. AtHead
    BY <1>14 DEF Proceed
  <2>2. CASE next = loaded.pkg
    <3>1. EndReload(Seed(next))
      BY <1>14, <2>2 DEF Proceed, Adopt
    <3> QED
      BY <2>1, <3>1, SeedIs, EndReloadQueue
  <2>3. CASE next # loaded.pkg
    <3>1. Stay /\ step' \in {"write", "preserve"}
      BY <1>14, <2>3 DEF Proceed
    <3> QED
      BY <2>1, <3>1, StayQueue
  <2> QED
    BY <2>2, <2>3
<1>15. ASSUME NEW ok \in BOOLEAN, Preserve(ok) PROVE QueueInv'
  <2>1. AtHead
    BY <1>15 DEF Preserve
  <2>2. CASE ok
    <3>1. Stay /\ step' = "write"
      BY <1>15, <2>2 DEF Preserve
    <3> QED
      BY <2>1, <3>1, StayQueue
  <2>3. CASE ~ok
    <3>1. EndReload(<<>>)
      BY <1>15, <2>3 DEF Preserve, Thrown
    <3> QED
      BY <2>1, <3>1, EndReloadQueue
  <2> QED
    BY <2>2, <2>3
<1>16. ASSUME NEW ok \in BOOLEAN, WriteReload(ok) PROVE QueueInv'
  <2>1. AtHead
    BY <1>16 DEF WriteReload
  <2>2. CASE ok
    <3>1. EndReload(Seed(next))
      BY <1>16, <2>2 DEF WriteReload, Adopt
    <3> QED
      BY <2>1, <3>1, SeedIs, EndReloadQueue
  <2>3. CASE ~ok
    <3>1. EndReload(<<>>)
      BY <1>16, <2>3 DEF WriteReload, Thrown
    <3> QED
      BY <2>1, <3>1, EndReloadQueue
  <2> QED
    BY <2>2, <2>3
<1>17. ASSUME NEW f \in Fields, Edit(f) \/ Update(f) PROVE QueueInv'
  <2> DEFINE job == IF Edit(f) THEN Save("save") ELSE Job("update", f, clock')
  <2>1. /\ phase = "running" /\ UNCHANGED <<phase, busy, pinned, store, step, pins>>
        /\ clock' = clock + 1 /\ jobs' = Append(jobs, job) /\ clock \in Nat
    BY <1>17 DEF Edit, Update, Request, Typed, HistoryTyped
  <2>2. job \in Jobs(clock + 1) /\ job.kind \notin {"initial", "seed", "reload"}
        /\ (job.kind = "update" => job.field \in Fields)
    BY <2>1 DEF Save, Job, Jobs
  <2>3. pinned # 0 => pins' # <<>>
    BY <2>1 DEF QueueInv, Turns
  <2>4. clock <= clock + 1 /\ clock + 1 \in Nat
    BY <2>1
  <2> HIDE DEF job
  <2> QED
    BY <2>1, <2>2, <2>3, <2>4, JobAppended
<1>18. ASSUME NEW on \in BOOLEAN, Pin(on) PROVE QueueInv'
  <2>1. /\ phase = "running" /\ UNCHANGED <<phase, jobs, busy, pinned, store, step>>
        /\ pins' = Append(pins, on) /\ pins \in Seq(BOOLEAN)
    BY <1>18 DEF Pin, Request, Typed, QueuesTyped
  <2>2. pins' # <<>>
    BY <2>1, QueueAppend
  <2> QED
    BY <2>1, <2>2 DEF QueueInv, Turns, PhaseInv, ReloadsAlone, StepInv, Live, AtHead, Reloading
<1>19. CASE Reload
  <2>1. /\ phase = "running" /\ UNCHANGED <<phase, busy, pinned, store, step, pins>>
        /\ \A i \in DOMAIN jobs : jobs[i].kind \notin {"reload", "seed"}
        /\ jobs' = Append(jobs, Save("reload")) /\ clock \in Nat
    BY <1>19 DEF Reload, Request, Typed, HistoryTyped
  <2>2. Save("reload") \in Jobs(clock) /\ Save("reload").kind = "reload"
    BY <2>1, SaveTyped
  <2>3. pinned # 0 => pins' # <<>>
    BY <2>1 DEF QueueInv, Turns
  <2>4. clock <= clock
    BY <2>1
  <2> QED
    BY <2>1, <2>2, <2>3, <2>4, JobAppended
<1>20. CASE Sync
  BY <1>20, QueueFrame DEF Sync, memory, queues
<1>21. CASE Stop
  BY <1>21, OffQueue DEF Stop
<1>22. CASE UNCHANGED vars
  BY <1>22, QueueFrame DEF vars, memory, queues
<1> QED
  BY <1>1, <1>2, <1>3, <1>4, <1>5, <1>6, <1>7, <1>8, <1>9, <1>10, <1>11, <1>12, <1>13, <1>14,
     <1>15, <1>16, <1>17, <1>18, <1>19, <1>20, <1>21, <1>22 DEF Next, Run, Ask

----------------------------------------------------------------------------
(* Types *)

\* The package that is about to be written is one.
LEMMA NextTyped ==
    ASSUME Typed, QueueInv, BuiltInv,
           step \in {"write", "normalise"} \/ (AtHead /\ step \in {"staged", "preserve"})
    PROVE  next \in Whole(clock)
<1>1. clock \in Nat /\ package \in Whole(clock) /\ Defaults \in Whole(clock)
  BY DefaultsAreWhole DEF Typed, MemoryTyped, HistoryTyped
<1>2. ASSUME AtReload \/ AtStartup PROVE loaded.pkg \in Package(clock)
  BY <1>2 DEF BuiltInv, LoadedInv, Files
<1>3. CASE step = "normalise"
  <2>1. AtStartup
    BY <1>3 DEF QueueInv, PhaseInv, StepInv, Live, AtStartup, Typed, QueuesTyped
  <2>2. next = Normal(Merge(loaded.pkg, Defaults))
    BY <1>3, <2>1 DEF BuiltInv, LoadedInv
  <2> QED
    BY <1>1, <1>2, <2>1, <2>2, MergeFields, NormalFields
<1>4. CASE AtHead /\ step \in {"staged", "preserve", "write"}
  <2>1. Live
    BY <1>4, SettingsTurn DEF AtHead
  <2>2. AtReload
    BY <1>4, <2>1 DEF AtReload
  <2>3. next = Normal(Merge(loaded.pkg, package))
    BY <1>4, <2>2 DEF BuiltInv, LoadedInv
  <2> QED
    BY <1>1, <1>2, <2>2, <2>3, MergeFields, NormalFields
<1>5. CASE step = "write" /\ ~AtHead
  <2>1. Live /\ store # <<>>
    BY <1>5, WriteTurn
  <2>2. Head(store) \in {"settings", "pin"}
    BY <2>1, TurnsTaken DEF QueueInv, Turns
  <2>3. CASE Head(store) = "pin"
    BY <1>5, <2>1, <2>3 DEF BuiltInv, PinInv
  <2>4. CASE Head(store) = "settings"
    <3>1. busy /\ jobs # <<>>
      BY <2>1, <2>4, SettingsTurn
    <3>2. Running
      BY <1>5, <2>1, <2>4, <3>1 DEF Running, Saving, AtHead, Reloading
    <3>3. snapshot \in Whole(clock) /\ next = Rebased(snapshot)
      BY <1>5, <2>4, <3>2 DEF BuiltInv, SaveInv
    <3> QED
      BY <1>1, <3>3, RebasedFields
  <2> QED
    BY <2>2, <2>3, <2>4
<1> QED
  BY <1>3, <1>4, <1>5

LEMMA FaultTyped ==
    ASSUME Typed, NEW kind \in Kinds, Spend(kind) PROVE left' \in [Kinds -> Nat]
<1>1. left \in [Kinds -> Nat] /\ left[kind] \in Nat \ {0}
  BY DEF Typed, HistoryTyped, Spend
<1>2. left' = [left EXCEPT ![kind] = left[kind] - 1]
  BY DEF Spend
<1> QED
  BY <1>1, <1>2

LEMMA FaultsTyped ==
    ASSUME Typed, NEW ok \in BOOLEAN, Fault(ok) PROVE left' \in [Kinds -> Nat]
<1>1. CASE ok
  BY <1>1 DEF Fault, Typed, HistoryTyped
<1>2. CASE ~ok
  BY <1>2, FaultTyped DEF Fault, Kinds
<1> QED
  BY <1>1, <1>2

LEMMA WrittenTyped ==
    ASSUME Typed, NEW p \in Whole(clock), Written(p)
    PROVE  /\ disk' \in Files(clock) /\ disk'.form = "package" /\ disk'.pkg = p
           /\ foreign' = FALSE /\ unread' = FALSE
<1>1. clock \in Nat /\ p \in Package(clock)
  BY WholeIsPackage DEF Typed, HistoryTyped
<1> QED
  BY <1>1 DEF Written, File, Files

LEMMA HydrateTyped ==
    ASSUME Typed, NEW p \in Whole(clock), Hydrate(p), clock' = clock,
           paused' \in {"no", "read", "explicit"}, step' \in {"idle", "backup", "normalise"}
    PROVE  MemoryTyped' /\ QueuesTyped' /\ unsaved' \in BOOLEAN
<1>1. clock \in Nat /\ p.vals \in [Fields -> 0 .. clock] /\ p.pin \in Pins(clock)
  BY WholeFields DEF Typed, HistoryTyped
<1>2. Save("initial") \in Jobs(clock) /\ Save("initial").kind = "initial"
  BY <1>1, SaveTyped
<1>3. /\ jobs' = <<Save("initial")>> /\ DOMAIN jobs' = {1} /\ jobs'[1] = Save("initial")
      /\ jobs' \in Seq(Jobs(clock))
  BY <1>2 DEF Hydrate
<1>4. MemoryTyped'
  BY <1>1 DEF Hydrate, MemoryTyped
<1>5. QueuesTyped'
  BY <1>2, <1>3 DEF Hydrate, QueuesTyped, Typed
<1>6. unsaved' \in BOOLEAN
  BY DEF Hydrate, Typed, HistoryTyped
<1> QED
  BY <1>4, <1>5, <1>6

LEMMA OffTyped ==
    ASSUME Typed, Off, clock' = clock
    PROVE  /\ MemoryTyped' /\ QueuesTyped' /\ unsaved' = FALSE
           /\ acked' \in [Fields -> 0 .. clock] /\ held' \in 0 .. clock
<1>1. /\ clock \in Nat /\ Defaults \in Whole(clock) /\ Defaults.vals \in [Fields -> 0 .. clock]
      /\ NoPin \in Pins(clock) /\ acked \in [Fields -> 0 .. clock] /\ held \in 0 .. clock
  BY DefaultsAreWhole, NoPinIsOldest DEF Typed, HistoryTyped
<1>2. MemoryTyped'
  BY <1>1 DEF Off, MemoryTyped
<1>3. jobs' = <<>> /\ pins' = <<>>
  BY DEF Off
<1>4. jobs' \in Seq(Jobs(clock)) /\ DOMAIN jobs' = {} /\ pins' \in Seq(BOOLEAN)
  BY <1>3
<1>5. QueuesTyped'
  <2>1. \A i \in DOMAIN jobs' : jobs'[i].kind = "update" => jobs'[i].field \in Fields
    BY <1>4
  <2>2. phase' = "off" /\ busy' = FALSE /\ pinned' \in 0 .. clock /\ step' = "idle"
    BY <1>1 DEF Off
  <2> QED
    BY <1>4, <2>1, <2>2 DEF QueuesTyped
<1>6. acked' \in [Fields -> 0 .. clock] /\ held' \in 0 .. clock
  BY <1>1 DEF Off
<1> QED
  BY <1>2, <1>5, <1>6 DEF Off

LEMMA JobsLeft ==
    ASSUME Typed, jobs # <<>>, jobs' = Tail(jobs)
    PROVE  /\ jobs' \in Seq(Jobs(clock))
           /\ \A i \in DOMAIN jobs' : jobs'[i].kind = "update" => jobs'[i].field \in Fields
           /\ Head(jobs) \in Jobs(clock) /\ Head(jobs) = jobs[1] /\ 1 \in DOMAIN jobs
           /\ Head(jobs).kind = "update" => Head(jobs).field \in Fields
           /\ \A i \in DOMAIN jobs' : i \in Nat \ {0} /\ i + 1 \in DOMAIN jobs /\ jobs'[i] = jobs[i + 1]
           /\ \A i \in DOMAIN jobs : i > 1 => i - 1 \in DOMAIN jobs' /\ jobs'[i - 1] = jobs[i]
<1>1. jobs \in Seq(Jobs(clock)) /\ \A i \in DOMAIN jobs : jobs[i].kind = "update" => jobs[i].field \in Fields
  BY DEF Typed, QueuesTyped
<1>2. /\ Head(jobs) = jobs[1] /\ Head(jobs) \in Jobs(clock) /\ 1 \in DOMAIN jobs
      /\ jobs' \in Seq(Jobs(clock))
      /\ \A i \in DOMAIN jobs' : i \in Nat \ {0} /\ i + 1 \in DOMAIN jobs /\ jobs'[i] = jobs[i + 1]
      /\ \A i \in DOMAIN jobs : i > 1 => i - 1 \in DOMAIN jobs' /\ jobs'[i - 1] = jobs[i]
  BY <1>1, QueueTail
<1> QED
  BY <1>1, <1>2

LEMMA EndSaveTyped ==
    ASSUME Typed, QueueInv, BuiltInv, Running, NEW ok \in BOOLEAN, NEW p \in Whole(clock),
           EndSave(ok, p), clock' = clock
    PROVE  /\ MemoryTyped' /\ QueuesTyped' /\ unsaved' \in BOOLEAN
           /\ acked' \in [Fields -> 0 .. clock] /\ held' \in 0 .. clock
<1>1. CASE Off
  BY <1>1, OffTyped
<1>2. CASE ~(Head(jobs).kind = "initial" /\ ~ok)
  <2>1. /\ package' = IF ok THEN p ELSE package
        /\ settings' = IF ok \/ Head(jobs).kind # "update" THEN settings ELSE previous
        /\ unsaved' = IF Head(jobs).kind = "save" THEN ~ok ELSE unsaved /\ ok
        /\ jobs' = Tail(jobs) /\ busy' = FALSE /\ phase' = "running" /\ step' = "idle"
        /\ acked' = IF ok /\ Head(jobs).kind = "update"
                    THEN [acked EXCEPT ![Head(jobs).field] = Head(jobs).value] ELSE acked
        /\ UNCHANGED <<cache, paused, pins, pinned, held>>
    BY <1>2 DEF EndSave, Release, Committed, Restored
  <2>2. jobs # <<>> /\ previous = package.vals
    BY DEF Running, Saving, BuiltInv, SaveInv
  <2>3. /\ jobs' \in Seq(Jobs(clock)) /\ Head(jobs).value \in 0 .. clock
        /\ \A i \in DOMAIN jobs' : jobs'[i].kind = "update" => jobs'[i].field \in Fields
        /\ Head(jobs).kind = "update" => Head(jobs).field \in Fields
    BY <2>1, <2>2, JobsLeft DEF Jobs
  <2>4. clock \in Nat /\ package.vals \in [Fields -> 0 .. clock]
    BY WholeFields DEF Typed, MemoryTyped, HistoryTyped
  <2>5. MemoryTyped'
    BY <2>1, <2>2, <2>4 DEF Typed, MemoryTyped
  <2>6. QueuesTyped'
    BY <2>1, <2>3 DEF Typed, QueuesTyped
  <2>7. unsaved' \in BOOLEAN /\ acked' \in [Fields -> 0 .. clock] /\ held' \in 0 .. clock
    BY <2>1, <2>3 DEF Typed, HistoryTyped
  <2> QED
    BY <2>5, <2>6, <2>7
<1> QED
  BY <1>1, <1>2 DEF EndSave

LEMMA EndPinTyped ==
    ASSUME Typed, QueueInv, pins # <<>>, NEW ok \in BOOLEAN, NEW p \in Whole(clock),
           EndPin(ok, p), clock' = clock, UNCHANGED <<phase, settings, paused, jobs, busy>>
    PROVE  MemoryTyped' /\ QueuesTyped' /\ held' \in 0 .. clock
<1>1. clock \in Nat /\ p.pin \in Pins(clock) /\ p.pin.at \in 0 .. clock
  BY WholeFields DEF Typed, HistoryTyped
<1>2. Tail(pins) \in Seq(BOOLEAN)
  BY QueueTail DEF Typed, QueuesTyped
<1>3. MemoryTyped' /\ held' \in 0 .. clock
  BY <1>1 DEF EndPin, Typed, MemoryTyped, HistoryTyped
<1>4. QueuesTyped'
  BY <1>1, <1>2 DEF EndPin, Release, Typed, QueuesTyped
<1> QED
  BY <1>3, <1>4

LEMMA EndReloadTyped ==
    ASSUME Typed, QueueInv, AtHead, NEW rest \in {<<>>, <<Save("seed")>>}, EndReload(rest)
    PROVE  QueuesTyped' /\ clock' = clock
<1>1. /\ jobs' = rest \o Tail(jobs) /\ busy' = FALSE /\ step' = "idle"
      /\ UNCHANGED <<phase, pins, pinned, clock>>
  BY DEF EndReload
<1>2. phase = "running" /\ Reloading
  BY SettingsTurn, ReloadIsRunning DEF AtHead
<1>3. /\ jobs' \in Seq(Jobs(clock))
      /\ \A i \in DOMAIN jobs' : jobs'[i].kind = "update" => jobs'[i].field \in Fields
  BY <1>1, <1>2, AfterReload
<1> QED
  BY <1>1, <1>3 DEF Typed, QueuesTyped

LEMMA AdoptTyped ==
    ASSUME Typed, QueueInv, AtHead, next \in Whole(clock), Adopt, paused' = paused
    PROVE  /\ QueuesTyped' /\ MemoryTyped' /\ clock' = clock /\ unsaved' = FALSE
           /\ acked' \in [Fields -> 0 .. clock] /\ held' \in 0 .. clock
<1>1. EndReload(Seed(next))
  BY DEF Adopt
<1>2. QueuesTyped' /\ clock' = clock
  BY <1>1, SeedIs, EndReloadTyped
<1>3. clock \in Nat /\ next.vals \in [Fields -> 0 .. clock] /\ next.pin \in Pins(clock)
  BY WholeFields DEF Typed, HistoryTyped
<1>4. MemoryTyped'
  BY <1>2, <1>3 DEF Adopt, Typed, MemoryTyped
<1>5. acked' \in [Fields -> 0 .. clock] /\ held' \in 0 .. clock /\ unsaved' = FALSE
  BY <1>3 DEF Adopt, Typed, HistoryTyped
<1> QED
  BY <1>2, <1>4, <1>5

LEMMA BackedUpTyped ==
    ASSUME Typed, loaded \in Files(clock), BackedUp PROVE backups' \subseteq Files(clock)
  BY DEF Typed, FilesTyped, BackedUp

LEMMA FilesFrame == ASSUME Typed, UNCHANGED <<disk, backups, clock>> PROVE FilesTyped'
  BY DEF Typed, FilesTyped

LEMMA FilesWritten ==
    ASSUME Typed, NEW p \in Whole(clock), Written(p), UNCHANGED <<backups, clock>>
    PROVE  FilesTyped' /\ unread' \in BOOLEAN /\ foreign' \in BOOLEAN
<1>1. disk' \in Files(clock) /\ disk'.form = "package" /\ foreign' = FALSE /\ unread' = FALSE
  BY WrittenTyped
<1> QED
  BY <1>1 DEF Typed, FilesTyped

\* A time later everything is still typed.
LEMMA ClockTicks ==
    ASSUME Typed, clock' = clock + 1
    PROVE  /\ clock' \in Nat /\ clock <= clock' /\ clock \in Nat
           /\ 0 .. clock \subseteq 0 .. clock' /\ Pins(clock) \subseteq Pins(clock')
           /\ Files(clock) \subseteq Files(clock') /\ Whole(clock) \subseteq Whole(clock')
           /\ Package(clock) \subseteq Package(clock') /\ Seq(Jobs(clock)) \subseteq Seq(Jobs(clock'))
           /\ [Fields -> 0 .. clock] \subseteq [Fields -> 0 .. clock']
<1>1. clock \in Nat /\ clock' \in Nat /\ clock <= clock'
  BY DEF Typed, HistoryTyped
<1> QED
  BY <1>1, Later

LEMMA FilesTick == ASSUME Typed, clock' = clock + 1, UNCHANGED <<disk, backups>> PROVE FilesTyped'
  BY ClockTicks DEF Typed, FilesTyped

LEMMA HistoryTick ==
    ASSUME Typed, clock' = clock + 1, UNCHANGED history, left' \in [Kinds -> Nat]
    PROVE  HistoryTyped'
  BY ClockTicks DEF Typed, HistoryTyped, history

LEMMA ReadStartupTyped ==
    ASSUME Typed, QueueInv, NEW ok \in BOOLEAN, ReadStartup(ok) PROVE Typed'
<1>1. clock \in Nat /\ Defaults \in Whole(clock) /\ Defaults.vals \in [Fields -> 0 .. clock]
  BY DefaultsAreWhole DEF Typed, HistoryTyped
<1>2. left' \in [Kinds -> Nat]
  BY FaultsTyped DEF ReadStartup
<1>3. UNCHANGED <<disk, backups, clock>> /\ step = "idle"
  BY StartupReads
<1>4. FilesTyped'
  BY <1>3, FilesFrame
<1>5. ASSUME NEW p \in Whole(clock), Hydrate(p), paused' \in {"no", "read", "explicit"}, step' = step,
             foreign' \in BOOLEAN, unread' \in BOOLEAN,
             acked' \in [Fields -> 0 .. clock], held' \in 0 .. clock
      PROVE  Typed'
  <2>1. MemoryTyped' /\ QueuesTyped' /\ unsaved' \in BOOLEAN
    BY <1>3, <1>5, HydrateTyped
  <2> QED
    BY <1>1, <1>2, <1>3, <1>4, <1>5, <2>1 DEF Typed, HistoryTyped
<1>6. CASE /\ Absent /\ Hydrate(Defaults) /\ foreign' = FALSE /\ unread' = FALSE
           /\ UNCHANGED <<paused, step, loaded, acked, held>>
  BY <1>1, <1>5, <1>6 DEF Typed, MemoryTyped, HistoryTyped
<1>7. CASE /\ Readable /\ Hydrate(Merge(disk.pkg, Defaults)) /\ foreign' = FALSE
           /\ unread' = FALSE /\ UNCHANGED <<paused, step, loaded, acked, held>>
  <2>1. Merge(disk.pkg, Defaults) \in Whole(clock)
    BY <1>1, MergeFields DEF Typed, FilesTyped, Files
  <2> QED
    BY <1>5, <1>7, <2>1 DEF Typed, MemoryTyped, HistoryTyped
<1>8. CASE /\ Readable /\ loaded' = disk /\ step' = "backup" /\ unread' = TRUE /\ foreign' = FALSE
           /\ UNCHANGED <<phase, settings, package, cache, paused, jobs, busy, snapshot,
                          previous, pins, pinned, store, unsaved, acked, held>>
  BY <1>1, <1>2, <1>3, <1>4, <1>8 DEF Typed, MemoryTyped, QueuesTyped, HistoryTyped
<1>9. CASE /\ Unreadable /\ Hydrate(Defaults) /\ foreign' = TRUE /\ UNCHANGED <<step, loaded>>
           /\ acked' = Defaults.vals /\ held' = 0
  <2>1. unread' = TRUE /\ paused' = "read" /\ held' \in 0 .. clock
    BY <1>1, <1>9 DEF Unreadable
  <2> QED
    BY <1>1, <1>5, <1>9, <2>1
<1> QED
  BY <1>6, <1>7, <1>8, <1>9, StartupReads

LEMMA StartupTyped ==
    ASSUME Typed, QueueInv, BuiltInv, NEW ok \in BOOLEAN, BackupStartup(ok) \/ WriteStartup(ok)
    PROVE  Typed'
<1>1. clock \in Nat /\ Defaults \in Whole(clock)
  BY DefaultsAreWhole DEF Typed, HistoryTyped
<1>2. left' \in [Kinds -> Nat]
  BY FaultsTyped DEF BackupStartup, WriteStartup
<1>3. AtStartup /\ loaded \in Files(clock) /\ clock' = clock
  BY DEF BackupStartup, WriteStartup, AtStartup, BuiltInv, LoadedInv
<1>4. Merge(loaded.pkg, Defaults) \in Whole(clock)
  BY <1>1, <1>3, MergeFields DEF Files
<1>5. CASE BackupStartup(ok) /\ ok
  <2>1. BackedUp /\ disk' = disk /\ paused' = "no" /\ step' = "normalise"
    BY <1>5 DEF BackupStartup
  <2>2. UNCHANGED <<phase, settings, package, cache, jobs, busy, pins, pinned, unsaved, acked, held,
                    unread, foreign>>
    BY <1>5 DEF BackupStartup
  <2>3. FilesTyped'
    BY <1>3, <2>1, BackedUpTyped DEF Typed, FilesTyped
  <2> QED
    BY <1>2, <1>3, <2>1, <2>2, <2>3 DEF Typed, MemoryTyped, QueuesTyped, HistoryTyped
<1>6. CASE BackupStartup(ok) /\ ~ok
  <2>1. /\ Hydrate(Merge(loaded.pkg, Defaults)) /\ paused' = "explicit" /\ step' = "idle"
        /\ UNCHANGED <<disk, backups, clock, acked, held, unread, foreign>>
    BY <1>6 DEF BackupStartup
  <2>2. MemoryTyped' /\ QueuesTyped' /\ unsaved' \in BOOLEAN
    BY <1>4, <2>1, HydrateTyped
  <2>3. FilesTyped'
    BY <2>1, FilesFrame
  <2> QED
    BY <1>2, <2>1, <2>2, <2>3 DEF Typed, HistoryTyped
<1>7. CASE WriteStartup(ok) /\ ok
  <2>1. /\ Written(next) /\ Hydrate(next) /\ step' = "idle"
        /\ UNCHANGED <<paused, backups, clock, acked, held>> /\ step = "normalise"
    BY <1>7 DEF WriteStartup
  <2>2. next \in Whole(clock)
    BY <2>1, NextTyped
  <2>3. FilesTyped' /\ unread' \in BOOLEAN /\ foreign' \in BOOLEAN
    BY <2>1, <2>2, FilesWritten
  <2>4. paused' \in {"no", "read", "explicit"}
    BY <2>1 DEF Typed, MemoryTyped
  <2>5. MemoryTyped' /\ QueuesTyped' /\ unsaved' \in BOOLEAN
    BY <2>1, <2>2, <2>4, HydrateTyped
  <2> QED
    BY <1>2, <2>1, <2>3, <2>5 DEF Typed, HistoryTyped
<1>8. CASE WriteStartup(ok) /\ ~ok
  <2>1. Off /\ UNCHANGED <<disk, unread, foreign, backups, clock>>
    BY <1>8 DEF WriteStartup
  <2>2. /\ MemoryTyped' /\ QueuesTyped' /\ unsaved' = FALSE
        /\ acked' \in [Fields -> 0 .. clock] /\ held' \in 0 .. clock
    BY <2>1, OffTyped
  <2>3. FilesTyped'
    BY <2>1, FilesFrame
  <2> QED
    BY <1>2, <2>1, <2>2, <2>3 DEF Typed, HistoryTyped
<1> QED
  BY <1>5, <1>6, <1>7, <1>8

LEMMA SaveStepTyped ==
    ASSUME Typed, QueueInv, BuiltInv, BeginSave \/ StoreSave \/ \E ok \in BOOLEAN : WriteSave(ok)
    PROVE  Typed'
<1>1. clock \in Nat /\ package \in Whole(clock) /\ package.vals \in [Fields -> 0 .. clock]
  BY WholeFields DEF Typed, MemoryTyped, HistoryTyped
<1>2. CASE BeginSave
  <2>1. /\ UNCHANGED <<disk, backups, package, cache, pins, pinned, step, clock, left,
                       acked, held, unread, foreign>>
        /\ jobs # <<>> /\ FilesTyped'
    BY <1>2, FilesFrame DEF BeginSave, Saving
  <2>2. /\ jobs[1] = Head(jobs) /\ Head(jobs) \in Jobs(clock)
        /\ Head(jobs).kind = "update" => Head(jobs).field \in Fields
        /\ Head(jobs).value \in 0 .. clock
    <3>1. jobs \in Seq(Jobs(clock)) /\ 1 \in DOMAIN jobs /\ jobs[1] = Head(jobs) /\ Head(jobs) \in Jobs(clock)
      BY <2>1, QueueTail DEF Typed, QueuesTyped
    <3> QED
      BY <3>1 DEF Typed, QueuesTyped, Jobs
  <2>3. CASE paused = "no"
    <3>1. /\ settings' = IF Head(jobs).kind = "update"
                         THEN [settings EXCEPT ![Head(jobs).field] = Head(jobs).value] ELSE settings
          /\ busy' = TRUE /\ UNCHANGED <<phase, jobs, paused, unsaved>>
      BY <1>2, <2>3 DEF BeginSave
    <3>2. settings' \in [Fields -> 0 .. clock]
      BY <2>2, <3>1 DEF Typed, MemoryTyped
    <3> QED
      BY <2>1, <3>1, <3>2 DEF Typed, MemoryTyped, QueuesTyped, HistoryTyped
  <2>4. CASE paused # "no"
    <3>1. /\ settings' = (IF Head(jobs).kind = "update" THEN package.vals ELSE settings)
          /\ unsaved' \in {TRUE, FALSE, unsaved}
          /\ jobs' = Tail(jobs) /\ phase' = "running" /\ UNCHANGED <<busy, paused>>
      BY <1>2, <2>4 DEF BeginSave, Restored
    <3>2. /\ jobs' \in Seq(Jobs(clock))
          /\ \A i \in DOMAIN jobs' : jobs'[i].kind = "update" => jobs'[i].field \in Fields
      BY <2>1, <3>1, JobsLeft
    <3> QED
      BY <1>1, <2>1, <3>1, <3>2 DEF Typed, MemoryTyped, QueuesTyped, HistoryTyped
  <2> QED
    BY <2>3, <2>4
<1>3. CASE StoreSave
  <2>1. /\ Running /\ FilesTyped' /\ UNCHANGED <<clock, left, unread, foreign>>
    BY <1>3, FilesFrame DEF StoreSave, Running
  <2>2. CASE Rebased(snapshot) = package \/ paused # "no"
    <3>1. EndSave(Rebased(snapshot) = package, package)
      BY <1>3, <2>2 DEF StoreSave
    <3>2. (Rebased(snapshot) = package) \in BOOLEAN
      OBVIOUS
    <3>3. /\ MemoryTyped' /\ QueuesTyped' /\ unsaved' \in BOOLEAN
          /\ acked' \in [Fields -> 0 .. clock] /\ held' \in 0 .. clock
      BY <1>1, <2>1, <3>1, <3>2, EndSaveTyped
    <3> QED
      BY <2>1, <3>3 DEF Typed, HistoryTyped
  <2>3. CASE ~(Rebased(snapshot) = package \/ paused # "no")
    <3>1. /\ step' = "write"
          /\ UNCHANGED <<phase, settings, package, cache, paused, jobs, busy, pins, pinned, acked,
                         held, unsaved>>
      BY <1>3, <2>3 DEF StoreSave
    <3> QED
      BY <2>1, <3>1 DEF Typed, MemoryTyped, QueuesTyped, HistoryTyped
  <2> QED
    BY <2>2, <2>3
<1>4. ASSUME NEW ok \in BOOLEAN, WriteSave(ok) PROVE Typed'
  <2>1. /\ step = "write" /\ Head(store) = "settings" /\ Saving /\ EndSave(ok, next)
        /\ UNCHANGED <<backups, clock>>
    BY <1>4 DEF WriteSave
  <2>2. Running /\ next \in Whole(clock)
    BY <2>1, WriteTurn, SettingsTurn, NextTyped DEF Running
  <2>3. /\ MemoryTyped' /\ QueuesTyped' /\ unsaved' \in BOOLEAN
        /\ acked' \in [Fields -> 0 .. clock] /\ held' \in 0 .. clock
    BY <2>1, <2>2, EndSaveTyped
  <2>4. left' \in [Kinds -> Nat]
    BY <1>4, FaultsTyped DEF WriteSave
  <2>5. FilesTyped' /\ unread' \in BOOLEAN /\ foreign' \in BOOLEAN
    <3>1. CASE ok
      BY <1>4, <2>1, <2>2, <3>1, FilesWritten DEF WriteSave
    <3>2. CASE ~ok
      BY <1>4, <2>1, <3>2, FilesFrame DEF WriteSave, Typed, HistoryTyped
    <3> QED
      BY <3>1, <3>2
  <2> QED
    BY <2>1, <2>3, <2>4, <2>5 DEF Typed, HistoryTyped
<1> QED
  BY <1>2, <1>3, <1>4


LEMMA PinnedTyped ==
    ASSUME NEW n \in Nat, NEW pin \in Pins(n), NEW on \in BOOLEAN, NEW now \in 0 .. n
    PROVE  Pinned(pin, on, now) \in Pins(n)
  BY DEF Pinned, Pins

LEMMA PinStepTyped ==
    ASSUME Typed, QueueInv, BuiltInv, BeginPin \/ StorePin \/ \E ok \in BOOLEAN : WritePin(ok)
    PROVE  Typed'
<1>1. /\ clock \in Nat /\ package \in Whole(clock) /\ package.pin \in Pins(clock)
      /\ cache \in Pins(clock) /\ pins \in Seq(BOOLEAN) /\ pinned \in 0 .. clock
  BY WholeFields DEF Typed, MemoryTyped, QueuesTyped, HistoryTyped
<1>2. CASE BeginPin
  <2>1. /\ UNCHANGED <<phase, disk, backups, settings, package, paused, jobs, busy, step, left, history>>
        /\ pins # <<>> /\ clock' = clock + 1
    BY <1>2 DEF BeginPin
  <2>2. /\ Head(pins) \in BOOLEAN /\ Tail(pins) \in Seq(BOOLEAN)
    BY <1>1, <2>1, QueueTail
  <2>3. /\ clock' \in Nat /\ clock <= clock' /\ cache \in Pins(clock') /\ package \in Whole(clock')
        /\ settings \in [Fields -> 0 .. clock'] /\ jobs \in Seq(Jobs(clock')) /\ pinned \in 0 .. clock'
    BY <1>1, <2>1, ClockTicks DEF Typed, MemoryTyped, QueuesTyped
  <2>4. FilesTyped' /\ HistoryTyped'
    <3>1. left' \in [Kinds -> Nat]
      BY <2>1 DEF Typed, HistoryTyped
    <3> QED
      BY <2>1, <3>1, FilesTick, HistoryTick
  <2>5. cache' \in Pins(clock') /\ pins' \in Seq(BOOLEAN) /\ pinned' \in 0 .. clock'
    <3>1. CASE paused = "no"
      BY <1>1, <1>2, <2>3, <3>1 DEF BeginPin
    <3>2. CASE paused # "no"
      <4>1. cache' = Pinned(cache, Head(pins), clock') /\ pins' = Tail(pins) /\ pinned' = pinned
        BY <1>2, <3>2 DEF BeginPin
      <4>2. clock' \in 0 .. clock'
        BY <2>3
      <4> QED
        BY <2>2, <2>3, <4>1, <4>2, PinnedTyped
    <3> QED
      BY <3>1, <3>2
  <2>6. MemoryTyped'
    BY <2>1, <2>3, <2>5 DEF Typed, MemoryTyped
  <2>7. QueuesTyped'
    BY <2>1, <2>3, <2>5 DEF Typed, QueuesTyped
  <2> QED
    BY <2>4, <2>6, <2>7 DEF Typed
<1>3. CASE StorePin
  <2> DEFINE pin == Pinned(Newer(package.pin, cache), Head(pins), pinned)
             p   == [package EXCEPT !.pin = pin]
  <2>1. /\ store # <<>> /\ Head(store) = "pin"
        /\ UNCHANGED <<phase, disk, backups, settings, paused, jobs, busy, clock, left, acked,
                       unread, foreign, unsaved>>
    BY <1>3 DEF StorePin
  <2>2. pins # <<>>
    BY <2>1, PinTurn
  <2>3. p \in Whole(clock)
    <3>1. Head(pins) \in BOOLEAN
      BY <1>1, <2>2, QueueTail
    <3>2. pin \in Pins(clock)
      BY <1>1, <3>1, NewerPin, PinnedTyped
    <3> QED
      BY <1>1, <3>2, RepinnedFields
  <2>4. FilesTyped'
    BY <2>1, FilesFrame
  <2>5. CASE p = package \/ paused # "no"
    <3>1. (p = package) \in BOOLEAN
      OBVIOUS
    <3>2. EndPin(p = package, p)
      BY <1>3, <2>5 DEF StorePin
    <3> HIDE DEF p
    <3>3. MemoryTyped' /\ QueuesTyped' /\ held' \in 0 .. clock
      BY <2>1, <2>2, <2>3, <3>1, <3>2, EndPinTyped
    <3> QED
      BY <2>1, <2>4, <3>3 DEF Typed, HistoryTyped
  <2>6. CASE ~(p = package \/ paused # "no")
    <3>1. step' = "write" /\ UNCHANGED <<package, cache, held, pins, pinned>>
      BY <1>3, <2>6 DEF StorePin
    <3> QED
      BY <2>1, <2>4, <3>1 DEF Typed, MemoryTyped, QueuesTyped, HistoryTyped
  <2> QED
    BY <2>5, <2>6
<1>4. ASSUME NEW ok \in BOOLEAN, WritePin(ok) PROVE Typed'
  <2>1. /\ step = "write" /\ Head(store) = "pin" /\ EndPin(ok, next)
        /\ UNCHANGED <<phase, backups, settings, paused, jobs, busy, clock, acked, unsaved>>
    BY <1>4 DEF WritePin
  <2>2. pins # <<>> /\ next \in Whole(clock)
    BY <2>1, WriteTurn, PinTurn, NextTyped
  <2>3. MemoryTyped' /\ QueuesTyped' /\ held' \in 0 .. clock
    BY <2>1, <2>2, EndPinTyped
  <2>4. left' \in [Kinds -> Nat]
    BY <1>4, FaultsTyped DEF WritePin
  <2>5. FilesTyped' /\ unread' \in BOOLEAN /\ foreign' \in BOOLEAN
    <3>1. CASE ok
      BY <1>4, <2>1, <2>2, <3>1, FilesWritten DEF WritePin
    <3>2. CASE ~ok
      BY <1>4, <2>1, <3>2, FilesFrame DEF WritePin, Typed, HistoryTyped
    <3> QED
      BY <3>1, <3>2
  <2> QED
    BY <2>1, <2>3, <2>4, <2>5 DEF Typed, HistoryTyped
<1> QED
  BY <1>2, <1>3, <1>4

\* A step of a reload stays, ends or adopts.
LEMMA StayTyped ==
    ASSUME Typed, Stay, step' \in {"backup", "staged", "preserve", "write"},
           paused' \in {"no", "read", "explicit"}
    PROVE  MemoryTyped' /\ QueuesTyped' /\ clock' = clock /\ UNCHANGED <<acked, held, unsaved>>
  BY DEF Stay, Typed, MemoryTyped, QueuesTyped

LEMMA UnadoptedTyped ==
    ASSUME Typed, QueueInv, AtHead, NEW rest \in {<<>>, <<Save("seed")>>}, EndReload(rest), AsItWas,
           paused' \in {"no", "read", "explicit"}
    PROVE  MemoryTyped' /\ QueuesTyped' /\ clock' = clock /\ UNCHANGED <<acked, held, unsaved>>
<1>1. QueuesTyped' /\ clock' = clock
  BY EndReloadTyped
<1> QED
  BY <1>1 DEF AsItWas, Typed, MemoryTyped

LEMMA ReloadStepTyped ==
    ASSUME Typed, QueueInv, BuiltInv,
           \/ BeginReload \/ Proceed
           \/ \E ok \in BOOLEAN : ReadReload(ok) \/ BackupReload(ok) \/ Preserve(ok) \/ WriteReload(ok)
    PROVE  Typed'
<1>1. ASSUME Live, AtHead, step # "idle" PROVE loaded \in Files(clock)
  BY <1>1 DEF BuiltInv, LoadedInv, AtReload
<1>2. AtHead => Live
  BY SettingsTurn DEF AtHead
<1>3. ASSUME clock' = clock, MemoryTyped', QueuesTyped', UNCHANGED <<acked, held, unsaved>>, FilesTyped',
             left' \in [Kinds -> Nat], unread' \in BOOLEAN, foreign' \in BOOLEAN
      PROVE  Typed'
  BY <1>3 DEF Typed, HistoryTyped
<1>4. CASE BeginReload
  <2>1. /\ busy' = TRUE
        /\ UNCHANGED <<phase, disk, backups, settings, package, cache, paused, jobs,
                   pins, pinned, step, clock, left, history>>
    BY <1>4 DEF BeginReload
  <2> QED
    BY <2>1 DEF Typed, FilesTyped, MemoryTyped, QueuesTyped, HistoryTyped, history
<1>5. ASSUME NEW ok \in BOOLEAN, ReadReload(ok) PROVE Typed'
  <2>1. AtHead /\ UNCHANGED <<disk, backups, foreign>> /\ left' \in [Kinds -> Nat]
    BY <1>5, FaultsTyped DEF ReadReload
  <2>2. CASE ok /\ Readable
    <3>1. Stay /\ step' \in {"backup", "staged"} /\ paused' \in {"no", paused} /\ unread' \in BOOLEAN
      BY <1>5, <2>2 DEF ReadReload
    <3>2. paused' \in {"no", "read", "explicit"}
      BY <3>1 DEF Typed, MemoryTyped
    <3>3. MemoryTyped' /\ QueuesTyped' /\ clock' = clock /\ UNCHANGED <<acked, held, unsaved>>
      BY <3>1, <3>2, StayTyped
    <3> QED
      BY <1>3, <2>1, <3>1, <3>3, FilesFrame DEF Typed, HistoryTyped
  <2>3. CASE ~(ok /\ Readable)
    <3>1. EndReload(Seed(package)) /\ AsItWas /\ paused' = "read" /\ unread' = TRUE
      BY <1>5, <2>3 DEF ReadReload, Unchanged, Unreadable
    <3>2. MemoryTyped' /\ QueuesTyped' /\ clock' = clock /\ UNCHANGED <<acked, held, unsaved>>
      BY <2>1, <3>1, SeedIs, UnadoptedTyped
    <3> QED
      BY <1>3, <2>1, <3>1, <3>2, FilesFrame DEF Typed, HistoryTyped
  <2> QED
    BY <2>2, <2>3
<1>6. ASSUME NEW ok \in BOOLEAN, BackupReload(ok) PROVE Typed'
  <2>1. AtHead /\ step = "backup" /\ UNCHANGED <<disk, unread, foreign>> /\ left' \in [Kinds -> Nat]
    BY <1>6, FaultsTyped DEF BackupReload
  <2>2. CASE ok
    <3>1. Stay /\ step' = "staged" /\ paused' = "no" /\ BackedUp
      BY <1>6, <2>2 DEF BackupReload
    <3>2. MemoryTyped' /\ QueuesTyped' /\ clock' = clock /\ UNCHANGED <<acked, held, unsaved>>
      BY <3>1, StayTyped
    <3>3. FilesTyped'
      BY <1>1, <1>2, <2>1, <3>1, <3>2, BackedUpTyped DEF Typed, FilesTyped
    <3> QED
      BY <1>3, <2>1, <3>2, <3>3 DEF Typed, HistoryTyped
  <2>3. CASE ~ok
    <3>1. EndReload(Seed(package)) /\ AsItWas /\ paused' = "explicit" /\ backups' = backups
      BY <1>6, <2>3 DEF BackupReload, NotBackedUp, Unchanged
    <3>2. MemoryTyped' /\ QueuesTyped' /\ clock' = clock /\ UNCHANGED <<acked, held, unsaved>>
      BY <2>1, <3>1, SeedIs, UnadoptedTyped
    <3> QED
      BY <1>3, <2>1, <3>1, <3>2, FilesFrame DEF Typed, HistoryTyped
  <2> QED
    BY <2>2, <2>3
<1>7. CASE Proceed
  <2>1. AtHead /\ step = "staged" /\ UNCHANGED <<disk, backups, paused, left, unread>>
    BY <1>7 DEF Proceed
  <2>2. CASE next = loaded.pkg
    <3>1. Adopt /\ foreign' \in BOOLEAN
      BY <1>7, <2>2 DEF Proceed
    <3>2. next \in Whole(clock)
      BY <2>1, NextTyped
    <3>3. /\ QueuesTyped' /\ MemoryTyped' /\ clock' = clock /\ unsaved' = FALSE
          /\ acked' \in [Fields -> 0 .. clock] /\ held' \in 0 .. clock
      BY <2>1, <3>1, <3>2, AdoptTyped
    <3> QED
      BY <2>1, <3>1, <3>3, FilesFrame DEF Typed, HistoryTyped
  <2>3. CASE next # loaded.pkg
    <3>1. Stay /\ step' \in {"write", "preserve"} /\ foreign' = foreign
      BY <1>7, <2>3 DEF Proceed
    <3>2. MemoryTyped' /\ QueuesTyped' /\ clock' = clock /\ UNCHANGED <<acked, held, unsaved>>
      BY <2>1, <3>1, StayTyped DEF Typed, MemoryTyped
    <3> QED
      BY <1>3, <2>1, <3>1, <3>2, FilesFrame DEF Typed, HistoryTyped
  <2> QED
    BY <2>2, <2>3
<1>8. ASSUME NEW ok \in BOOLEAN, Preserve(ok) PROVE Typed'
  <2>1. AtHead /\ step = "preserve" /\ UNCHANGED <<disk, unread, foreign>> /\ left' \in [Kinds -> Nat]
    BY <1>8, FaultsTyped DEF Preserve
  <2>2. CASE ok
    <3>1. Stay /\ step' = "write" /\ paused' = "no" /\ BackedUp
      BY <1>8, <2>2 DEF Preserve
    <3>2. MemoryTyped' /\ QueuesTyped' /\ clock' = clock /\ UNCHANGED <<acked, held, unsaved>>
      BY <3>1, StayTyped
    <3>3. FilesTyped'
      BY <1>1, <1>2, <2>1, <3>1, <3>2, BackedUpTyped DEF Typed, FilesTyped
    <3> QED
      BY <1>3, <2>1, <3>2, <3>3 DEF Typed, HistoryTyped
  <2>3. CASE ~ok
    <3>1. EndReload(<<>>) /\ AsItWas /\ paused' = "explicit" /\ backups' = backups
      BY <1>8, <2>3 DEF Preserve, Thrown
    <3>2. MemoryTyped' /\ QueuesTyped' /\ clock' = clock /\ UNCHANGED <<acked, held, unsaved>>
      BY <2>1, <3>1, UnadoptedTyped
    <3> QED
      BY <1>3, <2>1, <3>1, <3>2, FilesFrame DEF Typed, HistoryTyped
  <2> QED
    BY <2>2, <2>3
<1>9. ASSUME NEW ok \in BOOLEAN, WriteReload(ok) PROVE Typed'
  <2>1. AtHead /\ step = "write" /\ UNCHANGED <<backups, paused>> /\ left' \in [Kinds -> Nat]
    BY <1>9, FaultsTyped DEF WriteReload
  <2>2. CASE ok
    <3>1. Adopt /\ Written(next) /\ next \in Whole(clock)
      BY <1>9, <2>1, <2>2, NextTyped DEF WriteReload
    <3>2. /\ QueuesTyped' /\ MemoryTyped' /\ clock' = clock /\ unsaved' = FALSE
          /\ acked' \in [Fields -> 0 .. clock] /\ held' \in 0 .. clock
      BY <2>1, <3>1, AdoptTyped
    <3>3. FilesTyped' /\ unread' \in BOOLEAN /\ foreign' \in BOOLEAN
      BY <2>1, <3>1, <3>2, FilesWritten
    <3> QED
      BY <2>1, <3>2, <3>3 DEF Typed, HistoryTyped
  <2>3. CASE ~ok
    <3>1. EndReload(<<>>) /\ AsItWas /\ UNCHANGED <<disk, unread, foreign>>
      BY <1>9, <2>3 DEF WriteReload, Thrown
    <3>2. paused' \in {"no", "read", "explicit"}
      BY <2>1 DEF Typed, MemoryTyped
    <3>3. MemoryTyped' /\ QueuesTyped' /\ clock' = clock /\ UNCHANGED <<acked, held, unsaved>>
      BY <2>1, <3>1, <3>2, UnadoptedTyped
    <3> QED
      BY <1>3, <2>1, <3>1, <3>3, FilesFrame DEF Typed, HistoryTyped
  <2> QED
    BY <2>2, <2>3
<1> QED
  BY <1>4, <1>5, <1>6, <1>7, <1>8, <1>9

\* What Sync leaves is typed up to the time it leaves it.
LEMMA ForeignTyped ==
    ASSUME Typed, NEW p \in Foreign PROVE p \in Package(clock + 1)
<1>1. /\ clock \in Nat /\ clock + 1 \in Nat /\ clock + 1 \in 0 .. clock + 1
      /\ package.pin \in Pins(clock + 1)
  BY ClockTicks, WholeFields, Later DEF Typed, MemoryTyped, HistoryTyped
<1>2. {NoPin, package.pin, [at |-> clock + 1, on |-> TRUE]} \subseteq Pins(clock + 1)
  BY <1>1, NoPinIsOldest DEF Pins
<1>3. PICK S \in SUBSET Fields :
          /\ p.vals = [f \in S |-> clock + 1] /\ p.pin \in Pins(clock + 1)
          /\ p.favorites \in BOOLEAN /\ p.bad \in BOOLEAN
          /\ p = [vals |-> p.vals, pin |-> p.pin, favorites |-> p.favorites, bad |-> p.bad]
  <2> DEFINE pin == {NoPin, package.pin, [at |-> clock + 1, on |-> TRUE]}
  <2>1. CASE p \in [vals : {[f \in Fields |-> clock + 1]}, pin : pin, favorites : {TRUE}, bad : BOOLEAN]
    <3>1. p.vals = [f \in Fields |-> clock + 1] /\ p.pin \in pin /\ p.favorites \in BOOLEAN /\ p.bad \in BOOLEAN
          /\ p = [vals |-> p.vals, pin |-> p.pin, favorites |-> p.favorites, bad |-> p.bad]
      BY <2>1
    <3> QED
      BY <1>2, <3>1
  <2>2. CASE p \in [vals : {[f \in Fields \ {g} |-> clock + 1] : g \in Fields}, pin : pin,
                    favorites : {FALSE}, bad : {FALSE}]
    <3>1. p.vals \in {[f \in Fields \ {g} |-> clock + 1] : g \in Fields} /\ p.pin \in pin
          /\ p.favorites \in BOOLEAN /\ p.bad \in BOOLEAN
          /\ p = [vals |-> p.vals, pin |-> p.pin, favorites |-> p.favorites, bad |-> p.bad]
      BY <2>2
    <3>2. PICK g \in Fields : p.vals = [f \in Fields \ {g} |-> clock + 1]
      BY <3>1
    <3> QED
      BY <1>2, <3>1, <3>2
  <2> QED
    BY <2>1, <2>2 DEF Foreign
<1>4. p.vals \in [S -> 0 .. clock + 1]
  BY <1>1, <1>3
<1> QED
  BY <1>1, <1>3, <1>4, PartTyped

LEMMA AskTyped == ASSUME Typed, QueueInv, Ask PROVE Typed'
<1>1. clock \in Nat
  BY DEF Typed, HistoryTyped
<1>2. ASSUME NEW f \in Fields, Edit(f) \/ Update(f) PROVE Typed'
  <2> DEFINE job == IF Edit(f) THEN Save("save") ELSE Job("update", f, clock')
  <2>1. /\ phase = "running" /\ clock' = clock + 1 /\ jobs' = Append(jobs, job)
        /\ UNCHANGED <<phase, disk, backups, package, cache, paused, busy, pinned, store, step, pins, history>>
    BY <1>2 DEF Edit, Update, Request
  <2>2. settings' = settings \/ settings' = [settings EXCEPT ![f] = clock']
    BY <1>2 DEF Edit, Update
  <2>3. left' \in [Kinds -> Nat]
    BY <1>2, FaultTyped DEF Edit, Update, Request, Kinds
  <2>4. /\ job \in Jobs(clock + 1) /\ job.kind \notin {"initial", "seed", "reload"}
        /\ (job.kind = "update" => job.field \in Fields)
    BY <1>1, <2>1 DEF Save, Job, Jobs
  <2>5. pinned # 0 => pins' # <<>>
    BY <2>1 DEF QueueInv, Turns
  <2>6. clock <= clock + 1 /\ clock + 1 \in Nat
    BY <1>1
  <2> HIDE DEF job
  <2>7. /\ jobs' \in Seq(Jobs(clock'))
        /\ \A i \in DOMAIN jobs' : jobs'[i].kind = "update" => jobs'[i].field \in Fields
    BY <2>1, <2>4, <2>5, <2>6, JobAppended
  <2>8. /\ settings' \in [Fields -> 0 .. clock'] /\ package' \in Whole(clock') /\ cache' \in Pins(clock')
        /\ pinned' \in 0 .. clock'
    <3>1. settings \in [Fields -> 0 .. clock'] /\ clock' \in 0 .. clock'
      BY <2>1, <2>6, ClockTicks DEF Typed, MemoryTyped
    <3>2. settings' \in [Fields -> 0 .. clock']
      BY <2>2, <3>1
    <3> QED
      BY <2>1, <3>2, ClockTicks DEF Typed, MemoryTyped, QueuesTyped
  <2>9. FilesTyped' /\ HistoryTyped'
    BY <2>1, <2>3, FilesTick, HistoryTick
  <2>10. MemoryTyped' /\ QueuesTyped'
    BY <2>1, <2>7, <2>8 DEF Typed, MemoryTyped, QueuesTyped
  <2> QED
    BY <2>9, <2>10 DEF Typed
<1>3. ASSUME NEW on \in BOOLEAN, Pin(on) PROVE Typed'
  <2>1. /\ UNCHANGED <<phase, disk, backups, settings, package, cache, paused, jobs, busy, pinned,
                       store, step, clock, history>>
        /\ pins' = Append(pins, on) /\ pins \in Seq(BOOLEAN)
    BY <1>3 DEF Pin, Request, Typed, QueuesTyped
  <2>2. pins' \in Seq(BOOLEAN)
    BY <2>1, QueueAppend
  <2>3. left' \in [Kinds -> Nat]
    BY <1>3, FaultTyped DEF Pin, Request, Kinds
  <2> QED
    BY <2>1, <2>2, <2>3 DEF Typed, FilesTyped, MemoryTyped, QueuesTyped, HistoryTyped, history
<1>4. CASE Reload
  <2>1. /\ phase = "running"
        /\ UNCHANGED <<phase, disk, backups, settings, package, cache, paused, busy, pins, pinned,
                       store, step, clock, history>>
        /\ \A i \in DOMAIN jobs : jobs[i].kind \notin {"reload", "seed"}
        /\ jobs' = Append(jobs, Save("reload"))
    BY <1>4 DEF Reload, Request
  <2>2. Save("reload") \in Jobs(clock) /\ Save("reload").kind = "reload"
    BY <1>1, SaveTyped
  <2>3. pinned # 0 => pins' # <<>>
    BY <2>1 DEF QueueInv, Turns
  <2>4. clock <= clock
    BY <1>1
  <2>5. /\ jobs' \in Seq(Jobs(clock))
        /\ \A i \in DOMAIN jobs' : jobs'[i].kind = "update" => jobs'[i].field \in Fields
    BY <1>1, <2>1, <2>2, <2>3, <2>4, JobAppended
  <2>6. left' \in [Kinds -> Nat]
    BY <1>4, FaultTyped DEF Reload, Request, Kinds
  <2> QED
    BY <2>1, <2>5, <2>6 DEF Typed, FilesTyped, MemoryTyped, QueuesTyped, HistoryTyped, history
<1> QED
  BY <1>2, <1>3, <1>4 DEF Ask

LEMMA SyncTyped == ASSUME Typed, Sync PROVE Typed'
<1>1. /\ clock' = clock + 1 /\ foreign' = TRUE /\ unread' = FALSE
      /\ UNCHANGED <<phase, backups, settings, package, cache, paused, jobs, busy, pins, pinned,
                     step, unsaved>>
  BY DEF Sync, memory, queues
<1>2. left' \in [Kinds -> Nat]
  BY FaultTyped DEF Sync, Kinds
<1>3. clock' \in Nat /\ clock' \in 0 .. clock' /\ clock \in Nat
  BY <1>1, ClockTicks
<1>4. Defaults \in Whole(clock') /\ Defaults.vals \in [Fields -> 0 .. clock'] /\ Defaults \in Package(clock')
  BY <1>3, DefaultsAreWhole, WholeIsPackage
<1>5. disk' \in Files(clock') /\ (disk'.form # "package" => disk'.pkg = Defaults)
  <2>1. CASE \E p \in Foreign : disk' = [form |-> "package", id |-> clock', pkg |-> p]
    BY <1>1, <1>3, <2>1, ForeignTyped DEF Files
  <2>2. CASE \E form \in {"other", "malformed", "missing"} :
                disk' = [form |-> form, id |-> clock', pkg |-> Defaults]
    BY <1>3, <1>4, <2>2 DEF Files
  <2> QED
    BY <2>1, <2>2 DEF Sync
<1>6. backups' \subseteq Files(clock')
  BY <1>1, ClockTicks DEF Typed, FilesTyped
<1>7. MemoryTyped'
  BY <1>1, ClockTicks DEF Typed, MemoryTyped
<1>8. QueuesTyped'
  BY <1>1, ClockTicks DEF Typed, QueuesTyped
<1>9. acked' \in [Fields -> 0 .. clock'] /\ held' \in 0 .. clock'
  <2>1. acked \in [Fields -> 0 .. clock'] /\ held \in 0 .. clock' /\ 0 \in 0 .. clock'
    BY <1>1, <1>3, ClockTicks DEF Typed, HistoryTyped
  <2> QED
    BY <1>4, <2>1 DEF Sync
<1> QED
  BY <1>1, <1>2, <1>3, <1>5, <1>6, <1>7, <1>8, <1>9 DEF Typed, FilesTyped, HistoryTyped

LEMMA StopTyped == ASSUME Typed, QueueInv, BuiltInv, Stop PROVE Typed'
<1>1. Off /\ UNCHANGED <<backups, clock>>
  BY DEF Stop
<1>2. /\ MemoryTyped' /\ QueuesTyped' /\ unsaved' = FALSE
      /\ acked' \in [Fields -> 0 .. clock] /\ held' \in 0 .. clock
  BY <1>1, OffTyped
<1>3. left' \in [Kinds -> Nat]
  BY FaultTyped DEF Stop, Kinds
<1>4. FilesTyped' /\ unread' \in BOOLEAN /\ foreign' \in BOOLEAN
  <2>1. CASE UNCHANGED <<disk, unread, foreign>>
    BY <1>1, <2>1, FilesFrame DEF Typed, HistoryTyped
  <2>2. CASE step \in {"write", "normalise"} /\ Written(next)
    BY <1>1, <2>2, NextTyped, FilesWritten
  <2> QED
    BY <2>1, <2>2 DEF Stop
<1> QED
  BY <1>1, <1>2, <1>3, <1>4 DEF Typed, HistoryTyped

LEMMA TypedStep == Typed /\ QueueInv /\ BuiltInv /\ [Next]_vars => Typed'
<1> SUFFICES ASSUME Typed, QueueInv, BuiltInv, [Next]_vars PROVE Typed'
  OBVIOUS
<1>1. CASE Run
  BY <1>1, ReadStartupTyped, StartupTyped, SaveStepTyped, PinStepTyped, ReloadStepTyped DEF Run
<1>2. CASE Start
  BY <1>2 DEF Start, memory, queues, history, Typed, FilesTyped, MemoryTyped, QueuesTyped, HistoryTyped
<1>3. CASE UNCHANGED vars
  BY <1>3 DEF vars, memory, queues, history, Typed, FilesTyped, MemoryTyped, QueuesTyped, HistoryTyped
<1> QED
  BY <1>1, <1>2, <1>3, AskTyped, SyncTyped, StopTyped DEF Next

LEMMA TypedInit == Init => Typed
<1> SUFFICES ASSUME Init PROVE Typed
  OBVIOUS
<1>1. clock = 0 /\ 0 \in Nat /\ 0 \in 0 .. 0
  BY DEF Init
<1>2. Defaults \in Whole(0) /\ Defaults.vals \in [Fields -> 0 .. 0] /\ Defaults \in Package(0) /\ NoPin \in Pins(0)
  BY <1>1, DefaultsAreWhole, WholeIsPackage, NoPinIsOldest
<1>3. FilesTyped
  BY <1>1, <1>2 DEF Init, FilesTyped, Files
<1>4. MemoryTyped
  BY <1>1, <1>2 DEF Init, MemoryTyped
<1>5. jobs = <<>> /\ pins = <<>> /\ jobs \in Seq(Jobs(0)) /\ pins \in Seq(BOOLEAN) /\ DOMAIN jobs = {}
  BY DEF Init
<1>6. QueuesTyped
  BY <1>1, <1>5 DEF Init, QueuesTyped
<1>7. HistoryTyped
  BY <1>1, <1>2, SettingsStorageAssumption DEF Init, HistoryTyped
<1> QED
  BY <1>3, <1>4, <1>6, <1>7 DEF Typed

----------------------------------------------------------------------------
(* What a position has built *)

\* Nothing is built at an idle store without a running save.
LEMMA BuiltIdle == ASSUME step' = "idle", ~Running' PROVE BuiltInv'
  BY DEF BuiltInv, SaveInv, PinInv, LoadedInv, AtReload, AtStartup

LEMMA NotRunning == ASSUME busy' = FALSE PROVE ~Running'
  BY DEF Running

\* Who is at a step keeps the head of saveQueue.
LEMMA StepTurn ==
    ASSUME Typed, QueueInv, Live, step # "idle"
    PROVE  /\ store # <<>> /\ Head(store) \in {"settings", "pin"}
           /\ Head(store) = "settings" => busy /\ jobs # <<>>
           /\ Head(store) = "pin" => step = "write" /\ ~AtHead
           /\ step = "write" \/ AtHead
<1>1. store # <<>> /\ step # "normalise"
  BY DEF QueueInv, StepInv
<1>2. Head(store) \in {"settings", "pin"}
  BY <1>1, TurnsTaken DEF QueueInv, Turns
<1>3. Head(store) = "settings" => busy /\ jobs # <<>>
  BY <1>1, SettingsTurn
<1>4. step \in {"backup", "staged", "preserve"} => AtHead
  BY DEF QueueInv, StepInv
<1>5. step \in {"backup", "staged", "preserve", "write"}
  BY <1>1 DEF Typed, QueuesTyped
<1> QED
  BY <1>1, <1>2, <1>3, <1>4, <1>5 DEF AtHead

\* Whoever else goes on, what is built stays.
LEMMA BuiltFrame ==
    ASSUME Typed, QueueInv, BuiltInv, clock' \in Nat, clock <= clock',
           UNCHANGED <<phase, package, paused, snapshot, previous, step, loaded, next>>,
           Running' => Running /\ Head(jobs') = Head(jobs),
           Live /\ step # "idle" => store' # <<>> /\ Head(store') = Head(store),
           Live /\ step # "idle" /\ Head(store) = "settings" =>
               busy' = busy /\ jobs' # <<>> /\ Head(jobs') = Head(jobs)
    PROVE  BuiltInv'
<1>1. clock \in Nat /\ Whole(clock) \subseteq Whole(clock') /\ Files(clock) \subseteq Files(clock')
  BY Later DEF Typed, HistoryTyped
<1>2. phase' = phase /\ package' = package /\ step' = step /\ next' = next /\ loaded' = loaded
  OBVIOUS
<1>3. Live' = Live
  BY <1>2 DEF Live
<1>4. SaveInv'
  <2> SUFFICES ASSUME Running'
               PROVE  /\ snapshot' \in Whole(clock') /\ previous' = package.vals /\ paused' = "no"
                      /\ Head(jobs').kind = "update" =>
                             snapshot'.vals[Head(jobs').field] = Head(jobs').value
                      /\ step = "write" /\ Head(store') = "settings" => next = Rebased(snapshot)
    BY <1>2 DEF SaveInv, Rebased
  <2>1. Running /\ Head(jobs') = Head(jobs) /\ snapshot' = snapshot /\ previous' = previous
    OBVIOUS
  <2>2. SaveInv
    BY DEF BuiltInv
  <2>3. step = "write" /\ Head(store') = "settings" => Head(store) = "settings"
    BY WriteTurn
  <2> QED
    BY <1>1, <2>1, <2>2, <2>3 DEF SaveInv
<1>5. PinInv'
  <2>1. PinInv
    BY DEF BuiltInv
  <2>2. Live /\ step = "write" /\ Head(store') = "pin" => Head(store) = "pin"
    OBVIOUS
  <2> QED
    BY <1>1, <1>2, <1>3, <2>1, <2>2 DEF PinInv
<1>6. LoadedInv'
  <2>1. LoadedInv
    BY DEF BuiltInv
  <2>2. AtReload' => AtReload
    <3>1. SUFFICES ASSUME AtReload' PROVE AtReload
      OBVIOUS
    <3>2. Live /\ step # "idle" /\ Head(store') = "settings" /\ Head(jobs').kind = "reload"
      BY <1>2, <1>3, <3>1 DEF AtReload, AtHead, Reloading
    <3>3. Head(store) = "settings" /\ jobs # <<>> /\ store # <<>>
      BY <3>2, StepTurn
    <3>4. Head(jobs).kind = "reload"
      BY <3>2, <3>3
    <3> QED
      BY <3>2, <3>3, <3>4 DEF AtReload, AtHead, Reloading
  <2>3. AtStartup' = AtStartup
    BY <1>2 DEF AtStartup
  <2> QED
    BY <1>1, <1>2, <2>1, <2>2, <2>3 DEF LoadedInv
<1> QED
  BY <1>4, <1>5, <1>6 DEF BuiltInv

LEMMA AskBuilt == ASSUME Typed, QueueInv, BuiltInv, Ask PROVE BuiltInv'
<1>1. clock \in Nat /\ jobs \in Seq(Jobs(clock)) /\ jobs \in Seq(Jobs(clock + 1))
  BY ClockTicks, Later DEF Typed, HistoryTyped, QueuesTyped
<1>2. /\ UNCHANGED <<phase, package, paused, busy, snapshot, previous, store, step, loaded, next>>
      /\ clock' \in {clock, clock + 1}
  BY DEF Ask, Edit, Update, Pin, Reload, Request
<1>3. jobs # <<>> => jobs' # <<>> /\ Head(jobs') = Head(jobs)
  <2>1. ASSUME NEW job \in Jobs(clock + 1), jobs' = Append(jobs, job)
        PROVE  jobs # <<>> => jobs' # <<>> /\ Head(jobs') = Head(jobs)
    BY <1>1, <2>1, QueueAppend
  <2>2. ASSUME NEW f \in Fields, Edit(f) PROVE jobs # <<>> => jobs' # <<>> /\ Head(jobs') = Head(jobs)
    <3>1. jobs' = Append(jobs, Save("save")) /\ Save("save") \in Jobs(clock + 1)
      BY <1>1, <2>2, SaveTyped DEF Edit
    <3> QED
      BY <2>1, <3>1
  <2>3. ASSUME NEW f \in Fields, Update(f) PROVE jobs # <<>> => jobs' # <<>> /\ Head(jobs') = Head(jobs)
    <3>1. /\ jobs' = Append(jobs, Job("update", f, clock + 1))
          /\ Job("update", f, clock + 1) \in Jobs(clock + 1)
      BY <1>1, <2>3 DEF Update, Job, Jobs
    <3> QED
      BY <2>1, <3>1
  <2>4. CASE Reload
    <3>1. jobs' = Append(jobs, Save("reload")) /\ Save("reload") \in Jobs(clock + 1)
      BY <1>1, <2>4, SaveTyped DEF Reload
    <3> QED
      BY <2>1, <3>1
  <2>5. ASSUME NEW on \in BOOLEAN, Pin(on) PROVE jobs' = jobs
    BY <2>5 DEF Pin
  <2> QED
    BY <2>2, <2>3, <2>4, <2>5 DEF Ask
<1>4. busy => jobs # <<>>
  BY DEF QueueInv, Turns
<1>5. Running' => Running /\ Head(jobs') = Head(jobs)
  BY <1>2, <1>3, <1>4 DEF Running, Saving
<1>6. Live /\ step # "idle" => store # <<>> /\ (Head(store) = "settings" => jobs # <<>>)
  BY StepTurn
<1>7. clock' \in Nat /\ clock <= clock'
  BY <1>1, <1>2
<1> QED
  BY <1>2, <1>3, <1>5, <1>6, <1>7, BuiltFrame

LEMMA SyncBuilt == ASSUME Typed, QueueInv, BuiltInv, Sync PROVE BuiltInv'
<1>1. /\ UNCHANGED <<phase, package, paused, jobs, busy, snapshot, previous, store, step, loaded, next>>
      /\ clock' = clock + 1
  BY DEF Sync, memory, queues
<1>2. clock' \in Nat /\ clock <= clock'
  BY <1>1, ClockTicks
<1>3. Running' => Running
  BY <1>1 DEF Running, Saving
<1>4. Live /\ step # "idle" => store # <<>> /\ (Head(store) = "settings" => jobs # <<>>)
  BY StepTurn
<1> QED
  BY <1>1, <1>2, <1>3, <1>4, BuiltFrame

\* A session ends or begins.
LEMMA OffBuilt == ASSUME Off PROVE BuiltInv'
  BY BuiltIdle, NotRunning DEF Off

LEMMA HydrateBuilt ==
    ASSUME QueueInv, ~Live, NEW p, Hydrate(p), step' = "idle" PROVE BuiltInv'
<1>1. busy' = FALSE
  BY NoTurns DEF Hydrate, QueueInv, Turns
<1> QED
  BY <1>1, BuiltIdle, NotRunning

LEMMA StartupBuilt ==
    ASSUME Typed, QueueInv, BuiltInv, NEW ok \in BOOLEAN,
           ReadStartup(ok) \/ BackupStartup(ok) \/ WriteStartup(ok)
    PROVE  BuiltInv'
<1>1. CASE ReadStartup(ok)
  <2>1. /\ phase = "reading" /\ ~Live /\ step = "idle" /\ UNCHANGED <<disk, clock>>
        /\ \/ \E p : Hydrate(p) /\ step' = step
           \/ loaded' = disk /\ step' = "backup" /\ UNCHANGED <<phase, busy>>
    BY <1>1, StartupReads
  <2>2. CASE \E p : Hydrate(p) /\ step' = step
    BY <2>1, <2>2, HydrateBuilt
  <2>3. CASE loaded' = disk /\ step' = "backup" /\ UNCHANGED <<phase, busy>>
    <3>1. ~busy' /\ ~Live' /\ disk \in Files(clock)
      BY <2>1, <2>3, NoTurns DEF Live, Typed, FilesTyped
    <3> QED
      BY <2>1, <2>3, <3>1 DEF BuiltInv, SaveInv, Running, PinInv, LoadedInv, AtReload, AtStartup
  <2> QED
    BY <2>1, <2>2, <2>3
<1>2. CASE BackupStartup(ok) /\ ok
  <2>1. /\ phase = "reading" /\ step = "backup" /\ UNCHANGED <<phase, busy, loaded, clock>>
        /\ step' = "normalise" /\ next' = Normal(Merge(loaded.pkg, Defaults))
    BY <1>2 DEF BackupStartup
  <2>2. ~Live /\ ~Live' /\ AtStartup
    BY <2>1 DEF Live, AtStartup
  <2>3. ~busy' /\ loaded' \in Files(clock')
    BY <2>1, <2>2, NoTurns DEF BuiltInv, LoadedInv
  <2>4. next' = Normal(Merge(loaded'.pkg, Defaults))
    BY <2>1
  <2> QED
    BY <2>1, <2>2, <2>3, <2>4 DEF BuiltInv, SaveInv, Running, PinInv, LoadedInv, AtReload, Normal, Merge,
       Newer, Defaults
<1>3. CASE BackupStartup(ok) /\ ~ok
  <2>1. phase = "reading" /\ Hydrate(Merge(loaded.pkg, Defaults)) /\ step' = "idle"
    BY <1>3 DEF BackupStartup
  <2> QED
    BY <2>1, HydrateBuilt DEF Live
<1>4. CASE WriteStartup(ok)
  <2>1. phase = "reading" /\ ((Hydrate(next) /\ step' = "idle") \/ Off)
    BY <1>4 DEF WriteStartup
  <2> QED
    BY <2>1, HydrateBuilt, OffBuilt DEF Live
<1> QED
  BY <1>1, <1>2, <1>3, <1>4

\* A save has its turn.
LEMMA EndSaveBuilt == ASSUME NEW ok, NEW p, EndSave(ok, p) PROVE BuiltInv'
<1>1. CASE Off
  BY <1>1, OffBuilt
<1>2. CASE busy' = FALSE /\ Release
  BY <1>2, BuiltIdle, NotRunning DEF Release
<1> QED
  BY <1>1, <1>2 DEF EndSave

LEMMA SaveBuilt ==
    ASSUME Typed, QueueInv, BuiltInv, BeginSave \/ StoreSave \/ \E ok \in BOOLEAN : WriteSave(ok)
    PROVE  BuiltInv'
<1>1. /\ clock \in Nat /\ package \in Whole(clock) /\ cache \in Pins(clock)
      /\ settings \in [Fields -> 0 .. clock]
  BY DEF Typed, MemoryTyped, HistoryTyped
<1>2. CASE BeginSave
  <2>1. /\ Live /\ jobs # <<>> /\ Head(jobs).kind # "reload" /\ ~busy
        /\ UNCHANGED <<package, paused, step, loaded, next, clock>>
    BY <1>2 DEF BeginSave, Saving, Live
  <2>2. step # "idle" => store # <<>> /\ Head(store) = "pin" /\ step = "write"
    BY <2>1, StepTurn
  <2>3. CASE paused = "no"
    <3> DEFINE vals == IF Head(jobs).kind = "update"
                       THEN [settings EXCEPT ![Head(jobs).field] = Head(jobs).value] ELSE settings
    <3>1. /\ settings' = vals /\ previous' = package.vals /\ snapshot' = [Build EXCEPT !.vals = vals]
          /\ store' = Append(store, "settings") /\ UNCHANGED <<phase, jobs>>
      BY <1>2, <2>3 DEF BeginSave
    <3>2. Head(jobs) \in Jobs(clock) /\ (Head(jobs).kind = "update" => Head(jobs).field \in Fields)
          /\ Head(jobs).value \in 0 .. clock
      <4>1. 1 \in DOMAIN jobs /\ jobs[1] = Head(jobs) /\ Head(jobs) \in Jobs(clock)
        BY <2>1, QueueTail DEF Typed, QueuesTyped
      <4> QED
        BY <4>1 DEF Typed, QueuesTyped, Jobs
    <3>3. vals \in [Fields -> 0 .. clock]
          /\ (Head(jobs).kind = "update" => vals[Head(jobs).field] = Head(jobs).value)
      BY <1>1, <3>2
    <3>4. snapshot' = [vals |-> vals, pin |-> cache, favorites |-> TRUE, bad |-> FALSE]
      BY <3>1 DEF Build
    <3>5. store' = IF pinned = 0 THEN <<"settings">> ELSE <<"pin", "settings">>
      BY <2>1, <3>1, TurnSettings
    <3>6. step # "idle" => Head(store') = "pin"
      <4>1. step # "idle" => pinned # 0
        BY <2>2, PinTurn
      <4> QED
        BY <3>5, <4>1, TurnsTaken
    <3> HIDE DEF vals
    <3>7. snapshot' \in Whole(clock) /\ snapshot'.vals = vals
      BY <1>1, <3>3, <3>4 DEF Whole
    <3>8. SaveInv'
      BY <2>1, <2>2, <2>3, <3>1, <3>3, <3>6, <3>7 DEF SaveInv
    <3>9. PinInv'
      BY <2>1, <2>2, <3>1 DEF BuiltInv, PinInv, Live
    <3>10. LoadedInv'
      <4>1. ~AtReload' /\ ~AtStartup'
        BY <2>1, <3>1 DEF AtReload, AtHead, Reloading, AtStartup, Live
      <4> QED
        BY <4>1 DEF LoadedInv
    <3> QED
      BY <3>8, <3>9, <3>10 DEF BuiltInv
  <2>4. CASE paused # "no"
    <3>1. phase' = "running" /\ UNCHANGED <<busy, store>>
      BY <1>2, <2>4 DEF BeginSave
    <3>2. ~Running'
      BY <2>1, <3>1 DEF Running
    <3>3. ~AtReload' /\ ~AtStartup'
      BY <2>1, <2>2, <3>1 DEF AtReload, AtHead, AtStartup
    <3>4. PinInv'
      BY <2>1, <3>1 DEF BuiltInv, PinInv
    <3> QED
      BY <3>2, <3>3, <3>4 DEF BuiltInv, SaveInv, LoadedInv
  <2> QED
    BY <2>3, <2>4
<1>3. CASE StoreSave
  <2>1. store # <<>> /\ Head(store) = "settings" /\ Saving /\ busy /\ clock' = clock
    BY <1>3 DEF StoreSave
  <2>2. CASE Rebased(snapshot) = package \/ paused # "no"
    BY <1>3, <2>2, EndSaveBuilt DEF StoreSave
  <2>3. CASE ~(Rebased(snapshot) = package \/ paused # "no")
    <3>1. /\ next' = Rebased(snapshot) /\ step' = "write"
          /\ UNCHANGED <<phase, package, paused, jobs, busy, snapshot, previous, store, loaded>>
      BY <1>3, <2>3 DEF StoreSave
    <3>2. SaveInv'
      BY <2>1, <3>1 DEF BuiltInv, SaveInv, Running, Saving, Rebased
    <3>3. PinInv'
      BY <2>1, <3>1 DEF PinInv
    <3>4. ~AtReload' /\ ~AtStartup'
      BY <2>1, <3>1, SettingsTurn DEF AtReload, AtHead, Reloading, AtStartup, Saving, Live
    <3> QED
      BY <3>2, <3>3, <3>4 DEF BuiltInv, LoadedInv
  <2> QED
    BY <2>2, <2>3
<1>4. ASSUME NEW ok \in BOOLEAN, WriteSave(ok) PROVE BuiltInv'
  BY <1>4, EndSaveBuilt DEF WriteSave
<1> QED
  BY <1>2, <1>3, <1>4

\* A pin change has its turn; it leaves the values as they are.
LEMMA EndPinBuilt ==
    ASSUME Typed, QueueInv, BuiltInv, NEW ok \in BOOLEAN, NEW p, p.vals = package.vals, EndPin(ok, p),
           UNCHANGED <<phase, paused, jobs, busy, snapshot, previous, clock>>
    PROVE  BuiltInv' /\ package'.vals = package.vals
<1>1. step' = "idle" /\ package'.vals = package.vals
  BY DEF EndPin, Release
<1>2. SaveInv'
  BY <1>1 DEF BuiltInv, SaveInv, Running, Saving
<1> QED
  BY <1>1, <1>2 DEF BuiltInv, PinInv, LoadedInv, AtReload, AtStartup

LEMMA PinBuilds ==
    ASSUME Typed, QueueInv, BuiltInv, step = "write", Head(store) = "pin"
    PROVE  next \in Whole(clock) /\ next.vals = package.vals
<1>1. clock \in Nat /\ package \in Whole(clock)
  BY DEF Typed, MemoryTyped, HistoryTyped
<1>2. next = [package EXCEPT !.pin = next.pin] /\ next \in Whole(clock)
  BY WriteTurn DEF BuiltInv, PinInv
<1>3. PICK pin \in Pins(clock) : next = [package EXCEPT !.pin = pin]
  BY <1>1, <1>2, WholeFields
<1>4. [package EXCEPT !.pin = pin].vals = package.vals
  BY <1>1, RepinnedFields
<1> QED
  BY <1>2, <1>3, <1>4

LEMMA PinBuilt ==
    ASSUME Typed, QueueInv, BuiltInv, BeginPin \/ StorePin \/ \E ok \in BOOLEAN : WritePin(ok)
    PROVE  BuiltInv'
<1>1. /\ clock \in Nat /\ package \in Whole(clock) /\ package.pin \in Pins(clock)
      /\ cache \in Pins(clock) /\ pins \in Seq(BOOLEAN) /\ pinned \in 0 .. clock
  BY WholeFields DEF Typed, MemoryTyped, QueuesTyped, HistoryTyped
<1>2. CASE BeginPin
  <2>1. /\ clock' = clock + 1 /\ pinned = 0
        /\ UNCHANGED <<phase, package, paused, jobs, busy, snapshot, previous, step, loaded, next>>
    BY <1>2 DEF BeginPin
  <2>2. clock' \in Nat /\ clock <= clock'
    BY <1>1, <2>1
  <2>3. store' = store \/ store' = IF busy THEN <<"settings", "pin">> ELSE <<"pin">>
    <3>1. store' = store \/ store' = Append(store, "pin")
      BY <1>2 DEF BeginPin
    <3> QED
      BY <2>1, <3>1, TurnPin
  <2>4. Live /\ step # "idle" => store' # <<>> /\ Head(store') = Head(store)
    <3>1. SUFFICES ASSUME Live, step # "idle" PROVE store' # <<>> /\ Head(store') = Head(store)
      OBVIOUS
    <3>2. store # <<>> /\ Head(store) \in {"settings", "pin"} /\ (Head(store) = "settings" => busy)
      BY <3>1, StepTurn
    <3>3. Head(store) # "pin"
      BY <2>1, <3>2, PinTurn
    <3> QED
      BY <2>3, <3>2, <3>3, TurnsTaken
  <2>5. Running' => Running /\ Head(jobs') = Head(jobs)
    BY <2>1 DEF Running, Saving
  <2>6. Live /\ step # "idle" /\ Head(store) = "settings" => jobs' # <<>>
    BY <2>1, StepTurn
  <2> QED
    BY <2>1, <2>2, <2>4, <2>5, <2>6, BuiltFrame
<1>3. CASE StorePin
  <2> DEFINE pin == Pinned(Newer(package.pin, cache), Head(pins), pinned)
             p   == [package EXCEPT !.pin = pin]
  <2>1. /\ store # <<>> /\ Head(store) = "pin"
        /\ UNCHANGED <<phase, paused, jobs, busy, snapshot, previous, loaded, clock>>
    BY <1>3 DEF StorePin
  <2>2. pins # <<>> /\ Live
    BY <2>1, PinTurn
  <2>3. p \in Whole(clock) /\ p.vals = package.vals /\ p.pin = pin
    <3>1. Head(pins) \in BOOLEAN
      BY <1>1, <2>2, QueueTail
    <3>2. pin \in Pins(clock)
      BY <1>1, <3>1, NewerPin, PinnedTyped
    <3> QED
      BY <1>1, <3>2, RepinnedFields
  <2>4. p = [package EXCEPT !.pin = p.pin]
    BY <2>3
  <2>5. CASE p = package \/ paused # "no"
    <3>1. (p = package) \in BOOLEAN
      OBVIOUS
    <3>2. EndPin(p = package, p)
      BY <1>3, <2>5 DEF StorePin
    <3> HIDE DEF p
    <3> QED
      BY <2>1, <2>3, <3>1, <3>2, EndPinBuilt
  <2>6. CASE ~(p = package \/ paused # "no")
    <3>1. step' = "write" /\ next' = p /\ UNCHANGED <<package, store>>
      BY <1>3, <2>6 DEF StorePin
    <3> HIDE DEF p
    <3>2. SaveInv'
      BY <2>1, <3>1 DEF BuiltInv, SaveInv, Running, Saving
    <3>3. PinInv'
      BY <2>1, <2>3, <2>4, <3>1 DEF PinInv
    <3>4. ~AtReload' /\ ~AtStartup'
      BY <2>1, <2>2, <3>1 DEF AtReload, AtHead, AtStartup, Live
    <3> QED
      BY <3>2, <3>3, <3>4 DEF BuiltInv, LoadedInv
  <2> QED
    BY <2>5, <2>6
<1>4. ASSUME NEW ok \in BOOLEAN, WritePin(ok) PROVE BuiltInv'
  <2>1. /\ step = "write" /\ Head(store) = "pin" /\ EndPin(ok, next)
        /\ UNCHANGED <<phase, paused, jobs, busy, snapshot, previous, clock>>
    BY <1>4 DEF WritePin
  <2>2. next.vals = package.vals
    BY <2>1, PinBuilds
  <2> QED
    BY <2>1, <2>2, EndPinBuilt
<1> QED
  BY <1>2, <1>3, <1>4

\* A reload holds the turn of the settings.
LEMMA EndReloadBuilt == ASSUME NEW rest, EndReload(rest) PROVE BuiltInv'
  BY BuiltIdle, NotRunning DEF EndReload

LEMMA StayBuilt ==
    ASSUME QueueInv, AtHead, Stay, loaded' \in Files(clock),
           step' # "backup" => next' = Normal(Merge(loaded'.pkg, package))
    PROVE  BuiltInv'
<1>1. UNCHANGED <<phase, package, jobs, busy, store, clock>> /\ Live
  BY SettingsTurn DEF Stay, AtHead
<1>2. ~Running'
  BY <1>1 DEF AtHead, Reloading, Running, Saving
<1>3. PinInv'
  BY <1>1 DEF AtHead, PinInv
<1>4. ~AtStartup'
  BY <1>1 DEF Live, AtStartup
<1>6. LoadedInv'
  BY <1>1, <1>4 DEF LoadedInv
<1> QED
  BY <1>2, <1>3, <1>6 DEF BuiltInv, SaveInv

LEMMA ReloadBuilt ==
    ASSUME Typed, QueueInv, BuiltInv,
           \/ BeginReload \/ Proceed
           \/ \E ok \in BOOLEAN : ReadReload(ok) \/ BackupReload(ok) \/ Preserve(ok) \/ WriteReload(ok)
    PROVE  BuiltInv'
<1>1. clock \in Nat /\ package \in Whole(clock) /\ disk \in Files(clock)
  BY DEF Typed, FilesTyped, MemoryTyped, HistoryTyped
<1>2. AtHead => Live
  BY SettingsTurn DEF AtHead
<1>3. CASE BeginReload
  <2>1. /\ phase = "running" /\ jobs # <<>> /\ Head(jobs).kind = "reload" /\ ~busy /\ busy' = TRUE
        /\ store' = Append(store, "settings")
        /\ UNCHANGED <<phase, package, paused, jobs, snapshot, previous, step, loaded, next, clock>>
    BY <1>3 DEF BeginReload, Reloading
  <2>2. ~Running'
    BY <2>1 DEF Running, Saving
  <2>3. step # "idle" => Head(store) = "pin" /\ Head(store') = "pin" /\ store' # <<>>
    <3>1. Live
      BY <2>1 DEF Live
    <3>2. step # "idle" => store # <<>> /\ Head(store) = "pin"
      BY <2>1, <3>1, StepTurn
    <3>3. step # "idle" => pinned # 0
      BY <3>2, PinTurn
    <3>4. store' = IF pinned = 0 THEN <<"settings">> ELSE <<"pin", "settings">>
      BY <2>1, TurnSettings
    <3> QED
      BY <3>2, <3>3, <3>4, TurnsTaken
  <2>4. Live /\ step # "idle" /\ Head(store) = "settings" => FALSE
    BY <2>3
  <2>5. clock' \in Nat /\ clock <= clock'
    BY <1>1, <2>1
  <2> QED
    BY <2>1, <2>2, <2>3, <2>4, <2>5, BuiltFrame
<1>4. ASSUME NEW ok \in BOOLEAN, ReadReload(ok) PROVE BuiltInv'
  <2>1. CASE ok /\ Readable
    <3>1. AtHead /\ Stay /\ loaded' = disk
      BY <1>4, <2>1 DEF ReadReload
    <3>2. CASE disk.pkg.bad
      BY <1>1, <1>4, <2>1, <3>1, <3>2, StayBuilt DEF ReadReload
    <3>3. CASE ~disk.pkg.bad
      <4>1. next' = Merge(disk.pkg, package)
        BY <1>4, <2>1, <3>3 DEF ReadReload
      <4>2. /\ Merge(disk.pkg, package) \in Whole(clock) /\ disk.pkg \in Package(clock)
            /\ Merge(disk.pkg, package).bad = disk.pkg.bad
        BY <1>1, MergeFields DEF Files
      <4>3. next' = Normal(Merge(loaded'.pkg, package))
        BY <1>1, <3>1, <3>3, <4>1, <4>2, NormalFields
      <4> QED
        BY <1>1, <3>1, <4>3, StayBuilt
    <3> QED
      BY <3>2, <3>3
  <2>2. CASE ~(ok /\ Readable)
    BY <1>4, <2>2, EndReloadBuilt DEF ReadReload, Unchanged
  <2> QED
    BY <2>1, <2>2
<1>5. ASSUME AtHead, step # "idle" PROVE AtReload /\ loaded \in Files(clock)
                                        /\ (step # "backup" => next = Normal(Merge(loaded.pkg, package)))
  BY <1>2, <1>5 DEF AtReload, BuiltInv, LoadedInv
<1>6. ASSUME NEW ok \in BOOLEAN, BackupReload(ok) PROVE BuiltInv'
  <2>1. AtHead /\ step = "backup"
    BY <1>6 DEF BackupReload
  <2>2. CASE ok
    <3>1. Stay /\ loaded' = loaded /\ next' = Normal(Merge(loaded.pkg, package))
      BY <1>6, <2>2 DEF BackupReload
    <3> QED
      BY <1>5, <2>1, <3>1, StayBuilt
  <2>3. CASE ~ok
    BY <1>6, <2>3, EndReloadBuilt DEF BackupReload, NotBackedUp, Unchanged
  <2> QED
    BY <2>2, <2>3
<1>7. CASE Proceed
  <2>1. AtHead /\ step = "staged"
    BY <1>7 DEF Proceed
  <2>2. CASE next = loaded.pkg
    BY <1>7, <2>2, EndReloadBuilt DEF Proceed, Adopt
  <2>3. CASE next # loaded.pkg
    <3>1. Stay /\ loaded' = loaded /\ next' = next
      BY <1>7, <2>3 DEF Proceed
    <3> QED
      BY <1>5, <2>1, <3>1, StayBuilt
  <2> QED
    BY <2>2, <2>3
<1>8. ASSUME NEW ok \in BOOLEAN, Preserve(ok) PROVE BuiltInv'
  <2>1. AtHead /\ step = "preserve"
    BY <1>8 DEF Preserve
  <2>2. CASE ok
    <3>1. Stay /\ loaded' = loaded /\ next' = next
      BY <1>8, <2>2 DEF Preserve
    <3> QED
      BY <1>5, <2>1, <3>1, StayBuilt
  <2>3. CASE ~ok
    BY <1>8, <2>3, EndReloadBuilt DEF Preserve, Thrown
  <2> QED
    BY <2>2, <2>3
<1>9. ASSUME NEW ok \in BOOLEAN, WriteReload(ok) PROVE BuiltInv'
  BY <1>9, EndReloadBuilt DEF WriteReload, Adopt, Thrown
<1> QED
  BY <1>3, <1>4, <1>6, <1>7, <1>8, <1>9

LEMMA BuiltStep == Typed /\ QueueInv /\ BuiltInv /\ [Next]_vars => BuiltInv'
<1> SUFFICES ASSUME Typed, QueueInv, BuiltInv, [Next]_vars PROVE BuiltInv'
  OBVIOUS
<1>1. CASE Run
  BY <1>1, StartupBuilt, SaveBuilt, PinBuilt, ReloadBuilt DEF Run
<1>2. CASE Start
  <2>1. phase = "off" /\ step' = step /\ busy' = busy
    BY <1>2 DEF Start, memory, queues
  <2>2. step = "idle" /\ ~busy
    BY <2>1 DEF QueueInv, PhaseInv, Live
  <2> QED
    BY <2>1, <2>2, BuiltIdle DEF Running
<1>3. CASE UNCHANGED vars
  BY <1>3 DEF vars, memory, queues, BuiltInv, SaveInv, PinInv, LoadedInv, Running, Saving, AtReload,
     AtStartup, AtHead, Reloading, Live, Rebased
<1>4. CASE Stop
  BY <1>4, OffBuilt DEF Stop
<1> QED
  BY <1>1, <1>2, <1>3, <1>4, AskBuilt, SyncBuilt DEF Next

LEMMA BuiltInit == Init => BuiltInv
  BY DEF Init, BuiltInv, SaveInv, PinInv, LoadedInv, Running, AtReload, AtStartup

----------------------------------------------------------------------------
(* What could not be read *)

\* Nothing that counts for it has changed, or nothing counts.
LEMMA UnreadFrame ==
    ASSUME UnreadInv, UNCHANGED <<disk, backups, paused, unread, step>>, Live' => Live PROVE UnreadInv'
  BY DEF UnreadInv, Readable

LEMMA UnreadIdle ==
    ASSUME step' = "idle", paused' # "no" \/ ~Live' PROVE UnreadInv'
  BY DEF UnreadInv

LEMMA UnreadKept ==
    ASSUME UnreadInv, disk' = disk, backups \subseteq backups', unread' => unread,
           step # "backup", step # "idle" \/ (paused = "no" /\ Live)
    PROVE  UnreadInv'
  BY DEF UnreadInv

LEMMA UnreadWritten == ASSUME NEW p, Written(p) PROVE UnreadInv'
  BY DEF Written, UnreadInv

LEMMA UnreadBacked ==
    ASSUME Typed, UnreadInv, step = "backup", BackedUp, disk' = disk, unread' = unread PROVE UnreadInv'
<1>1. unread => disk \in backups \/ disk.form # "missing"
  BY DEF UnreadInv, Readable
<1>2. unread => disk \in backups'
  BY <1>1 DEF BackedUp
<1> QED
  BY <1>2 DEF UnreadInv

LEMMA OffUnread == ASSUME Off PROVE UnreadInv'
  BY UnreadIdle DEF Off, Live

LEMMA EndSaveUnread ==
    ASSUME UnreadInv, Live, NEW ok, NEW p, EndSave(ok, p), disk' = disk, unread' = unread, backups' = backups,
           step = "write" \/ step = "idle"
    PROVE  UnreadInv'
<1>1. CASE Off
  BY <1>1, OffUnread
<1>2. CASE step' = "idle" /\ paused' = paused
  BY <1>2 DEF UnreadInv
<1> QED
  BY <1>1, <1>2 DEF EndSave, Release

LEMMA UnreadStep == Typed /\ QueueInv /\ BuiltInv /\ UnreadInv /\ [Next]_vars => UnreadInv'
<1> SUFFICES ASSUME Typed, QueueInv, BuiltInv, UnreadInv, [Next]_vars PROVE UnreadInv'
  OBVIOUS
<1>1. ASSUME NEW ok \in BOOLEAN, ReadStartup(ok) PROVE UnreadInv'
  <2>1. /\ disk' = disk
        /\ \/ unread' = FALSE
           \/ Readable /\ step' = "backup"
           \/ Unreadable /\ step' = step /\ step = "idle"
    BY <1>1, StartupReads
  <2> QED
    BY <2>1 DEF UnreadInv, Readable, Unreadable
<1>2. ASSUME NEW ok \in BOOLEAN, BackupStartup(ok) PROVE UnreadInv'
  <2>1. step = "backup" /\ disk' = disk /\ unread' = unread
    BY <1>2 DEF BackupStartup
  <2>2. CASE ok
    BY <1>2, <2>1, <2>2, UnreadBacked DEF BackupStartup
  <2>3. CASE ~ok
    BY <1>2, <2>3, UnreadIdle DEF BackupStartup
  <2> QED
    BY <2>2, <2>3
<1>3. ASSUME NEW ok \in BOOLEAN, WriteStartup(ok) PROVE UnreadInv'
  BY <1>3, UnreadWritten, OffUnread DEF WriteStartup
<1>4. CASE BeginSave
  BY <1>4, UnreadFrame DEF BeginSave, Live
<1>5. CASE StoreSave
  <2>1. /\ Live /\ step = "idle" /\ disk' = disk /\ backups' = backups /\ unread' = unread
    BY <1>5, SettingsTurn DEF StoreSave
  <2>2. CASE Rebased(snapshot) = package \/ paused # "no"
    BY <1>5, <2>1, <2>2, EndSaveUnread DEF StoreSave
  <2>3. CASE ~(Rebased(snapshot) = package \/ paused # "no")
    BY <2>1, <2>3, UnreadKept
  <2> QED
    BY <2>2, <2>3
<1>6. ASSUME NEW ok \in BOOLEAN, WriteSave(ok) PROVE UnreadInv'
  <2>1. step = "write" /\ Live /\ EndSave(ok, next) /\ backups' = backups
    BY <1>6, WriteTurn DEF WriteSave
  <2> QED
    BY <1>6, <2>1, EndSaveUnread, UnreadWritten DEF WriteSave
<1>7. CASE BeginPin
  BY <1>7, UnreadFrame DEF BeginPin, history, Live
<1>8. CASE StorePin
  <2> DEFINE p == [package EXCEPT !.pin = Pinned(Newer(package.pin, cache), Head(pins), pinned)]
  <2>1. /\ Live /\ step = "idle" /\ disk' = disk /\ backups' = backups /\ unread' = unread
        /\ paused' = paused /\ Live' = Live
    BY <1>8, PinTurn DEF StorePin, Live
  <2>2. CASE p = package \/ paused # "no"
    <3>1. step' = "idle"
      BY <1>8, <2>2 DEF StorePin, EndPin, Release
    <3> QED
      BY <2>1, <3>1, UnreadFrame
  <2>3. CASE ~(p = package \/ paused # "no")
    BY <2>1, <2>3, UnreadKept
  <2> QED
    BY <2>2, <2>3
<1>9. ASSUME NEW ok \in BOOLEAN, WritePin(ok) PROVE UnreadInv'
  BY <1>9, UnreadKept, UnreadWritten DEF WritePin
<1>10. CASE BeginReload
  BY <1>10, UnreadFrame DEF BeginReload, history, Live
<1>11. ASSUME NEW ok \in BOOLEAN, ReadReload(ok) PROVE UnreadInv'
  <2>1. disk' = disk
    BY <1>11 DEF ReadReload
  <2>2. CASE ok /\ Readable
    BY <1>11, <2>1, <2>2 DEF ReadReload, UnreadInv, Readable
  <2>3. CASE ~(ok /\ Readable)
    BY <1>11, <2>3, UnreadIdle DEF ReadReload, Unreadable, Unchanged, EndReload
  <2> QED
    BY <2>2, <2>3
<1>12. ASSUME NEW ok \in BOOLEAN, BackupReload(ok) PROVE UnreadInv'
  <2>1. step = "backup" /\ disk' = disk /\ unread' = unread
    BY <1>12 DEF BackupReload
  <2>2. CASE ok
    BY <1>12, <2>1, <2>2, UnreadBacked DEF BackupReload
  <2>3. CASE ~ok
    BY <1>12, <2>3, UnreadIdle DEF BackupReload, NotBackedUp, Unchanged, EndReload
  <2> QED
    BY <2>2, <2>3
<1>13. CASE Proceed
  BY <1>13, UnreadKept DEF Proceed
<1>14. ASSUME NEW ok \in BOOLEAN, Preserve(ok) PROVE UnreadInv'
  BY <1>14, UnreadKept DEF Preserve, BackedUp
<1>15. ASSUME NEW ok \in BOOLEAN, WriteReload(ok) PROVE UnreadInv'
  BY <1>15, UnreadKept, UnreadWritten DEF WriteReload
<1>16. CASE Run
  BY <1>1, <1>2, <1>3, <1>4, <1>5, <1>6, <1>7, <1>8, <1>9, <1>10, <1>11, <1>12, <1>13, <1>14, <1>15,
     <1>16 DEF Run
<1>17. CASE Start
  BY <1>17, UnreadFrame DEF Start, memory, queues, history, Live
<1>18. CASE Ask
  BY <1>18, UnreadFrame DEF Ask, Edit, Update, Pin, Reload, Request, history, Live
<1>19. CASE Sync
  BY <1>19 DEF Sync, UnreadInv
<1>20. CASE Stop
  BY <1>20, OffUnread DEF Stop
<1>21. CASE UNCHANGED vars
  BY <1>21, UnreadFrame DEF vars, memory, queues, history, Live
<1> QED
  BY <1>16, <1>17, <1>18, <1>19, <1>20, <1>21 DEF Next

\* data.json is only written over what is in a backup.
LEMMA OnlyWrites ==
    ASSUME Typed, [Next]_vars, disk' # disk, disk'.id = 0
    PROVE  step \in {"write", "normalise"}
<1>1. ASSUME Sync PROVE FALSE
  <2>1. disk'.id = clock'
    BY <1>1 DEF Sync
  <2>2. clock' # 0
    BY <1>1, ClockTicks DEF Sync
  <2> QED
    BY <2>1, <2>2
<1>2. ASSUME NEW ok \in BOOLEAN,
             \/ ReadStartup(ok) \/ BackupStartup(ok) \/ ReadReload(ok) \/ BackupReload(ok) \/ Preserve(ok)
      PROVE  FALSE
  BY <1>2 DEF ReadStartup, BackupStartup, ReadReload, BackupReload, Preserve
<1>3. ASSUME NEW ok \in BOOLEAN, WriteStartup(ok) \/ WriteSave(ok) \/ WritePin(ok) \/ WriteReload(ok)
      PROVE  step \in {"write", "normalise"}
  BY <1>3 DEF WriteStartup, WriteSave, WritePin, WriteReload
<1>4. CASE BeginSave \/ StoreSave \/ BeginPin \/ StorePin \/ BeginReload \/ Proceed
  BY <1>4 DEF BeginSave, StoreSave, BeginPin, StorePin, BeginReload, Proceed
<1>5. CASE Start \/ Ask \/ UNCHANGED vars
  BY <1>5 DEF Start, Ask, Edit, Update, Pin, Reload, Request, vars
<1>6. CASE Stop
  BY <1>6 DEF Stop
<1> QED
  BY <1>1, <1>2, <1>3, <1>4, <1>5, <1>6 DEF Next, Run

----------------------------------------------------------------------------
(* What agrees *)

\* The saves that wait are still there when the head of the jobs has left.
LEMMA ToSaveLeft ==
    ASSUME Typed, ToSave, jobs # <<>>, busy \/ Head(jobs).kind # "save", jobs' = Tail(jobs), busy' = FALSE
    PROVE  ToSave'
<1>1. PICK i \in DOMAIN jobs : jobs[i].kind = "save" /\ (i > 1 \/ ~busy)
  BY DEF ToSave
<1>2. Head(jobs) = jobs[1] /\ i \in Nat \ {0}
  <2>1. DOMAIN jobs = 1 .. Len(jobs) /\ Len(jobs) \in Nat
    BY DEF Typed, QueuesTyped
  <2> QED
    BY <2>1, JobsLeft
<1>3. i > 1
  BY <1>1, <1>2
<1>4. i - 1 \in DOMAIN jobs' /\ jobs'[i - 1].kind = "save"
  BY <1>1, <1>3, JobsLeft
<1> QED
  BY <1>4 DEF ToSave

\* How a reload leaves the queue: the jobs after it keep their order.
LEMMA ReloadLeaves ==
    ASSUME Typed, Reloading, NEW rest \in {<<>>, <<Save("seed")>>}, jobs' = rest \o Tail(jobs)
    PROVE  /\ \A i \in DOMAIN jobs : i > 1 => \E k \in DOMAIN jobs' : jobs'[k] = jobs[i]
           /\ rest = <<>> => jobs' = Tail(jobs)
           /\ rest # <<>> => /\ jobs' # <<>> /\ Head(jobs').kind = "seed"
                             /\ jobs'[1].kind = "seed"
                             /\ \A i \in DOMAIN jobs' : i \in DOMAIN jobs /\ i \in Nat \ {0}
                                                        /\ (i > 1 => jobs'[i] = jobs[i])
<1>1. jobs \in Seq(Jobs(clock)) /\ jobs # <<>> /\ clock \in Nat
  BY DEF Typed, QueuesTyped, HistoryTyped, Reloading
<1>2. Save("seed") \in Jobs(clock) /\ Save("seed").kind = "seed"
  BY <1>1, SaveTyped
<1>3. CASE rest = <<>>
  <2>1. jobs' = Tail(jobs)
    BY <1>1, <1>2, <1>3, QueueReplace
  <2> QED
    BY <1>1, <1>3, <2>1, JobsLeft
<1>4. CASE rest = <<Save("seed")>>
  <2>1. rest # <<>>
    BY <1>4, TurnsTaken
  <2>2. /\ jobs' # <<>> /\ Head(jobs') = Save("seed") /\ jobs'[1] = Save("seed")
        /\ DOMAIN jobs' = DOMAIN jobs
        /\ \A i \in DOMAIN jobs : i \in Nat \ {0} /\ (i > 1 => jobs'[i] = jobs[i])
    BY <1>1, <1>2, <1>4, QueueReplace
  <2> QED
    BY <1>2, <2>1, <2>2
<1> QED
  BY <1>3, <1>4

LEMMA ToSaveShifted ==
    ASSUME Typed, Reloading, ToSave, NEW rest \in {<<>>, <<Save("seed")>>},
           jobs' = rest \o Tail(jobs), busy' = FALSE
    PROVE  ToSave'
<1>1. PICK i \in DOMAIN jobs : jobs[i].kind = "save" /\ (i > 1 \/ ~busy)
  BY DEF ToSave
<1>2. Head(jobs) = jobs[1] /\ i \in Nat \ {0}
  <2>1. DOMAIN jobs = 1 .. Len(jobs) /\ Len(jobs) \in Nat /\ jobs # <<>> /\ jobs \in Seq(Jobs(clock))
    BY DEF Typed, QueuesTyped, Reloading
  <2> QED
    BY <2>1, QueueTail
<1>3. i > 1
  BY <1>1, <1>2 DEF Reloading
<1>4. \E k \in DOMAIN jobs' : jobs'[k] = jobs[i]
  BY <1>3, ReloadLeaves
<1> QED
  BY <1>1, <1>4 DEF ToSave

\* No save of favorites is left behind the head.
LEMMA NoSeedLeft ==
    ASSUME Typed, QueueInv, jobs # <<>>, jobs' = Tail(jobs), jobs' # <<>>
    PROVE  Head(jobs').kind # "seed"
<1>1. \A i \in DOMAIN jobs' : jobs'[i].kind # "seed"
  BY JobsTail
<1>2. jobs' \in Seq(Jobs(clock))
  BY JobsLeft
<1>3. 1 \in DOMAIN jobs' /\ Head(jobs') = jobs'[1]
  BY <1>2, QueueTail
<1> QED
  BY <1>1, <1>3

\* Between two sessions nothing has to agree.
LEMMA OffAgrees == ASSUME Off PROVE AgreeInv'
  BY DEF Off, AgreeInv, SettingsAgree, FileAgrees, Live, AtStartup

LEMMA HydrateAgrees ==
    ASSUME Typed, QueueInv, ~Live, NEW p, Hydrate(p), step' = "idle",
           ~foreign' => Merge(disk'.pkg, Defaults) = p
    PROVE  AgreeInv'
<1>1. /\ package' = p /\ settings' = p.vals /\ busy' = FALSE /\ jobs' = <<Save("initial")>>
      /\ phase' = "saving"
  BY NoTurns DEF Hydrate, QueueInv, Turns
<1>2. ~Running' /\ ~AtStartup'
  BY <1>1 DEF Running, AtStartup
<1> QED
  BY <1>1, <1>2 DEF AgreeInv, SettingsAgree, FileAgrees

\* A file that holds what the package is agrees with it.
LEMMA WrittenAgrees ==
    ASSUME Typed, NEW p \in Whole(clock), Written(p) PROVE Merge(disk'.pkg, Defaults) = p
<1>1. clock \in Nat /\ Defaults \in Whole(clock) /\ Defaults.pin = NoPin /\ p.pin \in Pins(clock)
  BY DefaultsAreWhole, WholeFields DEF Typed, HistoryTyped
<1>2. Merge(p, Defaults) = p
  BY <1>1, NewerThanNone, MergeWhole
<1> QED
  BY <1>2, WrittenTyped

LEMMA StartupAgrees ==
    ASSUME Typed, QueueInv, BuiltInv, AgreeInv, NEW ok \in BOOLEAN,
           ReadStartup(ok) \/ BackupStartup(ok) \/ WriteStartup(ok)
    PROVE  AgreeInv'
<1>1. clock \in Nat /\ Defaults \in Whole(clock) /\ Defaults.pin = NoPin
  BY DefaultsAreWhole DEF Typed, HistoryTyped
<1>2. Merge(Defaults, Defaults) = Defaults
  BY <1>1, NoPinIsOldest, NewerThanNone, MergeWhole
<1>3. CASE ReadStartup(ok)
  <2>1. ~Live /\ phase = "reading" /\ step = "idle" /\ disk' = disk
    BY <1>3, StartupReads
  <2>2. CASE Absent /\ Hydrate(Defaults) /\ step' = step
    <3>1. disk.pkg = Defaults
      BY <2>2 DEF Absent, Typed, FilesTyped
    <3> QED
      BY <1>2, <2>1, <2>2, <3>1, HydrateAgrees
  <2>3. CASE Hydrate(Merge(disk.pkg, Defaults)) /\ step' = step
    BY <2>1, <2>3, HydrateAgrees
  <2>4. CASE loaded' = disk /\ phase' = phase
    BY <2>1, <2>4 DEF AgreeInv, SettingsAgree, FileAgrees, Live
  <2>5. CASE Hydrate(Defaults) /\ foreign' = TRUE /\ step' = step
    BY <2>1, <2>5, HydrateAgrees
  <2> QED
    BY <1>3, <2>2, <2>3, <2>4, <2>5, StartupReads
<1>4. CASE BackupStartup(ok)
  <2>1. phase = "reading" /\ step = "backup" /\ UNCHANGED <<disk, foreign>> /\ AtStartup /\ ~Live
    BY <1>4 DEF BackupStartup, AtStartup, Live
  <2>2. CASE ok
    BY <1>4, <2>1, <2>2 DEF BackupStartup, AgreeInv, SettingsAgree, FileAgrees, Live
  <2>3. CASE ~ok
    <3>1. Hydrate(Merge(loaded.pkg, Defaults)) /\ step' = "idle"
      BY <1>4, <2>3 DEF BackupStartup
    <3>2. ~foreign' => Merge(disk'.pkg, Defaults) = Merge(loaded.pkg, Defaults)
      BY <2>1 DEF AgreeInv, FileAgrees
    <3> QED
      BY <2>1, <3>1, <3>2, HydrateAgrees
  <2> QED
    BY <2>2, <2>3
<1>5. CASE WriteStartup(ok)
  <2>1. phase = "reading" /\ step = "normalise" /\ ~Live
    BY <1>5 DEF WriteStartup, Live
  <2>2. next \in Whole(clock)
    BY <2>1, NextTyped
  <2>3. CASE ok
    <3>1. Written(next) /\ Hydrate(next) /\ step' = "idle"
      BY <1>5, <2>3 DEF WriteStartup
    <3> QED
      BY <2>1, <2>2, <3>1, WrittenAgrees, HydrateAgrees
  <2>4. CASE ~ok
    BY <1>5, <2>4, OffAgrees DEF WriteStartup
  <2> QED
    BY <2>3, <2>4
<1> QED
  BY <1>3, <1>4, <1>5

\* A save has ended: what was built is committed, or what is committed restored.
LEMMA EndSaveAgrees ==
    ASSUME Typed, QueueInv, BuiltInv, AgreeInv, Running, Live, NEW ok \in BOOLEAN, NEW p, EndSave(ok, p),
           ok => p.vals = snapshot.vals,
           ~foreign' => Merge(disk'.pkg, Defaults) = (IF ok THEN p ELSE package)
    PROVE  AgreeInv'
<1>1. CASE Off
  BY <1>1, OffAgrees
<1>2. CASE ~Off
  <2>1. /\ package' = (IF ok THEN p ELSE package)
        /\ settings' = (IF ok \/ Head(jobs).kind # "update" THEN settings ELSE previous)
        /\ unsaved' = (IF Head(jobs).kind = "save" THEN ~ok ELSE unsaved /\ ok)
        /\ jobs' = Tail(jobs) /\ busy' = FALSE /\ phase' = "running" /\ step' = "idle"
        /\ ok \/ Head(jobs).kind # "initial"
    BY <1>2 DEF EndSave, Release, Committed, Restored
  <2>2. jobs # <<>> /\ Head(jobs).kind # "reload" /\ busy /\ previous = package.vals /\ paused = "no"
    BY DEF Running, Saving, BuiltInv, SaveInv
  <2>3. ToSave => ToSave'
    BY <2>1, <2>2, ToSaveLeft
  <2>4. jobs' # <<>> => Head(jobs').kind # "seed"
    BY <2>1, <2>2, NoSeedLeft
  <2>5. /\ ToSave \/ settings = snapshot.vals
        /\ Head(jobs).kind = "seed" => ToSave \/ settings = package.vals
    BY <2>2 DEF AgreeInv, SettingsAgree
  <2>6. Head(jobs).kind \in {"initial", "save", "update", "reload", "seed"}
    <3>1. Head(jobs) \in Jobs(clock)
      BY <2>2, QueueTail DEF Typed, QueuesTyped
    <3> QED
      BY <3>1 DEF Jobs
  <2>7. ToSave' \/ unsaved' \/ settings' = package'.vals
    <3>1. CASE ok
      BY <2>1, <2>3, <2>5, <3>1
    <3>2. CASE ~ok /\ Head(jobs).kind = "save"
      BY <2>1, <3>2
    <3>3. CASE ~ok /\ Head(jobs).kind = "update"
      BY <2>1, <2>2, <3>3
    <3>4. CASE ~ok /\ Head(jobs).kind = "seed"
      BY <2>1, <2>3, <2>5, <3>4
    <3> QED
      BY <2>1, <2>2, <2>6, <3>1, <3>2, <3>3, <3>4
  <2>8. ~Running' /\ ~AtStartup'
    BY <2>1 DEF Running, AtStartup
  <2>9. SettingsAgree'
    BY <2>1, <2>4, <2>7, <2>8 DEF SettingsAgree
  <2>10. FileAgrees'
    BY <2>1, <2>8 DEF FileAgrees
  <2> QED
    BY <2>9, <2>10 DEF AgreeInv
<1> QED
  BY <1>1, <1>2

LEMMA SaveAgrees ==
    ASSUME Typed, QueueInv, BuiltInv, AgreeInv, BeginSave \/ StoreSave \/ \E ok \in BOOLEAN : WriteSave(ok)
    PROVE  AgreeInv'
<1>1. clock \in Nat /\ package \in Whole(clock)
  BY DEF Typed, MemoryTyped, HistoryTyped
<1>2. CASE BeginSave
  <2>1. /\ Live /\ jobs # <<>> /\ Head(jobs).kind # "reload" /\ ~busy
        /\ UNCHANGED <<disk, package, paused, foreign>>
    BY <1>2 DEF BeginSave, Saving, Live
  <2>2. ~Running
    BY <2>1 DEF Running
  <2>3. ToSave \/ unsaved \/ settings = package.vals
    BY <2>1, <2>2 DEF AgreeInv, SettingsAgree
  <2>4. Live' /\ FileAgrees'
    <3>1. phase' \in {"saving", "running"}
      BY <1>2 DEF BeginSave
    <3>2. ~foreign => Merge(disk.pkg, Defaults) = package
      BY <2>1 DEF AgreeInv, FileAgrees
    <3> QED
      BY <2>1, <3>1, <3>2 DEF FileAgrees, Live, AtStartup
  <2>5. CASE paused = "no"
    <3> DEFINE vals == IF Head(jobs).kind = "update"
                       THEN [settings EXCEPT ![Head(jobs).field] = Head(jobs).value] ELSE settings
    <3>1. /\ settings' = vals /\ snapshot' = [Build EXCEPT !.vals = vals] /\ busy' = TRUE
          /\ UNCHANGED <<phase, jobs>>
      BY <1>2, <2>5 DEF BeginSave
    <3>2. snapshot'.vals = vals
      BY <3>1 DEF Build
    <3>3. Head(jobs).kind = "seed" => ToSave' \/ settings = package.vals
      <4>1. SUFFICES ASSUME Head(jobs).kind = "seed", ToSave PROVE ToSave'
        BY <2>1, <2>5 DEF AgreeInv, SettingsAgree
      <4>2. PICK i \in DOMAIN jobs : jobs[i].kind = "save"
        BY <4>1 DEF ToSave
      <4>3. jobs[1] = Head(jobs) /\ i \in Nat \ {0}
        <5>1. DOMAIN jobs = 1 .. Len(jobs) /\ Len(jobs) \in Nat /\ jobs \in Seq(Jobs(clock))
          BY DEF Typed, QueuesTyped
        <5> QED
          BY <2>1, <5>1, QueueTail
      <4>4. i > 1
        BY <4>1, <4>2, <4>3
      <4> QED
        BY <3>1, <4>2, <4>4 DEF ToSave
    <3>4. Head(jobs).kind = "seed" => vals = settings
      OBVIOUS
    <3>5. phase = "saving" => vals = package.vals
      <4>1. phase = "saving" => jobs = <<Save("initial")>>
        BY DEF QueueInv, PhaseInv
      <4>2. phase = "saving" => Head(jobs).kind = "initial"
        BY <1>1, <4>1, TurnsTaken, SaveTyped
      <4> QED
        BY <2>1, <4>2 DEF AgreeInv, SettingsAgree
    <3> HIDE DEF vals
    <3>6. Running'
      BY <2>1, <3>1 DEF Running, Saving
    <3>7. SettingsAgree'
      BY <2>1, <3>1, <3>2, <3>3, <3>4, <3>5, <3>6 DEF SettingsAgree
    <3> QED
      BY <2>4, <3>7 DEF AgreeInv
  <2>6. CASE paused # "no"
    <3>1. /\ settings' = (IF Head(jobs).kind = "update" THEN package.vals ELSE settings)
          /\ unsaved' = CASE Head(jobs).kind = "save"   -> TRUE
                          [] Head(jobs).kind = "update" -> FALSE
                          [] OTHER                      -> unsaved
          /\ jobs' = Tail(jobs) /\ phase' = "running" /\ busy' = busy
      BY <1>2, <2>6 DEF BeginSave, Restored
    <3>2. busy' = FALSE
      BY <2>1, <3>1 DEF Typed, QueuesTyped
    <3>3. ToSave /\ Head(jobs).kind # "save" => ToSave'
      BY <2>1, <3>1, <3>2, ToSaveLeft
    <3>4. ToSave' \/ unsaved' \/ settings' = package.vals
      <4>1. CASE Head(jobs).kind = "save"
        BY <3>1, <4>1
      <4>2. CASE Head(jobs).kind = "update"
        BY <3>1, <4>2
      <4>3. CASE Head(jobs).kind \notin {"save", "update"}
        BY <2>3, <3>1, <3>3, <4>3
      <4> QED
        BY <4>1, <4>2, <4>3
    <3>5. ~Running'
      BY <3>2 DEF Running
    <3> QED
      BY <2>1, <2>4, <2>6, <3>1, <3>4, <3>5 DEF AgreeInv, SettingsAgree
  <2> QED
    BY <2>5, <2>6
<1>3. CASE StoreSave
  <2>1. /\ store # <<>> /\ Head(store) = "settings" /\ Running /\ UNCHANGED <<disk, foreign>>
    BY <1>3 DEF StoreSave, Running
  <2>2. Live /\ snapshot \in Whole(clock) /\ paused = "no"
    BY <2>1, SettingsTurn DEF BuiltInv, SaveInv
  <2>3. Rebased(snapshot).vals = snapshot.vals
    BY <1>1, <2>2, RebasedFields
  <2>4. CASE Rebased(snapshot) = package
    <3>1. EndSave(TRUE, package)
      BY <1>3, <2>4 DEF StoreSave
    <3>2. ~foreign' => Merge(disk'.pkg, Defaults) = package
      BY <2>1, <2>2 DEF AgreeInv, FileAgrees
    <3> QED
      BY <2>1, <2>2, <2>3, <2>4, <3>1, <3>2, EndSaveAgrees
  <2>5. CASE Rebased(snapshot) # package
    <3>1. UNCHANGED <<phase, settings, package, paused, jobs, busy, snapshot, unsaved, loaded>>
      BY <1>3, <2>2, <2>5 DEF StoreSave
    <3> QED
      BY <2>1, <2>2, <3>1 DEF AgreeInv, SettingsAgree, FileAgrees, ToSave, Running, Saving, Live, AtStartup
  <2> QED
    BY <2>4, <2>5
<1>4. ASSUME NEW ok \in BOOLEAN, WriteSave(ok) PROVE AgreeInv'
  <2>1. step = "write" /\ Head(store) = "settings" /\ Saving /\ EndSave(ok, next)
    BY <1>4 DEF WriteSave
  <2>2. Live /\ Running /\ next \in Whole(clock)
    BY <2>1, WriteTurn, SettingsTurn, NextTyped DEF Running
  <2>3. next = Rebased(snapshot) /\ snapshot \in Whole(clock)
    BY <2>1, <2>2 DEF BuiltInv, SaveInv
  <2>4. next.vals = snapshot.vals
    BY <1>1, <2>3, RebasedFields
  <2>5. ~foreign' => Merge(disk'.pkg, Defaults) = (IF ok THEN next ELSE package)
    <3>1. CASE ok
      BY <1>4, <2>2, <3>1, WrittenAgrees DEF WriteSave
    <3>2. CASE ~ok
      BY <1>4, <2>2, <3>2 DEF WriteSave, AgreeInv, FileAgrees
    <3> QED
      BY <3>1, <3>2
  <2> QED
    BY <2>1, <2>2, <2>4, <2>5, EndSaveAgrees
<1> QED
  BY <1>2, <1>3, <1>4

\* Settings, values of the package, and the file with it, are all that counts.
LEMMA AgreeFrame ==
    ASSUME AgreeInv, UNCHANGED <<phase, settings, jobs, busy, snapshot, unsaved>>,
           package'.vals = package.vals, paused' = paused \/ (jobs # <<>> /\ Head(jobs).kind = "reload"),
           Live, ~foreign' => Merge(disk'.pkg, Defaults) = package'
    PROVE  AgreeInv'
<1>1. Live' /\ ~AtStartup' /\ (ToSave' <=> ToSave) /\ (Running' <=> Running)
  BY DEF Live, AtStartup, ToSave, Running, Saving
<1>2. SettingsAgree'
  BY <1>1 DEF AgreeInv, SettingsAgree
<1> QED
  BY <1>1, <1>2 DEF AgreeInv, FileAgrees

LEMMA PinAgrees ==
    ASSUME Typed, QueueInv, BuiltInv, AgreeInv, BeginPin \/ StorePin \/ \E ok \in BOOLEAN : WritePin(ok)
    PROVE  AgreeInv'
<1>1. CASE BeginPin
  <2>1. /\ Live
        /\ UNCHANGED <<phase, settings, jobs, busy, snapshot, unsaved, disk, package, paused, foreign>>
    BY <1>1 DEF BeginPin, Live, history
  <2> QED
    BY <2>1, AgreeFrame DEF AgreeInv, FileAgrees
<1>2. CASE StorePin
  <2> DEFINE p == [package EXCEPT !.pin = Pinned(Newer(package.pin, cache), Head(pins), pinned)]
  <2>1. /\ Live /\ UNCHANGED <<phase, settings, jobs, busy, snapshot, unsaved, disk, paused, foreign>>
    BY <1>2, PinTurn DEF StorePin
  <2>2. package' = package
    <3>1. CASE p = package \/ paused # "no"
      BY <1>2, <3>1 DEF StorePin, EndPin
    <3>2. CASE ~(p = package \/ paused # "no")
      BY <1>2, <3>2 DEF StorePin
    <3> QED
      BY <3>1, <3>2
  <2> QED
    BY <2>1, <2>2, AgreeFrame DEF AgreeInv, FileAgrees
<1>3. ASSUME NEW ok \in BOOLEAN, WritePin(ok) PROVE AgreeInv'
  <2>1. /\ step = "write" /\ Head(store) = "pin" /\ EndPin(ok, next)
        /\ UNCHANGED <<phase, paused, settings, jobs, busy, snapshot, unsaved>>
    BY <1>3 DEF WritePin
  <2>2. Live /\ next \in Whole(clock) /\ next.vals = package.vals
    BY <2>1, WriteTurn, NextTyped, PinBuilds
  <2>3. package'.vals = package.vals
    BY <2>1, <2>2 DEF EndPin
  <2>4. ~foreign' => Merge(disk'.pkg, Defaults) = package'
    <3>1. CASE ok
      BY <1>3, <2>1, <2>2, <3>1, WrittenAgrees DEF WritePin, EndPin
    <3>2. CASE ~ok
      BY <1>3, <2>1, <2>2, <3>2 DEF WritePin, EndPin, AgreeInv, FileAgrees
    <3> QED
      BY <3>1, <3>2
  <2> QED
    BY <2>1, <2>2, <2>3, <2>4, AgreeFrame
<1> QED
  BY <1>1, <1>2, <1>3

\* The end of a reload, with what was or with what it adopts.
LEMMA UnadoptedAgrees ==
    ASSUME Typed, QueueInv, AgreeInv, AtHead, NEW rest \in {<<>>, <<Save("seed")>>}, EndReload(rest), AsItWas,
           rest = <<>> \/ paused' # "no", UNCHANGED <<disk, foreign>>
    PROVE  AgreeInv'
<1>1. /\ Live /\ Reloading /\ busy /\ jobs # <<>> /\ phase = "running"
      /\ UNCHANGED <<phase, settings, package, unsaved>>
      /\ busy' = FALSE /\ jobs' = rest \o Tail(jobs)
  BY SettingsTurn, ReloadIsRunning DEF AtHead, AsItWas, EndReload, Reloading
<1>2. ToSave => ToSave'
  BY <1>1, ToSaveShifted
<1>3. ~Running /\ ~Running' /\ ~AtStartup'
  BY <1>1 DEF Running, Saving, Reloading, AtStartup
<1>4. ToSave \/ unsaved \/ settings = package.vals
  BY <1>1, <1>3 DEF AgreeInv, SettingsAgree
<1>5. jobs' # <<>> /\ rest = <<>> => Head(jobs').kind # "seed"
  BY <1>1, ReloadLeaves, NoSeedLeft
<1>6. SettingsAgree'
  BY <1>1, <1>2, <1>3, <1>4, <1>5 DEF SettingsAgree
<1> QED
  BY <1>1, <1>3, <1>6 DEF AgreeInv, FileAgrees

LEMMA AdoptAgrees ==
    ASSUME Typed, QueueInv, AtHead, Adopt, ~foreign' => Merge(disk'.pkg, Defaults) = next
    PROVE  AgreeInv'
<1>1. /\ phase' = "running" /\ busy' = FALSE /\ settings' = next.vals /\ package' = next
  BY SettingsTurn, ReloadIsRunning DEF AtHead, Adopt, EndReload
<1>2. ~Running' /\ ~AtStartup'
  BY <1>1 DEF Running, AtStartup
<1> QED
  BY <1>1, <1>2 DEF AgreeInv, SettingsAgree, FileAgrees

LEMMA ReloadAgrees ==
    ASSUME Typed, QueueInv, BuiltInv, AgreeInv,
           \/ BeginReload \/ Proceed
           \/ \E ok \in BOOLEAN : ReadReload(ok) \/ BackupReload(ok) \/ Preserve(ok) \/ WriteReload(ok)
    PROVE  AgreeInv'
<1>1. AtHead => Live /\ jobs # <<>> /\ Head(jobs).kind = "reload"
  BY SettingsTurn DEF AtHead, Reloading
<1>2. Live /\ ~foreign => Merge(disk.pkg, Defaults) = package
  BY DEF AgreeInv, FileAgrees
<1>3. ASSUME AtHead, Stay, UNCHANGED <<disk, foreign>> PROVE AgreeInv'
  <2>1. UNCHANGED <<phase, settings, jobs, busy, snapshot, unsaved, package>>
    BY <1>3 DEF Stay
  <2> QED
    BY <1>1, <1>2, <1>3, <2>1, AgreeFrame
<1>4. CASE BeginReload
  <2>1. /\ phase = "running" /\ Reloading /\ ~busy /\ busy' = TRUE
        /\ UNCHANGED <<phase, disk, settings, package, jobs, foreign, unsaved>>
    BY <1>4 DEF BeginReload, history
  <2>2. ~Running /\ ~Running' /\ ~AtStartup' /\ Live
    BY <2>1 DEF Running, Saving, Reloading, AtStartup, Live
  <2>3. ToSave => ToSave'
    <3>1. SUFFICES ASSUME ToSave PROVE ToSave'
      OBVIOUS
    <3>2. PICK i \in DOMAIN jobs : jobs[i].kind = "save"
      BY <3>1 DEF ToSave
    <3>3. jobs[1] = Head(jobs) /\ i \in Nat \ {0}
      <4>1. DOMAIN jobs = 1 .. Len(jobs) /\ Len(jobs) \in Nat /\ jobs \in Seq(Jobs(clock)) /\ jobs # <<>>
        BY <2>1 DEF Typed, QueuesTyped, Reloading
      <4> QED
        BY <4>1, QueueTail
    <3>4. i > 1
      BY <2>1, <3>2, <3>3 DEF Reloading
    <3> QED
      BY <2>1, <3>2, <3>4 DEF ToSave
  <2>4. ToSave \/ unsaved \/ settings = package.vals
    BY <2>2 DEF AgreeInv, SettingsAgree
  <2>5. SettingsAgree'
    BY <2>1, <2>2, <2>3, <2>4 DEF SettingsAgree, Reloading
  <2>6. FileAgrees'
    BY <1>2, <2>1, <2>2 DEF FileAgrees
  <2> QED
    BY <2>5, <2>6 DEF AgreeInv
<1>5. ASSUME NEW ok \in BOOLEAN, ReadReload(ok) PROVE AgreeInv'
  <2>1. AtHead /\ UNCHANGED <<disk, foreign>>
    BY <1>5 DEF ReadReload
  <2>2. CASE ok /\ Readable
    BY <1>3, <1>5, <2>1, <2>2 DEF ReadReload
  <2>3. CASE ~(ok /\ Readable)
    <3>1. EndReload(Seed(package)) /\ AsItWas /\ paused' = "read"
      BY <1>5, <2>3 DEF ReadReload, Unreadable, Unchanged
    <3> QED
      BY <2>1, <3>1, SeedIs, UnadoptedAgrees
  <2> QED
    BY <2>2, <2>3
<1>6. ASSUME NEW ok \in BOOLEAN, BackupReload(ok) PROVE AgreeInv'
  <2>1. AtHead /\ UNCHANGED <<disk, foreign>>
    BY <1>6 DEF BackupReload
  <2>2. CASE ok
    BY <1>3, <1>6, <2>1, <2>2 DEF BackupReload
  <2>3. CASE ~ok
    <3>1. EndReload(Seed(package)) /\ AsItWas /\ paused' = "explicit"
      BY <1>6, <2>3 DEF BackupReload, NotBackedUp, Unchanged
    <3> QED
      BY <2>1, <3>1, SeedIs, UnadoptedAgrees
  <2> QED
    BY <2>2, <2>3
<1>7. CASE Proceed
  <2>1. AtHead /\ step = "staged" /\ disk' = disk
    BY <1>7 DEF Proceed
  <2>2. CASE next = loaded.pkg
    <3>1. Adopt /\ foreign' = (disk # loaded)
      BY <1>7, <2>2 DEF Proceed
    <3>2. next \in Whole(clock)
      BY <2>1, NextTyped
    <3>3. clock \in Nat /\ Defaults \in Whole(clock) /\ Defaults.pin = NoPin /\ next.pin \in Pins(clock)
      BY <3>2, DefaultsAreWhole, WholeFields DEF Typed, HistoryTyped
    <3>4. Merge(next, Defaults) = next
      BY <3>2, <3>3, NewerThanNone, MergeWhole
    <3> QED
      BY <2>1, <2>2, <3>1, <3>4, AdoptAgrees
  <2>3. CASE next # loaded.pkg
    BY <1>3, <1>7, <2>1, <2>3 DEF Proceed
  <2> QED
    BY <2>2, <2>3
<1>8. ASSUME NEW ok \in BOOLEAN, Preserve(ok) PROVE AgreeInv'
  <2>1. AtHead /\ UNCHANGED <<disk, foreign>>
    BY <1>8 DEF Preserve
  <2>2. CASE ok
    BY <1>3, <1>8, <2>1, <2>2 DEF Preserve
  <2>3. CASE ~ok
    BY <1>8, <2>1, <2>3, UnadoptedAgrees DEF Preserve, Thrown
  <2> QED
    BY <2>2, <2>3
<1>9. ASSUME NEW ok \in BOOLEAN, WriteReload(ok) PROVE AgreeInv'
  <2>1. AtHead /\ step = "write"
    BY <1>9 DEF WriteReload
  <2>2. CASE ok
    <3>1. Written(next) /\ Adopt /\ next \in Whole(clock)
      BY <1>9, <2>1, <2>2, NextTyped DEF WriteReload
    <3> QED
      BY <2>1, <3>1, WrittenAgrees, AdoptAgrees
  <2>3. CASE ~ok
    BY <1>9, <2>1, <2>3, UnadoptedAgrees DEF WriteReload, Thrown
  <2> QED
    BY <2>2, <2>3
<1> QED
  BY <1>4, <1>5, <1>6, <1>7, <1>8, <1>9

\* What joins the jobs comes after those that wait.
LEMMA Appended ==
    ASSUME Typed, QueueInv, NEW job \in Jobs(clock + 1), jobs' = Append(jobs, job)
    PROVE  /\ jobs' # <<>> /\ Len(jobs) \in Nat
           /\ jobs # <<>> => Head(jobs') = Head(jobs)
           /\ jobs = <<>> => Head(jobs') = job /\ ~busy
           /\ \A i \in DOMAIN jobs : i \in DOMAIN jobs' /\ jobs'[i] = jobs[i] /\ i \in Nat \ {0}
           /\ \A i \in DOMAIN jobs' : \/ i \in DOMAIN jobs /\ jobs'[i] = jobs[i]
                                      \/ i = Len(jobs) + 1 /\ jobs'[i] = job
           /\ Len(jobs) + 1 \in DOMAIN jobs' /\ jobs'[Len(jobs) + 1] = job
           /\ \A i \in DOMAIN jobs : i <= Len(jobs)
           /\ Len(jobs) = 0 => jobs = <<>>
<1>1. clock \in Nat /\ jobs \in Seq(Jobs(clock + 1))
  BY ClockTicks, Later DEF Typed, QueuesTyped, HistoryTyped
<1>2. DOMAIN jobs = 1 .. Len(jobs) /\ Len(jobs) \in Nat /\ (Len(jobs) = 0 => jobs = <<>>)
  BY <1>1, LenProperties, EmptySeq
<1>3. busy => jobs # <<>>
  BY DEF QueueInv, Turns
<1> QED
  BY <1>1, <1>2, <1>3, QueueAppend

LEMMA AskAgrees == ASSUME Typed, QueueInv, AgreeInv, Ask PROVE AgreeInv'
<1>1. /\ phase = "running" /\ clock \in Nat
      /\ UNCHANGED <<phase, disk, package, paused, busy, snapshot, foreign, unsaved>>
  BY DEF Ask, Edit, Update, Pin, Reload, Request, Typed, HistoryTyped, history
<1>2. FileAgrees' /\ Live
  BY <1>1 DEF AgreeInv, FileAgrees, Live, AtStartup
<1>3. ASSUME NEW f \in Fields, Edit(f) PROVE AgreeInv'
  <2>1. jobs' = Append(jobs, Save("save")) /\ Save("save") \in Jobs(clock + 1) /\ Save("save").kind = "save"
    BY <1>1, <1>3, SaveTyped DEF Edit
  <2>2. Len(jobs) + 1 \in DOMAIN jobs' /\ jobs'[Len(jobs) + 1].kind = "save"
        /\ (Len(jobs) + 1 > 1 \/ ~busy)
    <3>1. busy => jobs # <<>>
      BY DEF QueueInv, Turns
    <3> QED
      BY <2>1, <3>1, Appended
  <2>3. ToSave'
    BY <1>1, <2>2 DEF ToSave
  <2> QED
    BY <1>1, <1>2, <2>3 DEF AgreeInv, SettingsAgree
<1>4. ASSUME NEW job \in Jobs(clock + 1), jobs' = Append(jobs, job), job.kind # "seed", settings' = settings
      PROVE  AgreeInv'
  <2>1. ToSave => ToSave'
    BY <1>1, <1>4, Appended DEF ToSave
  <2>2. Running' <=> Running
    <3>1. busy => jobs # <<>>
      BY DEF QueueInv, Turns
    <3> QED
      BY <1>1, <1>4, <3>1, Appended DEF Running, Saving
  <2>3. Head(jobs').kind = "seed" => jobs # <<>> /\ Head(jobs).kind = "seed"
    BY <1>4, Appended
  <2>4. SettingsAgree
    BY DEF AgreeInv
  <2>5. SettingsAgree'
    BY <1>1, <1>2, <1>4, <2>1, <2>2, <2>3, <2>4 DEF SettingsAgree
  <2> QED
    BY <1>2, <2>5 DEF AgreeInv
<1>5. ASSUME NEW f \in Fields, Update(f) PROVE AgreeInv'
  <2>1. /\ jobs' = Append(jobs, Job("update", f, clock + 1)) /\ settings' = settings
        /\ Job("update", f, clock + 1) \in Jobs(clock + 1) /\ Job("update", f, clock + 1).kind = "update"
    BY <1>1, <1>5 DEF Update, Job, Jobs
  <2> QED
    BY <1>4, <2>1
<1>6. CASE Reload
  <2>1. /\ jobs' = Append(jobs, Save("reload")) /\ settings' = settings
        /\ Save("reload") \in Jobs(clock + 1) /\ Save("reload").kind = "reload"
    BY <1>1, <1>6, SaveTyped DEF Reload
  <2> QED
    BY <1>4, <2>1
<1>7. ASSUME NEW on \in BOOLEAN, Pin(on) PROVE AgreeInv'
  <2>1. jobs' = jobs /\ settings' = settings
    BY <1>7 DEF Pin
  <2> QED
    BY <1>1, <1>2, <2>1, AgreeFrame DEF AgreeInv, FileAgrees
<1> QED
  BY <1>3, <1>5, <1>6, <1>7 DEF Ask

LEMMA AgreeStep == Typed /\ QueueInv /\ BuiltInv /\ AgreeInv /\ [Next]_vars => AgreeInv'
<1> SUFFICES ASSUME Typed, QueueInv, BuiltInv, AgreeInv, [Next]_vars PROVE AgreeInv'
  OBVIOUS
<1>1. CASE Run
  BY <1>1, StartupAgrees, SaveAgrees, PinAgrees, ReloadAgrees DEF Run
<1>2. CASE Start
  <2>1. phase = "off" /\ phase' = "reading" /\ step' = step
    BY <1>2 DEF Start, memory, queues
  <2>2. step = "idle"
    BY <2>1 DEF QueueInv, PhaseInv
  <2> QED
    BY <2>1, <2>2 DEF AgreeInv, SettingsAgree, FileAgrees, Live, AtStartup
<1>3. CASE Sync
  BY <1>3 DEF Sync, memory, queues, AgreeInv, SettingsAgree, FileAgrees, Live, AtStartup, ToSave, Running, Saving
<1>4. CASE Stop
  BY <1>4, OffAgrees DEF Stop
<1>5. CASE UNCHANGED vars
  BY <1>5 DEF vars, memory, queues, history, AgreeInv, SettingsAgree, FileAgrees, Live, AtStartup,
     ToSave, Running, Saving
<1> QED
  BY <1>1, <1>2, <1>3, <1>4, <1>5, AskAgrees DEF Next

----------------------------------------------------------------------------
(* What was saved is kept *)

\* What the memory keeps, field by field.
LEMMA MemoryNow ==
    ASSUME Typed, BuiltInv, MemoryKeeps, Live
    PROVE  /\ package.pin.at >= held /\ cache.at >= held
           /\ \A f \in Fields : package.vals[f] >= acked[f] /\ settings[f] >= acked[f]
           /\ Running => \A f \in Fields : snapshot.vals[f] >= acked[f]
           /\ Running /\ Head(jobs).kind = "update" => settings[Head(jobs).field] >= Head(jobs).value
           /\ pinned # 0 => pinned >= held
           /\ step = "write" /\ Head(store) = "pin" => next.pin.at >= held
<1>1. DOMAIN package.vals = Fields /\ DOMAIN settings = Fields
  BY WholeFields DEF Typed, MemoryTyped, HistoryTyped
<1>2. Running => DOMAIN snapshot.vals = Fields
  BY WholeFields DEF BuiltInv, SaveInv, Typed, HistoryTyped
<1> QED
  BY <1>1, <1>2 DEF MemoryKeeps, Keeps, Low

LEMMA MemoryNext ==
    ASSUME Typed', BuiltInv',
           package'.pin.at >= held', cache'.at >= held',
           \A f \in Fields : package'.vals[f] >= acked'[f] /\ settings'[f] >= acked'[f],
           Running' => \A f \in Fields : snapshot'.vals[f] >= acked'[f],
           Running' /\ Head(jobs').kind = "update" => settings'[Head(jobs').field] >= Head(jobs').value,
           pinned' # 0 => pinned' >= held',
           step' = "write" /\ Head(store') = "pin" => next'.pin.at >= held'
    PROVE  MemoryKeeps'
<1>1. DOMAIN package'.vals = Fields /\ DOMAIN settings' = Fields
  BY WholeFields DEF Typed, MemoryTyped, HistoryTyped
<1>2. Running' => DOMAIN snapshot'.vals = Fields
  BY WholeFields DEF BuiltInv, SaveInv, Typed, HistoryTyped
<1> QED
  BY <1>1, <1>2 DEF MemoryKeeps, Keeps, Low

\* A merged package keeps what its parts keep.
LEMMA MergeKeeps ==
    ASSUME Typed, NEW p \in Package(clock), NEW q \in Whole(clock), Low(p.vals), Low(q.vals), q.pin.at >= held
    PROVE  /\ Merge(p, q).pin.at >= held
           /\ \A f \in Fields : Merge(p, q).vals[f] >= acked[f]
<1>1. clock \in Nat /\ held \in Nat /\ DOMAIN q.vals = Fields
  BY WholeFields DEF Typed, HistoryTyped
<1>2. Merge(p, q).pin.at >= held
  <2>1. Merge(p, q).pin.at >= q.pin.at /\ Merge(p, q) \in Whole(clock)
    BY <1>1, MergeFields
  <2>2. Merge(p, q).pin.at \in Nat /\ q.pin.at \in Nat
    BY <1>1, <2>1, WholeFields
  <2> QED
    BY <1>1, <2>1, <2>2
<1>3. ASSUME NEW f \in Fields PROVE Merge(p, q).vals[f] >= acked[f]
  <2>1. Merge(p, q).vals[f] = IF f \in DOMAIN p.vals THEN p.vals[f] ELSE q.vals[f]
    BY <1>1, MergeFields
  <2>2. f \in DOMAIN p.vals => p.vals[f] >= acked[f]
    BY DEF Low
  <2>3. q.vals[f] >= acked[f]
    BY <1>1 DEF Low
  <2> QED
    BY <2>1, <2>2, <2>3
<1> QED
  BY <1>2, <1>3

\* The package that is about to be written keeps everything.
LEMMA NextKeeps ==
    ASSUME Typed, QueueInv, BuiltInv, MemoryKeeps, FileKeeps,
           step \in {"write", "normalise"} \/ (AtHead /\ step \in {"staged", "preserve"})
    PROVE  /\ next \in Whole(clock) /\ next.pin.at >= held
           /\ \A f \in Fields : next.vals[f] >= acked[f]
<1>1. /\ clock \in Nat /\ held \in Nat /\ package \in Whole(clock) /\ next \in Whole(clock)
      /\ package.pin.at \in Nat /\ DOMAIN package.vals = Fields
  BY NextTyped, WholeFields DEF Typed, MemoryTyped, HistoryTyped
<1>2. CASE step = "normalise"
  <2>1. AtStartup
    BY <1>2 DEF QueueInv, PhaseInv, StepInv, Live, AtStartup, Typed, QueuesTyped
  <2>2. next = Normal(Merge(loaded.pkg, Defaults)) /\ loaded.pkg \in Package(clock)
    BY <1>2, <2>1 DEF BuiltInv, LoadedInv, Files
  <2>3. Merge(loaded.pkg, Defaults) \in Whole(clock)
    BY <1>1, <2>2, DefaultsAreWhole, MergeFields
  <2>4. next.vals = Merge(loaded.pkg, Defaults).vals /\ next.pin = Merge(loaded.pkg, Defaults).pin
    BY <1>1, <2>2, <2>3, NormalFields
  <2>5. DOMAIN Merge(loaded.pkg, Defaults).vals = Fields
    BY <1>1, <2>3, WholeFields
  <2> QED
    BY <1>1, <2>1, <2>4, <2>5 DEF FileKeeps, Keeps, Low
<1>3. CASE AtHead /\ step \in {"staged", "preserve", "write"}
  <2>1. Live /\ AtReload
    BY <1>3, SettingsTurn DEF AtHead, AtReload
  <2>2. next = Normal(Merge(loaded.pkg, package)) /\ loaded.pkg \in Package(clock)
    BY <1>3, <2>1 DEF BuiltInv, LoadedInv, Files
  <2>3. Merge(loaded.pkg, package) \in Whole(clock)
    BY <1>1, <2>2, MergeFields
  <2>4. next.vals = Merge(loaded.pkg, package).vals /\ next.pin = Merge(loaded.pkg, package).pin
    BY <1>1, <2>2, <2>3, NormalFields
  <2>5. Low(loaded.pkg.vals) /\ Low(package.vals) /\ package.pin.at >= held
    BY <2>1 DEF FileKeeps, MemoryKeeps, Keeps
  <2> QED
    BY <1>1, <2>2, <2>4, <2>5, MergeKeeps
<1>4. CASE step = "write" /\ ~AtHead
  <2>1. Live /\ store # <<>>
    BY <1>4, WriteTurn
  <2>2. Head(store) \in {"settings", "pin"}
    BY <2>1, TurnsTaken DEF QueueInv, Turns
  <2>3. package.pin.at >= held /\ \A f \in Fields : package.vals[f] >= acked[f]
    BY <2>1, MemoryNow
  <2>4. CASE Head(store) = "pin"
    <3>1. next.vals = package.vals /\ next.pin.at >= held
      BY <1>4, <2>1, <2>4, MemoryNow, PinBuilds
    <3> QED
      BY <1>1, <2>3, <3>1
  <2>5. CASE Head(store) = "settings"
    <3>1. busy /\ jobs # <<>>
      BY <2>1, <2>5, SettingsTurn
    <3>2. Running
      BY <1>4, <2>1, <2>5, <3>1 DEF Running, Saving, AtHead, Reloading
    <3>3. snapshot \in Whole(clock) /\ next = Rebased(snapshot)
      BY <1>4, <2>5, <3>2 DEF BuiltInv, SaveInv
    <3>4. next.vals = snapshot.vals /\ next.pin.at >= package.pin.at /\ next.pin.at \in Nat
      BY <1>1, <3>3, RebasedFields, WholeFields
    <3>5. \A f \in Fields : snapshot.vals[f] >= acked[f]
      BY <2>1, <3>2, MemoryNow
    <3> QED
      BY <1>1, <2>3, <3>4, <3>5
  <2> QED
    BY <2>2, <2>4, <2>5
<1> QED
  BY <1>2, <1>3, <1>4

\* What a file with the defaults keeps, the file keeps.
LEMMA PartKeeps ==
    ASSUME Typed', NEW p \in Package(clock'),
           \A f \in Fields : Merge(p, Defaults).vals[f] >= acked'[f]
    PROVE  \A f \in DOMAIN p.vals : f \in Fields /\ p.vals[f] >= acked'[f]
<1>1. clock' \in Nat /\ Defaults \in Whole(clock') /\ DOMAIN p.vals \subseteq Fields
  BY DefaultsAreWhole, PartFields DEF Typed, HistoryTyped
<1>2. \A f \in Fields : f \in DOMAIN p.vals => Merge(p, Defaults).vals[f] = p.vals[f]
  BY <1>1, MergeFields
<1> QED
  BY <1>1, <1>2

\* Between two sessions, and while the startup reads.
LEMMA QuietKept ==
    ASSUME Typed', ~Live', jobs' = <<>>,
           Merge(disk'.pkg, Defaults).pin.at >= held',
           \A f \in Fields : Merge(disk'.pkg, Defaults).vals[f] >= acked'[f],
           AtStartup' => /\ loaded' \in Files(clock')
                         /\ Merge(loaded'.pkg, Defaults).pin.at >= held'
                         /\ \A f \in Fields : Merge(loaded'.pkg, Defaults).vals[f] >= acked'[f]
    PROVE  KeptInv'
<1>1. clock' \in Nat /\ Defaults \in Whole(clock') /\ disk'.pkg \in Package(clock')
  BY DefaultsAreWhole DEF Typed, FilesTyped, HistoryTyped, Files
<1>2. DOMAIN Merge(disk'.pkg, Defaults).vals = Fields
  BY <1>1, MergeFields, WholeFields
<1>3. AtStartup' => DOMAIN Merge(loaded'.pkg, Defaults).vals = Fields
  BY <1>1, MergeFields, WholeFields DEF Files
<1>4. \A f \in DOMAIN disk'.pkg.vals : disk'.pkg.vals[f] >= acked'[f]
  BY <1>1, PartKeeps
<1>5. FileKeeps'
  BY <1>2, <1>3, <1>4 DEF FileKeeps, Keeps, Low, AtReload
<1>6. UpdatesInv'
  BY DEF UpdatesInv
<1> QED
  BY <1>5, <1>6 DEF KeptInv, MemoryKeeps

\* Nothing is older than what was reset.
LEMMA ResetKeeps ==
    ASSUME NEW n \in Nat, NEW p \in Package(n)
    PROVE  Merge(p, Defaults).pin.at >= 0 /\ \A f \in Fields : Merge(p, Defaults).vals[f] >= Defaults.vals[f]
<1>1. Merge(p, Defaults) \in Whole(n)
  BY DefaultsAreWhole, MergeFields
<1>2. /\ Merge(p, Defaults).pin.at \in 0 .. n /\ Merge(p, Defaults).vals \in [Fields -> 0 .. n]
      /\ \A f \in Fields : Defaults.vals[f] = 0
  BY <1>1, WholeFields, DefaultsAreWhole
<1>3. \A f \in Fields : Merge(p, Defaults).vals[f] \in 0 .. n
  BY <1>2
<1> QED
  BY <1>2, <1>3

LEMMA OffKept ==
    ASSUME Typed', Off,
           ~foreign' => /\ Merge(disk'.pkg, Defaults).pin.at >= held
                        /\ \A f \in Fields : Merge(disk'.pkg, Defaults).vals[f] >= acked[f]
    PROVE  KeptInv'
<1>1. ~Live' /\ ~AtStartup' /\ jobs' = <<>>
  BY DEF Off, Live, AtStartup
<1>2. clock' \in Nat /\ disk'.pkg \in Package(clock')
  BY DEF Typed, FilesTyped, HistoryTyped, Files
<1>3. CASE foreign'
  <2>1. acked' = Defaults.vals /\ held' = 0
    BY <1>3 DEF Off
  <2>2. /\ Merge(disk'.pkg, Defaults).pin.at >= held'
        /\ \A f \in Fields : Merge(disk'.pkg, Defaults).vals[f] >= acked'[f]
    BY <1>2, <2>1, ResetKeeps
  <2> QED
    BY <1>1, <2>2, QuietKept
<1>4. CASE ~foreign'
  <2>1. acked' = acked /\ held' = held
    BY <1>4 DEF Off
  <2>2. /\ Merge(disk'.pkg, Defaults).pin.at >= held'
        /\ \A f \in Fields : Merge(disk'.pkg, Defaults).vals[f] >= acked'[f]
    BY <1>4, <2>1
  <2> QED
    BY <1>1, <2>2, QuietKept
<1> QED
  BY <1>3, <1>4

\* A file that nobody else wrote keeps what was saved.
LEMMA FileIsKept ==
    ASSUME Typed, BuiltInv, KeptInv, AgreeInv, ~foreign \/ ~Live
    PROVE  /\ Merge(disk.pkg, Defaults).pin.at >= held
           /\ \A f \in Fields : Merge(disk.pkg, Defaults).vals[f] >= acked[f]
<1>1. clock \in Nat /\ disk.pkg \in Package(clock) /\ Defaults \in Whole(clock)
  BY DefaultsAreWhole DEF Typed, FilesTyped, HistoryTyped, Files
<1>2. CASE Live
  <2>1. Merge(disk.pkg, Defaults) = package
    BY <1>2 DEF AgreeInv, FileAgrees
  <2> QED
    BY <1>2, <2>1, MemoryNow DEF KeptInv
<1>3. CASE ~Live
  <2>1. DOMAIN Merge(disk.pkg, Defaults).vals = Fields
    BY <1>1, MergeFields, WholeFields
  <2> QED
    BY <1>3, <2>1 DEF KeptInv, FileKeeps, Keeps, Low
<1> QED
  BY <1>2, <1>3

LEMMA HydrateKept ==
    ASSUME Typed', BuiltInv', QueueInv, ~Live, NEW p, Hydrate(p), step' = "idle",
           p.pin.at >= held', \A f \in Fields : p.vals[f] >= acked'[f],
           disk'.form = "package" => \A f \in DOMAIN disk'.pkg.vals : disk'.pkg.vals[f] >= acked'[f]
    PROVE  KeptInv'
<1>1. /\ package' = p /\ settings' = p.vals /\ cache' = p.pin /\ busy' = FALSE /\ pinned' = 0
      /\ jobs' = <<Save("initial")>> /\ Live'
  BY NoTurns DEF Hydrate, QueueInv, Turns, Live
<1>2. ~Running' /\ ~AtStartup' /\ ~AtReload'
  BY <1>1 DEF Running, AtStartup, AtReload
<1>3. MemoryKeeps'
  BY <1>1, <1>2, MemoryNext
<1>4. FileKeeps'
  BY <1>1, <1>2 DEF FileKeeps, Low
<1>5. UpdatesInv'
  <2>1. \A i \in DOMAIN jobs' : jobs'[i].kind = "initial"
    <3>1. Save("initial").kind = "initial"
      BY DEF Save, Job
    <3>2. \A i \in DOMAIN <<Save("initial")>> : <<Save("initial")>>[i] = Save("initial")
      OBVIOUS
    <3> QED
      BY <1>1, <3>1, <3>2
  <2> QED
    BY <2>1 DEF UpdatesInv
<1> QED
  BY <1>3, <1>4, <1>5 DEF KeptInv

LEMMA StartupKept ==
    ASSUME Typed, QueueInv, BuiltInv, KeptInv, AgreeInv, Typed', BuiltInv', NEW ok \in BOOLEAN,
           ReadStartup(ok) \/ BackupStartup(ok) \/ WriteStartup(ok)
    PROVE  KeptInv'
<1>1. clock \in Nat /\ Defaults \in Whole(clock) /\ Defaults.pin = NoPin /\ Defaults.pin.at = 0
  BY DefaultsAreWhole, NoPinIsOldest DEF Typed, HistoryTyped
<1>2. ~Live /\ phase = "reading" /\ clock' = clock /\ jobs = <<>>
  <2>1. phase = "reading" /\ clock' = clock
    BY DEF ReadStartup, BackupStartup, WriteStartup
  <2> QED
    BY <2>1, NoTurns DEF Live
<1>3. /\ Merge(disk.pkg, Defaults).pin.at >= held
      /\ \A f \in Fields : Merge(disk.pkg, Defaults).vals[f] >= acked[f]
  BY <1>2, FileIsKept
<1>4. disk.pkg \in Package(clock)
  BY DEF Typed, FilesTyped, Files
<1>5. ASSUME UNCHANGED <<disk, acked>> PROVE \A f \in DOMAIN disk'.pkg.vals : disk'.pkg.vals[f] >= acked'[f]
  BY <1>2, <1>3, <1>4, <1>5, PartKeeps
<1>6. AtStartup => /\ Merge(loaded.pkg, Defaults).pin.at >= held
                   /\ \A f \in Fields : Merge(loaded.pkg, Defaults).vals[f] >= acked[f]
  <2>1. AtStartup => DOMAIN Merge(loaded.pkg, Defaults).vals = Fields
    BY <1>1, MergeFields, WholeFields DEF BuiltInv, LoadedInv, Files
  <2> QED
    BY <2>1 DEF KeptInv, FileKeeps, Keeps, Low
<1>7. CASE ReadStartup(ok)
  <2>1. step = "idle" /\ disk' = disk
    BY <1>7, StartupReads
  <2>2. CASE Absent /\ Hydrate(Defaults) /\ UNCHANGED <<step, acked, held>>
    <3>1. disk.pkg = Defaults
      BY <2>2 DEF Absent, Typed, FilesTyped
    <3>2. Merge(Defaults, Defaults) = Defaults
      BY <1>1, NoPinIsOldest, NewerThanNone, MergeWhole
    <3>3. Defaults.pin.at >= held' /\ \A f \in Fields : Defaults.vals[f] >= acked'[f]
      BY <1>3, <2>2, <3>1, <3>2
    <3> QED
      BY <1>2, <1>5, <2>1, <2>2, <3>3, HydrateKept
  <2>3. CASE Hydrate(Merge(disk.pkg, Defaults)) /\ UNCHANGED <<step, acked, held>>
    <3>1. /\ Merge(disk.pkg, Defaults).pin.at >= held'
          /\ \A f \in Fields : Merge(disk.pkg, Defaults).vals[f] >= acked'[f]
      BY <1>3, <2>3
    <3> QED
      BY <1>2, <1>5, <2>1, <2>3, <3>1, HydrateKept
  <2>4. CASE loaded' = disk /\ UNCHANGED <<phase, jobs, acked, held>>
    <3>1. ~Live'
      BY <1>2, <2>4 DEF Live
    <3>2. AtStartup' => loaded' \in Files(clock')
      BY <1>2, <2>4 DEF Typed, FilesTyped
    <3> QED
      BY <1>2, <1>3, <2>1, <2>4, <3>1, <3>2, QuietKept
  <2>5. CASE Hydrate(Defaults) /\ step' = step /\ acked' = Defaults.vals /\ held' = 0
    <3>1. Defaults.pin.at >= held' /\ \A f \in Fields : Defaults.vals[f] >= acked'[f]
      <4>1. \A f \in Fields : Defaults.vals[f] = 0
        BY <1>1, DefaultsAreWhole
      <4> QED
        BY <1>1, <2>5, <4>1
    <3>2. \A f \in Fields : Merge(disk.pkg, Defaults).vals[f] >= acked'[f]
      BY <1>1, <1>4, <2>5, ResetKeeps
    <3>3. \A f \in DOMAIN disk'.pkg.vals : disk'.pkg.vals[f] >= acked'[f]
      BY <1>2, <1>4, <2>1, <3>2, PartKeeps
    <3> QED
      BY <1>2, <2>1, <2>5, <3>1, <3>3, HydrateKept
  <2> QED
    BY <1>7, <2>2, <2>3, <2>4, <2>5, StartupReads
<1>8. CASE BackupStartup(ok)
  <2>1. step = "backup" /\ UNCHANGED <<disk, acked, held>> /\ AtStartup
    BY <1>2, <1>8 DEF BackupStartup, AtStartup
  <2>2. CASE ok
    <3>1. UNCHANGED <<phase, jobs, loaded>>
      BY <1>8, <2>2 DEF BackupStartup
    <3>2. ~Live' /\ loaded' \in Files(clock')
      BY <1>2, <2>1, <3>1 DEF Live, BuiltInv, LoadedInv
    <3> QED
      BY <1>2, <1>3, <1>6, <2>1, <3>1, <3>2, QuietKept
  <2>3. CASE ~ok
    <3>1. Hydrate(Merge(loaded.pkg, Defaults)) /\ step' = "idle"
      BY <1>8, <2>3 DEF BackupStartup
    <3>2. /\ Merge(loaded.pkg, Defaults).pin.at >= held'
          /\ \A f \in Fields : Merge(loaded.pkg, Defaults).vals[f] >= acked'[f]
      BY <1>6, <2>1
    <3> QED
      BY <1>2, <1>5, <2>1, <3>1, <3>2, HydrateKept
  <2> QED
    BY <2>2, <2>3
<1>9. CASE WriteStartup(ok)
  <2>1. step = "normalise"
    BY <1>9 DEF WriteStartup
  <2>2. CASE ok
    <3>1. Written(next) /\ Hydrate(next) /\ step' = "idle" /\ UNCHANGED <<acked, held>>
      BY <1>9, <2>2 DEF WriteStartup
    <3>2. /\ next \in Whole(clock) /\ next.pin.at >= held' /\ \A f \in Fields : next.vals[f] >= acked'[f]
      BY <2>1, <3>1, NextKeeps DEF KeptInv
    <3>3. disk'.pkg = next /\ DOMAIN next.vals = Fields
      BY <1>1, <3>1, <3>2, WrittenTyped, WholeFields
    <3> QED
      BY <1>2, <3>1, <3>2, <3>3, HydrateKept
  <2>3. CASE ~ok
    <3>1. Off /\ UNCHANGED <<disk, foreign>>
      BY <1>9, <2>3 DEF WriteStartup
    <3> QED
      BY <1>3, <3>1, OffKept
  <2> QED
    BY <2>2, <2>3
<1> QED
  BY <1>7, <1>8, <1>9

LEMMA StopKept ==
    ASSUME Typed, QueueInv, BuiltInv, KeptInv, AgreeInv, Typed', Stop
    PROVE  KeptInv'
<1>1. CASE UNCHANGED <<disk, foreign>>
  BY <1>1, FileIsKept, OffKept DEF Stop
<1>2. CASE step \in {"write", "normalise"} /\ Written(next)
  <2>1. next \in Whole(clock) /\ next.pin.at >= held /\ \A f \in Fields : next.vals[f] >= acked[f]
    BY <1>2, NextKeeps DEF KeptInv
  <2>2. Merge(disk'.pkg, Defaults) = next
    BY <1>2, <2>1, WrittenAgrees
  <2> QED
    BY <2>1, <2>2, OffKept DEF Stop
<1> QED
  BY <1>1, <1>2 DEF Stop

\* The jobs are typed, and numbered from their head.
LEMMA JobsNow ==
    ASSUME Typed
    PROVE  /\ clock \in Nat
           /\ \A i \in DOMAIN jobs : jobs[i] \in Jobs(clock) /\ i \in Nat \ {0} /\ jobs[i].value \in 0 .. clock
           /\ \A i \in DOMAIN jobs : jobs[i].kind = "update" => jobs[i].field \in Fields
           /\ jobs # <<>> => Head(jobs) = jobs[1] /\ 1 \in DOMAIN jobs
<1>1. clock \in Nat /\ jobs \in Seq(Jobs(clock))
  BY DEF Typed, QueuesTyped, HistoryTyped
<1>2. DOMAIN jobs = 1 .. Len(jobs) /\ Len(jobs) \in Nat /\ \A i \in 1 .. Len(jobs) : jobs[i] \in Jobs(clock)
  BY <1>1, LenProperties, ElementOfSeq
<1>3. jobs # <<>> => Head(jobs) = jobs[1] /\ 1 \in DOMAIN jobs
  BY <1>1, QueueTail
<1> QED
  BY <1>1, <1>2, <1>3 DEF Typed, QueuesTyped, Jobs

\* The update that waits at a position.
LEMMA WaitingNow ==
    ASSUME Typed, UpdatesInv, NEW i \in DOMAIN jobs, jobs[i].kind = "update", i > 1 \/ ~busy
    PROVE  Unused(jobs[i].field, jobs[i].value)
  BY JobsNow DEF UpdatesInv

\* The head of the jobs has left, and none runs.
LEMMA UpdatesMoved ==
    ASSUME Typed, UpdatesInv, jobs # <<>>, busy' = FALSE, NEW d \in {0, 1},
           \A i \in DOMAIN jobs' : jobs'[i].kind = "update" =>
               i \in Nat /\ i + d \in DOMAIN jobs /\ i + d > 1 /\ jobs'[i] = jobs[i + d],
           \A j \in Jobs(clock) :
               j.kind = "update" /\ j.field \in Fields /\ Unused(j.field, j.value)
               /\ (Head(jobs).kind = "update" => j.value > Head(jobs).value)
               => /\ j.value > acked'[j.field] /\ j.value # settings'[j.field]
                  /\ j.value # package'.vals[j.field]
                  /\ j.field \in DOMAIN disk'.pkg.vals => j.value # disk'.pkg.vals[j.field],
           ~AtReload'
    PROVE  UpdatesInv'
<1>1. ~Running'
  BY NotRunning
<1>2. ASSUME NEW i \in DOMAIN jobs', jobs'[i].kind = "update"
      PROVE  /\ jobs'[i].value > acked'[jobs'[i].field] /\ jobs'[i].value # settings'[jobs'[i].field]
             /\ jobs'[i].value # package'.vals[jobs'[i].field]
             /\ jobs'[i].field \in DOMAIN disk'.pkg.vals => jobs'[i].value # disk'.pkg.vals[jobs'[i].field]
  <2> DEFINE k == i + d
  <2>1. k \in DOMAIN jobs /\ k > 1 /\ jobs'[i] = jobs[k]
    BY <1>2
  <2> HIDE DEF k
  <2>2. jobs[k] \in Jobs(clock) /\ jobs[k].kind = "update" /\ jobs[k].field \in Fields /\ Unused(jobs[k].field, jobs[k].value)
    BY <1>2, <2>1, JobsNow, WaitingNow
  <2>3. Head(jobs).kind = "update" => jobs[k].value > Head(jobs).value
    <3>1. Head(jobs) = jobs[1] /\ 1 \in DOMAIN jobs
      BY JobsNow
    <3>2. Head(jobs).kind = "update" => Head(jobs).value < jobs[k].value
      BY <2>1, <2>2, <3>1 DEF UpdatesInv
    <3>3. Head(jobs).value \in Nat /\ jobs[k].value \in Nat
      BY <2>1, <3>1, JobsNow
    <3> QED
      BY <3>2, <3>3
  <2> QED
    BY <2>1, <2>2, <2>3
<1>3. \A i \in DOMAIN jobs' : jobs'[i].kind = "update" =>
          IF i = 1 /\ busy' THEN jobs'[i].value # package'.vals[jobs'[i].field]
                                 /\ jobs'[i].value > acked'[jobs'[i].field]
          ELSE Unused(jobs[i].field, jobs[i].value)'
  BY <1>1, <1>2 DEF Unused
<1>4. \A i, j \in DOMAIN jobs' : i < j /\ jobs'[i].kind = "update" /\ jobs'[j].kind = "update" =>
          jobs'[i].value < jobs'[j].value
  <2> SUFFICES ASSUME NEW i \in DOMAIN jobs', NEW j \in DOMAIN jobs', i < j,
                      jobs'[i].kind = "update", jobs'[j].kind = "update"
               PROVE  jobs'[i].value < jobs'[j].value
    OBVIOUS
  <2>1. /\ i + d \in DOMAIN jobs /\ j + d \in DOMAIN jobs /\ jobs'[i] = jobs[i + d] /\ jobs'[j] = jobs[j + d]
        /\ i \in Nat /\ j \in Nat
    OBVIOUS
  <2>2. i + d < j + d
    BY <2>1
  <2> QED
    BY <2>1, <2>2 DEF UpdatesInv
<1> QED
  BY <1>3, <1>4 DEF UpdatesInv

\* The jobs stay as they are, and what their values differ from.
LEMMA UpdatesStay ==
    ASSUME Typed, UpdatesInv, jobs' = jobs,
           busy' = busy \/ (jobs # <<>> /\ Head(jobs).kind = "reload"),
           \A f \in Fields : package'.vals[f] = package.vals[f] /\ settings'[f] = settings[f],
           acked' \in [Fields -> Nat], \A f \in Fields : acked'[f] <= acked[f],
           \A j \in Jobs(clock) :
               j.kind = "update" /\ j.field \in Fields /\ Unused(j.field, j.value) =>
                  /\ j.field \in DOMAIN disk'.pkg.vals => j.value # disk'.pkg.vals[j.field]
                  /\ AtReload' /\ j.field \in DOMAIN loaded'.pkg.vals => j.value # loaded'.pkg.vals[j.field],
           Running' => Running /\ \A f \in Fields : snapshot'.vals[f] = snapshot.vals[f]
    PROVE  UpdatesInv'
<1>1. ASSUME NEW i \in DOMAIN jobs, jobs[i].kind = "update"
      PROVE  IF i = 1 /\ busy' THEN jobs[i].value # package'.vals[jobs[i].field]
                                    /\ jobs[i].value > acked'[jobs[i].field]
             ELSE Unused(jobs[i].field, jobs[i].value)'
  <2>1. /\ jobs[i].field \in Fields /\ jobs[i] \in Jobs(clock) /\ jobs[i].value \in 0 .. clock
        /\ (jobs # <<>> => Head(jobs) = jobs[1]) /\ i \in Nat \ {0}
    BY <1>1, JobsNow
  <2>2. jobs # <<>>
    BY <1>1
  <2>3. acked[jobs[i].field] \in Nat /\ acked'[jobs[i].field] \in Nat /\ clock \in Nat
        /\ acked'[jobs[i].field] <= acked[jobs[i].field]
    BY <2>1 DEF Typed, HistoryTyped
  <2>4. busy' = busy \/ i # 1
    BY <1>1, <2>1, <2>2
  <2>5. CASE i = 1 /\ busy
    <3>1. jobs[i].value # package.vals[jobs[i].field] /\ jobs[i].value > acked[jobs[i].field]
      BY <1>1, <2>5 DEF UpdatesInv
    <3> QED
      BY <2>1, <2>3, <2>4, <2>5, <3>1
  <2>6. CASE ~(i = 1 /\ busy)
    <3>1. Unused(jobs[i].field, jobs[i].value)
      BY <1>1, <2>6 DEF UpdatesInv
    <3>2. /\ jobs[i].value > acked'[jobs[i].field] /\ jobs[i].value # settings'[jobs[i].field]
          /\ jobs[i].value # package'.vals[jobs[i].field]
          /\ jobs[i].field \in DOMAIN disk'.pkg.vals => jobs[i].value # disk'.pkg.vals[jobs[i].field]
          /\ AtReload' /\ jobs[i].field \in DOMAIN loaded'.pkg.vals =>
                 jobs[i].value # loaded'.pkg.vals[jobs[i].field]
          /\ Running' => jobs[i].value # snapshot'.vals[jobs[i].field]
      <4>1. jobs[i].value > acked[jobs[i].field] /\ jobs[i].value # settings[jobs[i].field]
            /\ jobs[i].value # package.vals[jobs[i].field]
            /\ (Running => jobs[i].value # snapshot.vals[jobs[i].field])
        BY <3>1 DEF Unused
      <4>2. jobs[i].value > acked'[jobs[i].field]
        BY <2>1, <2>3, <4>1
      <4> QED
        BY <1>1, <2>1, <3>1, <4>1, <4>2
    <3> QED
      BY <2>4, <2>6, <3>2 DEF Unused
  <2> QED
    BY <2>5, <2>6
<1>2. \A i, j \in DOMAIN jobs' : i < j /\ jobs'[i].kind = "update" /\ jobs'[j].kind = "update" =>
          jobs'[i].value < jobs'[j].value
  BY DEF UpdatesInv
<1>3. \A i \in DOMAIN jobs' : jobs'[i].kind = "update" =>
          IF i = 1 /\ busy' THEN jobs'[i].value # package'.vals[jobs'[i].field]
                                 /\ jobs'[i].value > acked'[jobs'[i].field]
          ELSE Unused(jobs[i].field, jobs[i].value)'
  BY <1>1 DEF Unused
<1> QED
  BY <1>2, <1>3 DEF UpdatesInv

\* Files: what is on the disk, and what a reload has read.
LEMMA FileStays ==
    ASSUME Typed, Typed', BuiltInv, FileKeeps, Live, Live',
           \A f \in Fields : acked'[f] <= acked[f],
           disk'.form = "package" => disk' = disk \/ \A f \in DOMAIN disk'.pkg.vals : disk'.pkg.vals[f] >= acked'[f],
           AtReload' => (AtReload /\ loaded' = loaded) \/ (loaded' = disk /\ Readable)
    PROVE  FileKeeps'
<1>1. clock \in Nat /\ disk.pkg \in Package(clock)
  BY DEF Typed, FilesTyped, HistoryTyped, Files
<1>2. \A f \in Fields : acked[f] \in Nat /\ acked'[f] \in Nat
  BY DEF Typed, HistoryTyped
<1>3. disk.form = "package" => \A f \in DOMAIN disk.pkg.vals : disk.pkg.vals[f] >= acked'[f]
  <2> SUFFICES ASSUME disk.form = "package", NEW f \in DOMAIN disk.pkg.vals PROVE disk.pkg.vals[f] >= acked'[f]
    OBVIOUS
  <2>1. f \in Fields /\ disk.pkg.vals[f] \in 0 .. clock /\ disk.pkg.vals[f] >= acked[f]
    BY <1>1, PartFields DEF FileKeeps, Low
  <2> QED
    BY <1>1, <1>2, <2>1
<1>4. AtReload' => \A f \in DOMAIN loaded'.pkg.vals : loaded'.pkg.vals[f] >= acked'[f]
  <2>1. CASE loaded' = disk /\ Readable
    BY <1>3, <2>1 DEF Readable
  <2>2. CASE AtReload' /\ AtReload /\ loaded' = loaded
    <3> SUFFICES ASSUME NEW f \in DOMAIN loaded.pkg.vals PROVE loaded.pkg.vals[f] >= acked'[f]
      BY <2>2
    <3>1. loaded.pkg \in Package(clock)
      BY <2>2 DEF BuiltInv, LoadedInv, Files
    <3>2. f \in Fields /\ loaded.pkg.vals[f] \in 0 .. clock /\ loaded.pkg.vals[f] >= acked[f]
      BY <1>1, <2>2, <3>1, PartFields DEF FileKeeps, Low
    <3> QED
      BY <1>1, <1>2, <3>2
  <2> QED
    BY <2>1, <2>2
<1>5. ~AtStartup'
  BY DEF Live, AtStartup
<1> QED
  BY <1>3, <1>4, <1>5 DEF FileKeeps, Low

\* A save has ended.
LEMMA EndSaveKept ==
    ASSUME Typed, QueueInv, BuiltInv, KeptInv, AgreeInv, Typed', BuiltInv', Running, Live, clock' = clock,
           NEW ok \in BOOLEAN, NEW p \in Whole(clock), EndSave(ok, p),
           ok => p.vals = snapshot.vals /\ p.pin.at >= held,
           \/ UNCHANGED <<disk, foreign>> /\ (ok => Head(jobs).kind # "update")
           \/ ok /\ disk'.pkg = p
    PROVE  KeptInv'
<1>1. CASE Head(jobs).kind = "initial" /\ ~ok
  <2>1. Off /\ UNCHANGED <<disk, foreign>>
    BY <1>1 DEF EndSave
  <2> QED
    BY <2>1, FileIsKept, OffKept
<1>2. CASE ~(Head(jobs).kind = "initial" /\ ~ok)
  <2> DEFINE job == Head(jobs)
  <2>1. /\ package' = (IF ok THEN p ELSE package)
        /\ settings' = (IF ok \/ job.kind # "update" THEN settings ELSE previous)
        /\ acked' = (IF ok /\ job.kind = "update" THEN [acked EXCEPT ![job.field] = job.value] ELSE acked)
        /\ jobs' = Tail(jobs) /\ busy' = FALSE /\ step' = "idle" /\ phase' = "running"
        /\ UNCHANGED <<cache, pinned, held>>
    BY <1>2 DEF EndSave, Release, Committed, Restored
  <2>2. /\ jobs # <<>> /\ previous = package.vals /\ snapshot \in Whole(clock)
        /\ job.kind = "update" => snapshot.vals[job.field] = job.value
    BY DEF Running, Saving, BuiltInv, SaveInv
  <2>3. /\ clock \in Nat /\ job.value \in 0 .. clock /\ (job.kind = "update" => job.field \in Fields)
        /\ acked \in [Fields -> 0 .. clock] /\ DOMAIN p.vals = Fields
    BY <2>2, JobsNow, WholeFields DEF Typed, HistoryTyped
  <2>4. /\ package.pin.at >= held /\ cache.at >= held
        /\ \A f \in Fields : package.vals[f] >= acked[f] /\ settings[f] >= acked[f]
                             /\ snapshot.vals[f] >= acked[f]
        /\ job.kind = "update" => settings[job.field] >= job.value
        /\ pinned # 0 => pinned >= held
    BY MemoryNow DEF KeptInv
  <2>5. \A f \in Fields : acked'[f] = IF ok /\ job.kind = "update" /\ f = job.field THEN job.value ELSE acked[f]
    BY <2>1, <2>3
  <2>6. ~Running' /\ ~AtReload' /\ ~AtStartup' /\ Live'
    BY <2>1 DEF Running, AtReload, AtStartup, Live
  <2> HIDE DEF job
  <2>7. ASSUME NEW f \in Fields PROVE package'.vals[f] >= acked'[f] /\ settings'[f] >= acked'[f]
    <3>1. acked[f] \in Nat /\ package.vals[f] >= acked[f] /\ settings[f] >= acked[f] /\ snapshot.vals[f] >= acked[f]
      BY <2>3, <2>4
    <3>2. CASE ok
      <4>1. package'.vals[f] = snapshot.vals[f] /\ settings'[f] = settings[f]
        BY <2>1, <3>2
      <4>2. CASE job.kind = "update" /\ f = job.field
        <5>1. acked'[f] = job.value /\ snapshot.vals[f] = job.value /\ settings[f] >= job.value
          BY <2>2, <2>4, <2>5, <3>2, <4>2 DEF job
        <5> QED
          BY <2>3, <4>1, <5>1
      <4>3. CASE ~(job.kind = "update" /\ f = job.field)
        <5>1. acked'[f] = acked[f]
          BY <2>5, <4>3
        <5> QED
          BY <3>1, <4>1, <5>1
      <4> QED
        BY <4>2, <4>3
    <3>3. CASE ~ok
      BY <2>1, <2>2, <2>5, <3>1, <3>3
    <3> QED
      BY <3>2, <3>3
  <2>8. package'.pin.at >= held'
    BY <2>1, <2>4
  <2>9. MemoryKeeps'
    BY <2>1, <2>4, <2>6, <2>7, <2>8, MemoryNext
  <2>10. /\ 1 \in {0, 1}
         /\ \A i \in DOMAIN jobs' : i \in Nat /\ i + 1 \in DOMAIN jobs /\ i + 1 > 1 /\ jobs'[i] = jobs[i + 1]
    BY <2>1, <2>2, JobsLeft
  <2>11. CASE UNCHANGED <<disk, foreign>> /\ (ok => job.kind # "update")
    <3>1. acked' = acked
      BY <2>1, <2>11
    <3>2. FileKeeps'
      <4>1. \A f \in Fields : acked'[f] <= acked[f]
        BY <2>3, <3>1
      <4> QED
        BY <2>6, <2>11, <4>1, FileStays DEF KeptInv
    <3>3. UpdatesInv'
      <4>1. \A j \in Jobs(clock) :
               j.kind = "update" /\ j.field \in Fields /\ Unused(j.field, j.value)
               /\ (Head(jobs).kind = "update" => j.value > Head(jobs).value)
               => /\ j.value > acked'[j.field] /\ j.value # settings'[j.field]
                  /\ j.value # package'.vals[j.field]
                  /\ j.field \in DOMAIN disk'.pkg.vals => j.value # disk'.pkg.vals[j.field]
        BY <2>1, <2>2, <2>11, <3>1 DEF Unused
      <4> QED
        BY <2>1, <2>2, <2>6, <2>10, <4>1, UpdatesMoved DEF KeptInv
    <3> QED
      BY <2>9, <3>2, <3>3 DEF KeptInv
  <2>12. CASE ok /\ disk'.pkg = p
    <3>2. FileKeeps'
      BY <2>1, <2>3, <2>6, <2>7, <2>12 DEF FileKeeps, Low
    <3>3. UpdatesInv'
      <4>1. ASSUME NEW j \in Jobs(clock), j.kind = "update", j.field \in Fields, Unused(j.field, j.value),
                   job.kind = "update" => j.value > job.value
            PROVE  /\ j.value > acked'[j.field] /\ j.value # settings'[j.field]
                   /\ j.value # package'.vals[j.field]
                   /\ j.field \in DOMAIN disk'.pkg.vals => j.value # disk'.pkg.vals[j.field]
        <5>1. /\ j.value > acked[j.field] /\ j.value # settings[j.field]
              /\ j.value # snapshot.vals[j.field]
          BY <4>1 DEF Unused
        <5>2. j.value > acked'[j.field]
          BY <2>1, <2>3, <4>1, <5>1
        <5> QED
          BY <2>1, <2>12, <5>1, <5>2
      <4>2. \A j \in Jobs(clock) :
               j.kind = "update" /\ j.field \in Fields /\ Unused(j.field, j.value)
               /\ (Head(jobs).kind = "update" => j.value > Head(jobs).value)
               => /\ j.value > acked'[j.field] /\ j.value # settings'[j.field]
                  /\ j.value # package'.vals[j.field]
                  /\ j.field \in DOMAIN disk'.pkg.vals => j.value # disk'.pkg.vals[j.field]
        BY <4>1 DEF job
      <4> QED
        BY <2>1, <2>2, <2>6, <2>10, <4>2, UpdatesMoved DEF KeptInv
    <3> QED
      BY <2>9, <3>2, <3>3 DEF KeptInv
  <2> QED
    BY <2>11, <2>12 DEF job
<1> QED
  BY <1>1, <1>2

\* A save takes its turn, with the values as they are now.
LEMMA BeginSaveKept ==
    ASSUME Typed, QueueInv, BuiltInv, KeptInv, Typed', BuiltInv', BeginSave
    PROVE  KeptInv'
<1> DEFINE job == Head(jobs)
<1>1. /\ Live /\ jobs # <<>> /\ job.kind # "reload" /\ ~busy
      /\ UNCHANGED <<disk, package, cache, paused, pinned, step, loaded, next, clock, acked, held>>
  BY DEF BeginSave, Saving, Live
<1>2. /\ clock \in Nat /\ job = jobs[1] /\ 1 \in DOMAIN jobs /\ job.value \in 0 .. clock
      /\ (job.kind = "update" => job.field \in Fields)
      /\ acked \in [Fields -> 0 .. clock] /\ settings \in [Fields -> 0 .. clock]
      /\ busy = FALSE
  BY <1>1, JobsNow DEF Typed, MemoryTyped, QueuesTyped, HistoryTyped
<1>3. /\ package.pin.at >= held /\ cache.at >= held
      /\ \A f \in Fields : package.vals[f] >= acked[f] /\ settings[f] >= acked[f]
      /\ pinned # 0 => pinned >= held
      /\ step = "write" /\ Head(store) = "pin" => next.pin.at >= held
  BY <1>1, MemoryNow DEF KeptInv
<1>4. Live' /\ ~AtReload'
  <2>1. phase' \in {"saving", "running"}
    BY DEF BeginSave
  <2>2. step # "idle" => store # <<>> /\ Head(store) = "pin"
    BY <1>1, StepTurn
  <2>3. CASE paused = "no"
    BY <1>1, <2>3 DEF BeginSave, AtReload, AtHead, Reloading, Live
  <2>4. CASE paused # "no"
    BY <1>1, <2>1, <2>2, <2>4 DEF BeginSave, AtReload, AtHead, Live
  <2> QED
    BY <2>1, <2>3, <2>4 DEF Live
<1>5. FileKeeps'
  <2>1. \A f \in Fields : acked'[f] <= acked[f]
    BY <1>1, <1>2
  <2> QED
    BY <1>1, <1>4, <2>1, FileStays DEF KeptInv
<1>6. step = "write" => Head(store) = "pin"
  BY <1>1, StepTurn
<1>7. UpdatesInv
  BY DEF KeptInv
<1>8. job.kind = "update" => Unused(job.field, job.value)
  BY <1>1, <1>2, <1>7, WaitingNow
<1>9. CASE paused = "no"
  <2> DEFINE vals == IF job.kind = "update" THEN [settings EXCEPT ![job.field] = job.value] ELSE settings
  <2>1. /\ settings' = vals /\ snapshot' = [Build EXCEPT !.vals = vals] /\ busy' = TRUE
        /\ UNCHANGED <<phase, jobs>>
    BY <1>9 DEF BeginSave
  <2>2. snapshot'.vals = vals
    BY <2>1 DEF Build
  <2>3. \A f \in Fields : vals[f] = IF job.kind = "update" /\ f = job.field THEN job.value ELSE settings[f]
    BY <1>2
  <2> HIDE DEF vals, job
  <2>4. \A f \in Fields : vals[f] >= acked[f]
    <3>1. job.kind = "update" => job.value > acked[job.field]
      BY <1>8 DEF Unused
    <3>2. job.kind = "update" => acked[job.field] \in Nat
      BY <1>2
    <3> QED
      BY <1>2, <1>3, <2>3, <3>1, <3>2
  <2>5. job.kind = "update" => vals[job.field] >= job.value
    BY <1>2, <2>3
  <2>6. MemoryKeeps'
    BY <1>1, <1>3, <1>6, <2>1, <2>2, <2>4, <2>5, MemoryNext DEF job
  <2>7. ASSUME NEW i \in DOMAIN jobs, jobs[i].kind = "update"
        PROVE  IF i = 1 /\ busy' THEN jobs[i].value # package'.vals[jobs[i].field]
                                      /\ jobs[i].value > acked'[jobs[i].field]
               ELSE Unused(jobs[i].field, jobs[i].value)'
    <3>1. jobs[i].field \in Fields /\ jobs[i].value \in 0 .. clock /\ i \in Nat \ {0}
      BY <2>7, JobsNow
    <3>2. Unused(jobs[i].field, jobs[i].value)
      BY <1>1, <1>7, <2>7, WaitingNow
    <3>3. CASE i = 1
      BY <1>1, <2>1, <3>2, <3>3 DEF Unused
    <3>4. CASE i # 1
      <4>1. job.kind = "update" => job.value < jobs[i].value
        BY <1>2, <1>7, <2>7, <3>1, <3>4 DEF UpdatesInv
      <4>2. jobs[i].value # vals[jobs[i].field]
        BY <1>2, <2>3, <3>1, <3>2, <4>1 DEF Unused
      <4> QED
        BY <1>1, <1>4, <2>1, <2>2, <3>2, <3>4, <4>2 DEF Unused
    <3> QED
      BY <3>3, <3>4
  <2>8. UpdatesInv'
    <3>1. \A i, j \in DOMAIN jobs' : i < j /\ jobs'[i].kind = "update" /\ jobs'[j].kind = "update" =>
              jobs'[i].value < jobs'[j].value
      BY <1>7, <2>1 DEF UpdatesInv
    <3>2. \A i \in DOMAIN jobs' : jobs'[i].kind = "update" =>
              IF i = 1 /\ busy' THEN jobs'[i].value # package'.vals[jobs'[i].field]
                                     /\ jobs'[i].value > acked'[jobs'[i].field]
              ELSE Unused(jobs[i].field, jobs[i].value)'
      BY <2>1, <2>7 DEF Unused
    <3> QED
      BY <3>1, <3>2 DEF UpdatesInv
  <2> QED
    BY <1>5, <2>6, <2>8 DEF KeptInv
<1>10. CASE paused # "no"
  <2>1. /\ settings' = (IF job.kind = "update" THEN package.vals ELSE settings)
        /\ jobs' = Tail(jobs) /\ UNCHANGED <<busy, store>>
    BY <1>10 DEF BeginSave, Restored
  <2>2. ~Running' /\ busy' = FALSE
    BY <1>2, <2>1 DEF Running
  <2> HIDE DEF job
  <2>3. MemoryKeeps'
    BY <1>1, <1>3, <2>1, <2>2, MemoryNext
  <2>4. /\ 1 \in {0, 1}
        /\ \A i \in DOMAIN jobs' : i \in Nat /\ i + 1 \in DOMAIN jobs /\ i + 1 > 1 /\ jobs'[i] = jobs[i + 1]
    BY <1>1, <2>1, JobsLeft
  <2>5. \A j \in Jobs(clock) :
            j.kind = "update" /\ j.field \in Fields /\ Unused(j.field, j.value)
            /\ (Head(jobs).kind = "update" => j.value > Head(jobs).value)
            => /\ j.value > acked'[j.field] /\ j.value # settings'[j.field]
               /\ j.value # package'.vals[j.field]
               /\ j.field \in DOMAIN disk'.pkg.vals => j.value # disk'.pkg.vals[j.field]
    BY <1>1, <2>1 DEF Unused
  <2>6. UpdatesInv'
    BY <1>1, <1>4, <1>7, <2>2, <2>4, <2>5, UpdatesMoved
  <2> QED
    BY <1>5, <2>3, <2>6 DEF KeptInv
<1> QED
  BY <1>9, <1>10

LEMMA StoreSaveKept ==
    ASSUME Typed, QueueInv, BuiltInv, KeptInv, AgreeInv, Typed', BuiltInv', StoreSave
    PROVE  KeptInv'
<1>1. /\ store # <<>> /\ Head(store) = "settings" /\ Running /\ step = "idle"
      /\ UNCHANGED <<disk, clock, foreign>>
  BY DEF StoreSave, Running
<1>2. /\ Live /\ snapshot \in Whole(clock) /\ paused = "no" /\ clock \in Nat /\ package \in Whole(clock)
      /\ jobs # <<>> /\ busy /\ Head(jobs).kind # "reload"
      /\ (Head(jobs).kind = "update" => snapshot.vals[Head(jobs).field] = Head(jobs).value)
  BY <1>1, SettingsTurn DEF BuiltInv, SaveInv, Typed, MemoryTyped, HistoryTyped, Running, Saving
<1>3. Rebased(snapshot).vals = snapshot.vals
  BY <1>2, RebasedFields
<1>4. /\ package.pin.at >= held /\ cache.at >= held
      /\ \A f \in Fields : package.vals[f] >= acked[f] /\ settings[f] >= acked[f]
                           /\ snapshot.vals[f] >= acked[f]
      /\ Head(jobs).kind = "update" => settings[Head(jobs).field] >= Head(jobs).value
      /\ pinned # 0 => pinned >= held
  BY <1>1, <1>2, MemoryNow DEF KeptInv
<1>5. CASE Rebased(snapshot) = package
  <2>1. EndSave(TRUE, package)
    BY <1>5 DEF StoreSave
  <2>2. Head(jobs).kind # "update"
    <3>1. Head(jobs).kind = "update" => Head(jobs).value # package.vals[Head(jobs).field]
      BY <1>2, JobsNow DEF KeptInv, UpdatesInv
    <3> QED
      BY <1>2, <1>3, <1>5, <3>1
  <2> QED
    BY <1>1, <1>2, <1>3, <1>4, <1>5, <2>1, <2>2, EndSaveKept
<1>6. CASE Rebased(snapshot) # package
  <2>1. /\ step' = "write"
        /\ UNCHANGED <<phase, settings, package, cache, jobs, busy, snapshot, pinned, store, loaded, acked, held>>
    BY <1>2, <1>6 DEF StoreSave
  <2>2. Running' /\ Live' /\ ~AtReload'
    BY <1>1, <1>2, <2>1 DEF Running, Saving, Live, AtReload, AtHead, Reloading
  <2>3. MemoryKeeps'
    BY <1>1, <1>4, <2>1, MemoryNext
  <2>4. acked' \in [Fields -> Nat] /\ \A f \in Fields : acked'[f] <= acked[f]
    BY <2>1 DEF Typed, HistoryTyped
  <2>5. FileKeeps'
    BY <1>1, <1>2, <2>2, <2>4, FileStays DEF KeptInv
  <2>6. UpdatesInv'
    <3>1. \A j \in Jobs(clock) :
               j.kind = "update" /\ j.field \in Fields /\ Unused(j.field, j.value) =>
                  (j.field \in DOMAIN disk'.pkg.vals => j.value # disk'.pkg.vals[j.field])
      BY <1>1 DEF Unused
    <3> QED
      BY <1>1, <2>1, <2>2, <2>4, <3>1, UpdatesStay DEF KeptInv
  <2> QED
    BY <2>3, <2>5, <2>6 DEF KeptInv
<1> QED
  BY <1>5, <1>6

LEMMA WriteSaveKept ==
    ASSUME Typed, QueueInv, BuiltInv, KeptInv, AgreeInv, Typed', BuiltInv', NEW ok \in BOOLEAN, WriteSave(ok)
    PROVE  KeptInv'
<1>1. step = "write" /\ Head(store) = "settings" /\ Saving /\ EndSave(ok, next) /\ clock' = clock
  BY DEF WriteSave
<1>2. Live /\ Running /\ next \in Whole(clock) /\ next.pin.at >= held /\ clock \in Nat /\ package \in Whole(clock)
  BY <1>1, WriteTurn, SettingsTurn, NextKeeps DEF Running, KeptInv, Typed, MemoryTyped, HistoryTyped
<1>3. next.vals = snapshot.vals
  BY <1>1, <1>2, RebasedFields DEF BuiltInv, SaveInv
<1>4. CASE ok
  <2>1. disk'.pkg = next
    BY <1>2, <1>4, WrittenTyped DEF WriteSave
  <2> QED
    BY <1>1, <1>2, <1>3, <1>4, <2>1, EndSaveKept
<1>5. CASE ~ok
  <2>1. UNCHANGED <<disk, foreign>>
    BY <1>5 DEF WriteSave
  <2> QED
    BY <1>1, <1>2, <1>3, <1>5, <2>1, EndSaveKept
<1> QED
  BY <1>4, <1>5

\* Pins: the values stay, and the pin that is shown is the one that was saved.
LEMMA PinKept ==
    ASSUME Typed, QueueInv, BuiltInv, KeptInv, Typed', BuiltInv', Live,
           UNCHANGED <<phase, settings, jobs, busy, snapshot, acked>>,
           clock' \in {clock, clock + 1},
           package' \in Whole(clock), package'.vals = package.vals,
           package'.pin.at >= held', cache'.at >= held',
           pinned' # 0 => pinned' >= held',
           step' = "write" /\ Head(store') = "pin" => next'.pin.at >= held',
           AtReload' => AtReload /\ loaded' = loaded,
           disk' = disk \/ disk'.pkg.vals = package.vals
    PROVE  KeptInv'
<1>1. /\ clock \in Nat /\ DOMAIN package.vals = Fields
      /\ acked' \in [Fields -> Nat] /\ \A f \in Fields : acked'[f] <= acked[f]
  BY WholeFields DEF Typed, MemoryTyped, HistoryTyped
<1>2. /\ \A f \in Fields : package.vals[f] >= acked[f] /\ settings[f] >= acked[f]
      /\ Running => \A f \in Fields : snapshot.vals[f] >= acked[f]
      /\ Running /\ Head(jobs).kind = "update" => settings[Head(jobs).field] >= Head(jobs).value
  BY MemoryNow DEF KeptInv
<1>3. (Running' <=> Running) /\ Live'
  BY DEF Running, Saving, Live
<1>4. MemoryKeeps'
  BY <1>2, <1>3, MemoryNext
<1>5. FileKeeps'
  <2>1. disk' = disk \/ \A f \in DOMAIN disk'.pkg.vals : disk'.pkg.vals[f] >= acked'[f]
    BY <1>1, <1>2
  <2> QED
    BY <1>1, <1>3, <2>1, FileStays DEF KeptInv
<1>6. UpdatesInv'
  <2>1. \A j \in Jobs(clock) :
               j.kind = "update" /\ j.field \in Fields /\ Unused(j.field, j.value) =>
                  /\ j.field \in DOMAIN disk'.pkg.vals => j.value # disk'.pkg.vals[j.field]
                  /\ AtReload' /\ j.field \in DOMAIN loaded'.pkg.vals => j.value # loaded'.pkg.vals[j.field]
    BY DEF Unused
  <2> QED
    BY <1>1, <1>3, <2>1, UpdatesStay DEF KeptInv
<1> QED
  BY <1>4, <1>5, <1>6 DEF KeptInv

LEMMA PinStepKept ==
    ASSUME Typed, QueueInv, BuiltInv, KeptInv, Typed', BuiltInv',
           BeginPin \/ StorePin \/ \E ok \in BOOLEAN : WritePin(ok)
    PROVE  KeptInv'
<1>1. /\ clock \in Nat /\ package \in Whole(clock) /\ package.pin \in Pins(clock)
      /\ cache \in Pins(clock) /\ pins \in Seq(BOOLEAN) /\ pinned \in 0 .. clock /\ held \in 0 .. clock
  BY WholeFields DEF Typed, MemoryTyped, QueuesTyped, HistoryTyped
<1>2. Live => /\ package.pin.at >= held /\ cache.at >= held /\ (pinned # 0 => pinned >= held)
              /\ (step = "write" /\ Head(store) = "pin" => next.pin.at >= held)
  BY MemoryNow DEF KeptInv
<1>3. package.pin.at \in 0 .. clock /\ cache.at \in 0 .. clock
  BY <1>1 DEF Pins
<1>4. CASE BeginPin
  <2>1. /\ Live /\ clock' = clock + 1 /\ pinned = 0
        /\ UNCHANGED <<phase, disk, settings, package, jobs, busy, snapshot, step, loaded, next, acked, held>>
    BY <1>4 DEF BeginPin, Live, history
  <2>2. cache'.at >= held' /\ (pinned' # 0 => pinned' >= held')
    <3>1. CASE paused = "no"
      BY <1>1, <1>2, <1>4, <2>1, <3>1 DEF BeginPin
    <3>2. CASE paused # "no"
      <4>1. cache' = Pinned(cache, Head(pins), clock') /\ pinned' = pinned
        BY <1>4, <3>2 DEF BeginPin
      <4>2. cache'.at \in {cache.at, clock'}
        BY <4>1 DEF Pinned
      <4> QED
        BY <1>1, <1>2, <1>3, <2>1, <4>1, <4>2
    <3> QED
      BY <3>1, <3>2
  <2>3. step # "idle" => store # <<>> /\ Head(store) \in {"settings", "pin"} /\ Head(store) # "pin"
    <3>1. step # "idle" => store # <<>> /\ Head(store) \in {"settings", "pin"}
      BY <2>1, StepTurn
    <3> QED
      BY <2>1, <3>1, PinTurn
  <2>4. store' = store \/ store' = IF busy THEN <<"settings", "pin">> ELSE <<"pin">>
    <3>1. store' = store \/ store' = Append(store, "pin")
      BY <1>4 DEF BeginPin
    <3> QED
      BY <2>1, <3>1, TurnPin
  <2>5. step # "idle" => Head(store') = Head(store) /\ store' # <<>>
    <3>1. step # "idle" => busy
      BY <2>1, <2>3, StepTurn
    <3> QED
      BY <2>3, <2>4, <3>1, TurnsTaken
  <2>6. AtReload' => AtReload
    BY <2>1, <2>3, <2>5 DEF AtReload, AtHead, Reloading, Live
  <2> QED
    BY <1>1, <1>2, <2>1, <2>2, <2>3, <2>5, <2>6, PinKept
<1>5. CASE StorePin
  <2> DEFINE pin == Pinned(Newer(package.pin, cache), Head(pins), pinned)
             p   == [package EXCEPT !.pin = pin]
  <2>1. /\ store # <<>> /\ Head(store) = "pin" /\ step = "idle"
        /\ UNCHANGED <<phase, disk, settings, jobs, busy, snapshot, loaded, clock, acked>>
    BY <1>5 DEF StorePin
  <2>2. pins # <<>> /\ Live /\ pinned # 0
    BY <2>1, PinTurn
  <2>3. p \in Whole(clock) /\ p.vals = package.vals /\ p.pin = pin
    <3>1. Head(pins) \in BOOLEAN
      BY <1>1, <2>2, QueueTail
    <3>2. pin \in Pins(clock)
      BY <1>1, <3>1, NewerPin, PinnedTyped
    <3> QED
      BY <1>1, <3>2, RepinnedFields
  <2>4. pin.at >= held
    <3>1. /\ Newer(package.pin, cache).at >= package.pin.at
          /\ Newer(package.pin, cache) \in Pins(clock)
      BY <1>1, NewerPin
    <3>2. Newer(package.pin, cache).at \in 0 .. clock
      BY <3>1 DEF Pins
    <3>3. pin.at \in {Newer(package.pin, cache).at, pinned}
      BY DEF Pinned
    <3> QED
      BY <1>1, <1>2, <1>3, <2>2, <3>1, <3>2, <3>3
  <2>5. CASE p = package \/ paused # "no"
    <3>1. EndPin(p = package, p)
      BY <1>5, <2>5 DEF StorePin
    <3> HIDE DEF p, pin
    <3>2. package' = package /\ pinned' = 0 /\ step' = "idle"
      BY <2>5, <3>1 DEF EndPin, Release
    <3>3. package'.pin.at >= held' /\ cache'.at >= held'
      <4>1. CASE p = package
        <5>1. cache' = p.pin /\ held' = p.pin.at
          BY <3>1, <4>1 DEF EndPin
        <5>2. p.pin.at \in 0 .. clock
          BY <1>3, <4>1
        <5> QED
          BY <3>2, <4>1, <5>1, <5>2
      <4>2. CASE p # package
        <5>1. cache' = cache /\ held' = held
          BY <3>1, <4>2 DEF EndPin
        <5> QED
          BY <1>2, <2>2, <3>2, <5>1
      <4> QED
        BY <4>1, <4>2
    <3>4. ~AtReload'
      BY <3>2 DEF AtReload
    <3> QED
      BY <1>1, <2>1, <2>2, <3>2, <3>3, <3>4, PinKept
  <2>6. CASE ~(p = package \/ paused # "no")
    <3>1. step' = "write" /\ next' = p /\ UNCHANGED <<package, cache, held, pins, pinned, store>>
      BY <1>5, <2>6 DEF StorePin
    <3> HIDE DEF p, pin
    <3>2. ~AtReload'
      BY <2>1, <3>1 DEF AtReload, AtHead
    <3> QED
      BY <1>1, <1>2, <2>1, <2>2, <2>3, <2>4, <3>1, <3>2, PinKept
  <2> QED
    BY <2>5, <2>6
<1>6. ASSUME NEW ok \in BOOLEAN, WritePin(ok) PROVE KeptInv'
  <2>1. /\ step = "write" /\ Head(store) = "pin" /\ EndPin(ok, next)
        /\ UNCHANGED <<phase, settings, jobs, busy, snapshot, loaded, clock, acked>>
    BY <1>6 DEF WritePin
  <2>2. Live /\ next \in Whole(clock) /\ next.vals = package.vals
    BY <2>1, WriteTurn, PinBuilds
  <2>3. /\ package' = (IF ok THEN next ELSE package) /\ cache' = (IF ok THEN next.pin ELSE cache)
        /\ held' = (IF ok THEN next.pin.at ELSE held) /\ pinned' = 0 /\ step' = "idle"
    BY <2>1 DEF EndPin, Release
  <2>4. next.pin.at \in 0 .. clock
    BY <1>1, <2>2, WholeFields
  <2>5. package'.pin.at >= held' /\ cache'.at >= held'
    <3>1. CASE ok
      BY <1>1, <2>3, <2>4, <3>1
    <3>2. CASE ~ok
      BY <1>2, <2>2, <2>3, <3>2
    <3> QED
      BY <3>1, <3>2
  <2>6. disk' = disk \/ disk'.pkg.vals = package.vals
    <3>1. CASE ok
      BY <1>6, <2>2, <3>1, WrittenTyped DEF WritePin
    <3>2. CASE ~ok
      BY <1>6, <3>2 DEF WritePin
    <3> QED
      BY <3>1, <3>2
  <2>7. ~AtReload' /\ package' \in Whole(clock) /\ package'.vals = package.vals
    BY <1>1, <2>2, <2>3 DEF AtReload
  <2> QED
    BY <1>1, <2>1, <2>2, <2>3, <2>5, <2>6, <2>7, PinKept
<1> QED
  BY <1>4, <1>5, <1>6

\* A reload goes on, or is about to: the memory and the jobs are as they were.
LEMMA StayKept ==
    ASSUME Typed, QueueInv, BuiltInv, KeptInv, Typed', BuiltInv', Live, Reloading,
           UNCHANGED <<phase, disk, settings, package, cache, jobs, pinned, acked, held>>,
           AtReload' => (AtReload /\ loaded' = loaded) \/ (loaded' = disk /\ Readable),
           step' = "write" /\ Head(store') = "pin" => step = "write" /\ Head(store) = "pin" /\ next' = next
    PROVE  KeptInv'
<1>1. Live' /\ ~Running' /\ jobs # <<>> /\ Head(jobs).kind = "reload"
  BY DEF Live, Running, Saving, Reloading
<1>2. /\ package.pin.at >= held /\ cache.at >= held
      /\ \A f \in Fields : package.vals[f] >= acked[f] /\ settings[f] >= acked[f]
      /\ pinned # 0 => pinned >= held
      /\ step = "write" /\ Head(store) = "pin" => next.pin.at >= held
  BY MemoryNow DEF KeptInv
<1>3. MemoryKeeps'
  BY <1>1, <1>2, MemoryNext
<1>4. acked' \in [Fields -> Nat] /\ \A f \in Fields : acked'[f] <= acked[f]
  BY DEF Typed, HistoryTyped
<1>5. FileKeeps'
  BY <1>1, <1>4, FileStays DEF KeptInv
<1>6. UpdatesInv'
  <2>1. \A j \in Jobs(clock) :
               j.kind = "update" /\ j.field \in Fields /\ Unused(j.field, j.value) =>
                  /\ j.field \in DOMAIN disk'.pkg.vals => j.value # disk'.pkg.vals[j.field]
                  /\ AtReload' /\ j.field \in DOMAIN loaded'.pkg.vals => j.value # loaded'.pkg.vals[j.field]
    BY DEF Unused
  <2> QED
    BY <1>1, <1>4, <2>1, UpdatesStay DEF KeptInv
<1> QED
  BY <1>3, <1>5, <1>6 DEF KeptInv

\* A reload has ended: the updates behind it wait on.
LEMMA ReloadUpdates ==
    ASSUME Typed, UpdatesInv, Reloading, NEW rest \in {<<>>, <<Save("seed")>>},
           jobs' = rest \o Tail(jobs), busy' = FALSE, ~AtReload',
           \A j \in Jobs(clock) :
               j.kind = "update" /\ j.field \in Fields /\ Unused(j.field, j.value)
               => /\ j.value > acked'[j.field] /\ j.value # settings'[j.field]
                  /\ j.value # package'.vals[j.field]
                  /\ j.field \in DOMAIN disk'.pkg.vals => j.value # disk'.pkg.vals[j.field]
    PROVE  UpdatesInv'
<1>1. jobs # <<>>
  BY DEF Reloading
<1>2. \A j \in Jobs(clock) :
               j.kind = "update" /\ j.field \in Fields /\ Unused(j.field, j.value)
               /\ (Head(jobs).kind = "update" => j.value > Head(jobs).value)
               => /\ j.value > acked'[j.field] /\ j.value # settings'[j.field]
                  /\ j.value # package'.vals[j.field]
                  /\ j.field \in DOMAIN disk'.pkg.vals => j.value # disk'.pkg.vals[j.field]
  OBVIOUS
<1>3. CASE rest = <<>>
  <2>1. jobs' = Tail(jobs)
    BY <1>3, ReloadLeaves
  <2>2. \A i \in DOMAIN jobs' : i \in Nat \ {0} /\ i + 1 \in DOMAIN jobs /\ jobs'[i] = jobs[i + 1]
    BY ONLY Typed, <1>1, <2>1, JobsLeft
  <2>3. /\ 1 \in {0, 1}
        /\ \A i \in DOMAIN jobs' : i \in Nat /\ i + 1 \in DOMAIN jobs /\ i + 1 > 1 /\ jobs'[i] = jobs[i + 1]
    BY ONLY <2>2
  <2> QED
    BY <1>1, <1>2, <2>3, UpdatesMoved
<1>4. CASE rest # <<>>
  <2>1. /\ 0 \in {0, 1}
        /\ \A i \in DOMAIN jobs' : jobs'[i].kind = "update" =>
               i \in Nat /\ i + 0 \in DOMAIN jobs /\ i + 0 > 1 /\ jobs'[i] = jobs[i + 0]
    <3> SUFFICES ASSUME NEW i \in DOMAIN jobs', jobs'[i].kind = "update"
                 PROVE  i \in Nat /\ i + 0 \in DOMAIN jobs /\ i + 0 > 1 /\ jobs'[i] = jobs[i + 0]
      OBVIOUS
    <3>1. i \in DOMAIN jobs /\ i \in Nat \ {0} /\ (i > 1 => jobs'[i] = jobs[i]) /\ jobs'[1].kind = "seed"
      BY <1>4, ReloadLeaves
    <3>2. i > 1 /\ i + 0 = i
      BY <3>1
    <3> QED
      BY <3>1, <3>2
  <2> QED
    BY <1>1, <1>2, <2>1, UpdatesMoved
<1> QED
  BY <1>3, <1>4

LEMMA UnadoptedKept ==
    ASSUME Typed, QueueInv, BuiltInv, KeptInv, Typed', BuiltInv', AtHead,
           NEW rest \in {<<>>, <<Save("seed")>>}, EndReload(rest), AsItWas, disk' = disk
    PROVE  KeptInv'
<1>1. /\ Live /\ Reloading /\ Live' /\ busy' = FALSE /\ step' = "idle" /\ jobs' = rest \o Tail(jobs)
      /\ UNCHANGED <<settings, package, cache, pinned, acked, held>>
  BY SettingsTurn DEF AtHead, EndReload, AsItWas, Live
<1>2. ~Running' /\ ~AtReload'
  BY <1>1 DEF Running, AtReload
<1>3. /\ package.pin.at >= held /\ cache.at >= held
      /\ \A f \in Fields : package.vals[f] >= acked[f] /\ settings[f] >= acked[f]
      /\ pinned # 0 => pinned >= held
  BY <1>1, MemoryNow DEF KeptInv
<1>4. MemoryKeeps'
  BY <1>1, <1>2, <1>3, MemoryNext
<1>5. FileKeeps'
  <2>1. \A f \in Fields : acked'[f] <= acked[f]
    BY <1>1 DEF Typed, HistoryTyped
  <2> QED
    BY <1>1, <1>2, <2>1, FileStays DEF KeptInv
<1>6. UpdatesInv'
  <2>1. \A j \in Jobs(clock) :
               j.kind = "update" /\ j.field \in Fields /\ Unused(j.field, j.value)
               => /\ j.value > acked'[j.field] /\ j.value # settings'[j.field]
                  /\ j.value # package'.vals[j.field]
                  /\ j.field \in DOMAIN disk'.pkg.vals => j.value # disk'.pkg.vals[j.field]
    BY <1>1 DEF Unused
  <2> QED
    BY <1>1, <1>2, <2>1, ReloadUpdates DEF KeptInv
<1> QED
  BY <1>4, <1>5, <1>6 DEF KeptInv

\* What is adopted gives up a saved value where it brings another, and no pin.
LEMMA AdoptKept ==
    ASSUME Typed, QueueInv, BuiltInv, KeptInv, Typed', BuiltInv', AtHead, step \in {"staged", "write"},
           Adopt, disk' = disk \/ disk'.pkg = next
    PROVE  KeptInv'
<1>1. /\ Live /\ Reloading /\ EndReload(Seed(next)) /\ Live' /\ busy' = FALSE /\ step' = "idle"
      /\ jobs' = Seed(next) \o Tail(jobs) /\ pinned' = pinned /\ held' = held
      /\ settings' = next.vals /\ package' = next /\ cache' = next.pin
      /\ acked' = [f \in Fields |-> IF next.vals[f] = package.vals[f] THEN acked[f] ELSE 0]
  BY SettingsTurn DEF AtHead, Adopt, EndReload, Live
<1>2. ~Running' /\ ~AtReload'
  BY <1>1 DEF Running, AtReload
<1>3. /\ clock \in Nat /\ acked \in [Fields -> 0 .. clock] /\ package \in Whole(clock)
      /\ next \in Whole(clock) /\ next.pin.at >= held
      /\ \A f \in Fields : next.vals[f] >= acked[f]
  BY NextKeeps DEF KeptInv, Typed, MemoryTyped, HistoryTyped
<1>4. next.vals \in [Fields -> 0 .. clock] /\ DOMAIN next.vals = Fields
  BY <1>3, WholeFields
<1>5. \A f \in Fields : /\ acked'[f] \in {acked[f], 0} /\ acked[f] \in Nat
                        /\ acked'[f] <= acked[f] /\ next.vals[f] >= acked'[f]
  BY <1>1, <1>3, <1>4
<1>6. pinned # 0 => pinned >= held
  BY <1>1, MemoryNow DEF KeptInv
<1>7. MemoryKeeps'
  BY <1>1, <1>2, <1>3, <1>5, <1>6, MemoryNext
<1>8. FileKeeps'
  <2>1. disk' = disk \/ \A f \in DOMAIN disk'.pkg.vals : disk'.pkg.vals[f] >= acked'[f]
    BY <1>4, <1>5
  <2> QED
    BY <1>1, <1>2, <1>5, <2>1, FileStays DEF KeptInv
<1>9. UpdatesInv'
  <2>1. AtReload /\ loaded.pkg \in Package(clock) /\ next = Normal(Merge(loaded.pkg, package))
    <3>1. AtReload
      BY <1>1 DEF AtReload
    <3> QED
      BY <3>1 DEF BuiltInv, LoadedInv, Files
  <2>2. \A f \in Fields : next.vals[f] = IF f \in DOMAIN loaded.pkg.vals THEN loaded.pkg.vals[f] ELSE package.vals[f]
    <3>1. Merge(loaded.pkg, package) \in Whole(clock)
      BY <1>3, <2>1, MergeFields
    <3>2. next.vals = Merge(loaded.pkg, package).vals
      BY <1>3, <2>1, <3>1, NormalFields
    <3> QED
      BY <1>3, <2>1, <3>2, MergeFields
  <2>3. ASSUME NEW j \in Jobs(clock), j.kind = "update", j.field \in Fields, Unused(j.field, j.value)
        PROVE  /\ j.value > acked'[j.field] /\ j.value # settings'[j.field]
               /\ j.value # package'.vals[j.field]
               /\ j.field \in DOMAIN disk'.pkg.vals => j.value # disk'.pkg.vals[j.field]
    <3>1. /\ j.value > acked[j.field] /\ j.value # package.vals[j.field]
          /\ (j.field \in DOMAIN disk.pkg.vals => j.value # disk.pkg.vals[j.field])
          /\ (j.field \in DOMAIN loaded.pkg.vals => j.value # loaded.pkg.vals[j.field])
      BY <2>1, <2>3 DEF Unused
    <3>2. j.value # next.vals[j.field]
      BY <2>2, <2>3, <3>1
    <3>3. j.value > acked'[j.field]
      <4>1. j.value \in 0 .. clock
        BY DEF Jobs
      <4> QED
        BY <1>3, <1>5, <2>3, <3>1, <4>1
    <3> QED
      BY <1>1, <3>1, <3>2, <3>3
  <2> QED
    BY <1>1, <1>2, <2>3, SeedIs, ReloadUpdates DEF KeptInv
<1> QED
  BY <1>7, <1>8, <1>9 DEF KeptInv

LEMMA ReloadKept ==
    ASSUME Typed, QueueInv, BuiltInv, KeptInv, Typed', BuiltInv',
           \/ BeginReload \/ Proceed
           \/ \E ok \in BOOLEAN : ReadReload(ok) \/ BackupReload(ok) \/ Preserve(ok) \/ WriteReload(ok)
    PROVE  KeptInv'
<1>1. AtHead => Live /\ Reloading
  BY SettingsTurn DEF AtHead
<1>2. ASSUME AtHead, Stay, disk' = disk, AtReload, loaded' = loaded PROVE KeptInv'
  <2>1. /\ UNCHANGED <<phase, settings, package, cache, jobs, pinned, acked, held, store>>
        /\ Head(store) = "settings"
    BY <1>2 DEF Stay, AtHead
  <2> QED
    BY <1>1, <1>2, <2>1, StayKept
<1>3. AtHead /\ step # "idle" => AtReload
  BY <1>1 DEF AtReload
<1>4. CASE BeginReload
  <2>1. /\ Live /\ Reloading /\ ~busy /\ store' = Append(store, "settings")
        /\ UNCHANGED <<phase, disk, settings, package, cache, jobs, pinned, step, loaded, next, acked, held>>
    BY <1>4 DEF BeginReload, Live, history
  <2>2. step # "idle" => Head(store') = "pin" /\ Head(store) = "pin"
    <3>1. store' = IF pinned = 0 THEN <<"settings">> ELSE <<"pin", "settings">>
      BY <2>1, TurnSettings
    <3>2. step # "idle" => store # <<>> /\ Head(store) = "pin"
      BY <2>1, StepTurn
    <3>3. step # "idle" => pinned # 0
      BY <3>2, PinTurn
    <3> QED
      BY <3>1, <3>2, <3>3, TurnsTaken
  <2>3. ~AtReload'
    BY <2>1, <2>2 DEF AtReload, AtHead
  <2> QED
    BY <2>1, <2>2, <2>3, StayKept
<1>5. ASSUME NEW ok \in BOOLEAN, ReadReload(ok) PROVE KeptInv'
  <2>1. AtHead /\ disk' = disk
    BY <1>5 DEF ReadReload
  <2>2. CASE ok /\ Readable
    <3>1. /\ UNCHANGED <<phase, settings, package, cache, jobs, pinned, acked, held>> /\ loaded' = disk
          /\ step' \in {"backup", "staged"}
      BY <1>5, <2>2 DEF ReadReload, Stay
    <3> QED
      BY <1>1, <2>1, <2>2, <3>1, StayKept
  <2>3. CASE ~(ok /\ Readable)
    <3>1. EndReload(Seed(package)) /\ AsItWas
      BY <1>5, <2>3 DEF ReadReload, Unchanged
    <3> QED
      BY <2>1, <3>1, SeedIs, UnadoptedKept
  <2> QED
    BY <2>2, <2>3
<1>6. ASSUME NEW ok \in BOOLEAN, BackupReload(ok) PROVE KeptInv'
  <2>1. AtHead /\ AtReload /\ disk' = disk
    BY <1>3, <1>6 DEF BackupReload
  <2>2. CASE ok
    BY <1>2, <1>6, <2>1, <2>2 DEF BackupReload
  <2>3. CASE ~ok
    <3>1. EndReload(Seed(package)) /\ AsItWas
      BY <1>6, <2>3 DEF BackupReload, NotBackedUp, Unchanged
    <3> QED
      BY <2>1, <3>1, SeedIs, UnadoptedKept
  <2> QED
    BY <2>2, <2>3
<1>7. CASE Proceed
  <2>1. AtHead /\ step = "staged" /\ disk' = disk /\ AtReload
    BY <1>3, <1>7 DEF Proceed
  <2>2. CASE next = loaded.pkg
    <3>1. Adopt
      BY <1>7, <2>2 DEF Proceed
    <3> QED
      BY <2>1, <3>1, AdoptKept
  <2>3. CASE next # loaded.pkg
    BY <1>2, <1>7, <2>1, <2>3 DEF Proceed
  <2> QED
    BY <2>2, <2>3
<1>8. ASSUME NEW ok \in BOOLEAN, Preserve(ok) PROVE KeptInv'
  <2>1. AtHead /\ AtReload /\ disk' = disk
    BY <1>3, <1>8 DEF Preserve
  <2>2. CASE ok
    BY <1>2, <1>8, <2>1, <2>2 DEF Preserve
  <2>3. CASE ~ok
    BY <1>8, <2>1, <2>3, UnadoptedKept DEF Preserve, Thrown
  <2> QED
    BY <2>2, <2>3
<1>9. ASSUME NEW ok \in BOOLEAN, WriteReload(ok) PROVE KeptInv'
  <2>1. AtHead /\ step = "write"
    BY <1>9 DEF WriteReload
  <2>2. CASE ok
    <3>1. Written(next) /\ Adopt /\ next \in Whole(clock)
      BY <1>9, <2>1, <2>2, NextTyped DEF WriteReload
    <3>2. disk'.pkg = next
      BY <3>1, WrittenTyped
    <3> QED
      BY <2>1, <3>1, <3>2, AdoptKept
  <2>3. CASE ~ok
    BY <1>9, <2>1, <2>3, UnadoptedKept DEF WriteReload, Thrown
  <2> QED
    BY <2>2, <2>3
<1> QED
  BY <1>4, <1>5, <1>6, <1>7, <1>8, <1>9

\* What joins the jobs: a new value is unlike all that are there.
LEMMA AppendedUpdates ==
    ASSUME Typed, QueueInv, BuiltInv, UpdatesInv, NEW job \in Jobs(clock + 1), jobs' = Append(jobs, job),
           UNCHANGED <<phase, disk, package, busy, snapshot, store, step, loaded, acked>>,
           \A f \in Fields : settings'[f] \in {settings[f], clock + 1},
           job.kind = "update" => /\ job.field \in Fields /\ job.value = clock + 1
                                  /\ settings' = settings
    PROVE  /\ UpdatesInv' /\ (Running' <=> Running) /\ (AtReload' => AtReload)
           /\ Running => Head(jobs') = Head(jobs)
<1>1. /\ clock \in Nat /\ disk.pkg \in Package(clock) /\ package \in Whole(clock)
      /\ settings \in [Fields -> 0 .. clock] /\ acked \in [Fields -> 0 .. clock]
  BY DEF Typed, FilesTyped, MemoryTyped, HistoryTyped, Files
<1>2. /\ busy => jobs # <<>>
      /\ jobs # <<>> => Head(jobs') = Head(jobs)
      /\ jobs' # <<>>
      /\ Len(jobs) \in Nat /\ (Len(jobs) = 0 => jobs = <<>>)
  BY Appended DEF QueueInv, Turns
<1>3. (Running' <=> Running) /\ (Running => Head(jobs') = Head(jobs))
  BY <1>2 DEF Running, Saving
<1>4. AtReload' => AtReload
  <2>1. AtReload' => /\ Live /\ step # "idle" /\ store # <<>> /\ Head(store) = "settings"
                     /\ Head(jobs').kind = "reload"
    BY DEF AtReload, AtHead, Reloading, Live
  <2>2. AtReload' => jobs # <<>>
    BY <2>1, SettingsTurn
  <2> QED
    BY <1>2, <2>1, <2>2 DEF AtReload, AtHead, Reloading
<1>5. ASSUME NEW i \in DOMAIN jobs, jobs[i].kind = "update"
      PROVE  IF i = 1 /\ busy' THEN jobs[i].value # package'.vals[jobs[i].field]
                                    /\ jobs[i].value > acked'[jobs[i].field]
             ELSE Unused(jobs[i].field, jobs[i].value)'
  <2>1. jobs[i].field \in Fields /\ jobs[i].value \in 0 .. clock
    BY <1>5, JobsNow
  <2>2. CASE i = 1 /\ busy
    <3>1. jobs[i].value # package.vals[jobs[i].field] /\ jobs[i].value > acked[jobs[i].field]
      BY <1>5, <2>2 DEF UpdatesInv
    <3> QED
      BY <2>2, <3>1
  <2>3. CASE ~(i = 1 /\ busy)
    <3>1. Unused(jobs[i].field, jobs[i].value)
      BY <1>5, <2>3 DEF UpdatesInv
    <3>2. settings'[jobs[i].field] \in {settings[jobs[i].field], clock + 1}
      BY <2>1
    <3>3. jobs[i].value # settings[jobs[i].field]
      BY <3>1 DEF Unused
    <3>4. jobs[i].value # settings'[jobs[i].field]
      BY <1>1, <2>1, <3>2, <3>3
    <3>5. Unused(jobs[i].field, jobs[i].value)'
      <4> DEFINE f == jobs[i].field
                 v == jobs[i].value
      <4>1. /\ v > acked[f] /\ v # package.vals[f] /\ v # settings'[f]
            /\ f \in DOMAIN disk.pkg.vals => v # disk.pkg.vals[f]
            /\ AtReload /\ f \in DOMAIN loaded.pkg.vals => v # loaded.pkg.vals[f]
            /\ Running => v # snapshot.vals[f]
        BY <3>1, <3>4 DEF Unused
      <4>2. i \in DOMAIN jobs' /\ jobs'[i] = jobs[i]
        BY Appended
      <4> QED
        BY <1>3, <1>4, <4>1, <4>2 DEF Unused
    <3> QED
      BY <2>3, <3>5
  <2> QED
    BY <2>2, <2>3
<1>6. ASSUME job.kind = "update" PROVE Unused(job.field, job.value)'
  <2>1. job.field \in Fields /\ job.value = clock + 1 /\ settings' = settings
    BY <1>6
  <2>2. \A n \in 0 .. clock : clock + 1 > n /\ clock + 1 # n
    BY <1>1
  <2>3. /\ acked[job.field] \in 0 .. clock /\ settings[job.field] \in 0 .. clock
        /\ package.vals[job.field] \in 0 .. clock
    BY <1>1, <2>1, WholeFields
  <2>4. job.field \in DOMAIN disk.pkg.vals => disk.pkg.vals[job.field] \in 0 .. clock
    BY <1>1, PartFields
  <2>5. AtReload /\ job.field \in DOMAIN loaded.pkg.vals => loaded.pkg.vals[job.field] \in 0 .. clock
    BY <1>1, PartFields DEF BuiltInv, LoadedInv, Files
  <2>6. Running => snapshot.vals[job.field] \in 0 .. clock
    BY <1>1, <2>1, WholeFields DEF BuiltInv, SaveInv
  <2> QED
    BY <1>3, <1>4, <2>1, <2>2, <2>3, <2>4, <2>5, <2>6 DEF Unused
<1>7. ASSUME NEW i \in DOMAIN jobs', jobs'[i].kind = "update"
      PROVE  IF i = 1 /\ busy' THEN jobs'[i].value # package'.vals[jobs'[i].field]
                                    /\ jobs'[i].value > acked'[jobs'[i].field]
             ELSE Unused(jobs[i].field, jobs[i].value)'
  <2>1. CASE i \in DOMAIN jobs /\ jobs'[i] = jobs[i]
    BY <1>5, <1>7, <2>1
  <2>2. CASE i = Len(jobs) + 1 /\ jobs'[i] = job
    <3>1. ~(i = 1 /\ busy')
      BY <1>2, <2>2
    <3>2. Unused(jobs[i].field, jobs[i].value)'
      BY <1>6, <1>7, <2>2 DEF Unused
    <3> QED
      BY <3>1, <3>2
  <2> QED
    BY <2>1, <2>2, Appended
<1>8. ASSUME NEW i \in DOMAIN jobs', NEW j \in DOMAIN jobs', i < j,
             jobs'[i].kind = "update", jobs'[j].kind = "update"
      PROVE  jobs'[i].value < jobs'[j].value
  <2>1. CASE i \in DOMAIN jobs /\ jobs'[i] = jobs[i] /\ j \in DOMAIN jobs /\ jobs'[j] = jobs[j]
    BY <1>8, <2>1 DEF UpdatesInv
  <2>2. CASE i \in DOMAIN jobs /\ jobs'[i] = jobs[i] /\ jobs'[j] = job
    <3>1. jobs[i].value \in 0 .. clock
      BY <2>2, JobsNow
    <3> QED
      BY <1>1, <1>8, <2>2, <3>1
  <2>3. CASE i = Len(jobs) + 1
    <3>1. j \in DOMAIN jobs \/ j = Len(jobs) + 1
      BY Appended
    <3>2. \A k \in DOMAIN jobs : k \in Nat /\ k <= Len(jobs)
      BY Appended
    <3> QED
      BY <1>2, <1>8, <2>3, <3>1, <3>2
  <2> QED
    BY <2>1, <2>2, <2>3, Appended
<1>9. UpdatesInv'
  BY <1>7, <1>8 DEF UpdatesInv
<1> QED
  BY <1>3, <1>4, <1>9

LEMMA AppendedKept ==
    ASSUME Typed, QueueInv, BuiltInv, KeptInv, Typed', BuiltInv', phase = "running",
           NEW job \in Jobs(clock + 1), jobs' = Append(jobs, job),
           UNCHANGED <<phase, disk, package, cache, busy, snapshot, pinned, store, step, loaded, next,
                       acked, held>>,
           \A f \in Fields : settings'[f] \in {settings[f], clock + 1},
           job.kind = "update" => /\ job.field \in Fields /\ job.value = clock + 1
                                  /\ settings' = settings
    PROVE  KeptInv'
<1>1. UpdatesInv' /\ (Running' <=> Running) /\ (AtReload' => AtReload)
      /\ (Running => Head(jobs') = Head(jobs))
  BY AppendedUpdates DEF KeptInv
<1>2. Live /\ Live'
  BY DEF Live
<1>3. /\ clock \in Nat /\ acked \in [Fields -> 0 .. clock] /\ settings \in [Fields -> 0 .. clock]
  BY DEF Typed, MemoryTyped, HistoryTyped
<1>4. /\ package.pin.at >= held /\ cache.at >= held
      /\ \A f \in Fields : package.vals[f] >= acked[f] /\ settings[f] >= acked[f]
      /\ Running => \A f \in Fields : snapshot.vals[f] >= acked[f]
      /\ Running /\ Head(jobs).kind = "update" => settings[Head(jobs).field] >= Head(jobs).value
      /\ pinned # 0 => pinned >= held
      /\ step = "write" /\ Head(store) = "pin" => next.pin.at >= held
  BY <1>2, MemoryNow DEF KeptInv
<1>5. \A f \in Fields : settings'[f] >= settings[f] /\ settings[f] \in Nat /\ settings'[f] \in Nat
                        /\ acked[f] \in Nat
  <2> SUFFICES ASSUME NEW f \in Fields
               PROVE  /\ settings'[f] >= settings[f] /\ settings[f] \in Nat /\ settings'[f] \in Nat
                      /\ acked[f] \in Nat
    OBVIOUS
  <2>1. settings[f] \in 0 .. clock /\ acked[f] \in 0 .. clock
    BY <1>3
  <2>2. settings'[f] = settings[f] \/ settings'[f] = clock + 1
    OBVIOUS
  <2> QED
    BY ONLY <1>3, <2>1, <2>2
<1>6. \A f \in Fields : settings'[f] >= acked[f]
  BY <1>4, <1>5
<1>7. Running' /\ Head(jobs').kind = "update" => settings'[Head(jobs').field] >= Head(jobs').value
  <2>1. Running => jobs # <<>>
    BY DEF Running, Saving
  <2>2. Running /\ Head(jobs).kind = "update" => Head(jobs).field \in Fields /\ Head(jobs).value \in 0 .. clock
    BY <2>1, JobsNow
  <2> QED
    BY <1>1, <1>3, <1>4, <1>5, <2>2
<1>8. MemoryKeeps'
  BY <1>1, <1>4, <1>6, <1>7, MemoryNext
<1>9. FileKeeps'
  <2>1. \A f \in Fields : acked'[f] <= acked[f]
    BY <1>3
  <2> QED
    BY <1>1, <1>2, <2>1, FileStays DEF KeptInv
<1> QED
  BY <1>1, <1>8, <1>9 DEF KeptInv

LEMMA AskKept ==
    ASSUME Typed, QueueInv, BuiltInv, KeptInv, Typed', BuiltInv', Ask PROVE KeptInv'
<1>1. /\ phase = "running" /\ clock \in Nat /\ settings \in [Fields -> 0 .. clock]
      /\ UNCHANGED <<phase, disk, package, cache, busy, snapshot, pinned, store, step, loaded, next,
                     acked, held>>
  BY DEF Ask, Edit, Update, Pin, Reload, Request, Typed, MemoryTyped, HistoryTyped, history
<1>2. ASSUME NEW f \in Fields, Edit(f) PROVE KeptInv'
  <2>1. /\ jobs' = Append(jobs, Save("save")) /\ Save("save") \in Jobs(clock + 1) /\ Save("save").kind = "save"
        /\ settings' = [settings EXCEPT ![f] = clock + 1]
    BY <1>1, <1>2, SaveTyped DEF Edit
  <2>2. \A g \in Fields : settings'[g] \in {settings[g], clock + 1}
    BY <1>1, <2>1
  <2> QED
    BY <1>1, <2>1, <2>2, AppendedKept
<1>3. ASSUME NEW f \in Fields, Update(f) PROVE KeptInv'
  <2> DEFINE job == Job("update", f, clock + 1)
  <2>1. /\ jobs' = Append(jobs, job) /\ settings' = settings
        /\ job \in Jobs(clock + 1) /\ job.kind = "update" /\ job.field = f /\ job.value = clock + 1
    BY <1>1, <1>3 DEF Update, Job, Jobs
  <2> HIDE DEF job
  <2> QED
    BY <1>1, <2>1, AppendedKept
<1>4. CASE Reload
  <2>1. /\ jobs' = Append(jobs, Save("reload")) /\ settings' = settings
        /\ Save("reload") \in Jobs(clock + 1) /\ Save("reload").kind = "reload"
    BY <1>1, <1>4, SaveTyped DEF Reload
  <2> QED
    BY <1>1, <2>1, AppendedKept
<1>5. ASSUME NEW on \in BOOLEAN, Pin(on) PROVE KeptInv'
  <2>1. UNCHANGED <<clock, settings, jobs>> /\ Live
    BY <1>1, <1>5 DEF Pin, Live
  <2>2. AtReload' => AtReload
    BY <1>1, <2>1 DEF AtReload, AtHead, Reloading, Live
  <2>3. /\ package.pin.at >= held /\ cache.at >= held
        /\ pinned # 0 => pinned >= held
        /\ step = "write" /\ Head(store) = "pin" => next.pin.at >= held
    BY <2>1, MemoryNow DEF KeptInv
  <2>4. package \in Whole(clock)
    BY DEF Typed, MemoryTyped
  <2> QED
    BY <1>1, <2>1, <2>2, <2>3, <2>4, PinKept
<1> QED
  BY <1>2, <1>3, <1>4, <1>5 DEF Ask

\* What Sync leaves is newer than all that was saved, and between two sessions
\* that is lost.
LEMMA SyncKept ==
    ASSUME Typed, QueueInv, BuiltInv, KeptInv, Typed', Sync PROVE KeptInv'
<1>1. /\ UNCHANGED <<phase, settings, package, cache, paused, jobs, busy, snapshot, previous, pins, pinned,
                     store, step, loaded, next>>
      /\ clock' = clock + 1 /\ clock \in Nat
  BY DEF Sync, memory, queues, Typed, HistoryTyped
<1>2. disk'.pkg = Defaults \/ \A f \in DOMAIN disk'.pkg.vals : f \in Fields /\ disk'.pkg.vals[f] = clock + 1
  <2>1. CASE \E p \in Foreign : disk' = [form |-> "package", id |-> clock', pkg |-> p]
    <3>1. PICK p \in Foreign : disk'.pkg = p
      BY <2>1
    <3>2. p.vals = [f \in Fields |-> clock + 1] \/ \E g \in Fields : p.vals = [f \in Fields \ {g} |-> clock + 1]
      <4>1. p.vals \in {[f \in Fields |-> clock + 1]} \cup {[f \in Fields \ {g} |-> clock + 1] : g \in Fields}
        BY DEF Foreign
      <4> QED
        BY <4>1
    <3> QED
      BY <3>1, <3>2
  <2>2. CASE \E form \in {"other", "malformed", "missing"} :
                disk' = [form |-> form, id |-> clock', pkg |-> Defaults]
    BY <2>2
  <2> QED
    BY <2>1, <2>2 DEF Sync
<1>3. Defaults.vals \in [Fields -> 0 .. clock] /\ \A f \in Fields : Defaults.vals[f] = 0
  BY <1>1, DefaultsAreWhole
<1>4. acked \in [Fields -> 0 .. clock]
  BY DEF Typed, HistoryTyped
<1>5. CASE Live
  <2>1. phase \notin {"off", "reading"} /\ Live'
    BY <1>1, <1>5 DEF Live
  <2>2. acked' = acked /\ held' = held
    BY <2>1 DEF Sync
  <2>3. (Running' <=> Running) /\ (AtReload' <=> AtReload)
    BY <1>1 DEF Running, Saving, AtReload, AtHead, Reloading, Live
  <2>4. MemoryKeeps'
    BY <1>1, <1>5, <2>2, <2>3 DEF KeptInv, MemoryKeeps, Keeps, Low
  <2>5. disk'.form = "package" => \A f \in DOMAIN disk'.pkg.vals : disk'.pkg.vals[f] >= acked'[f]
    <3>1. CASE disk'.pkg # Defaults
      <4> SUFFICES ASSUME NEW f \in DOMAIN disk'.pkg.vals PROVE disk'.pkg.vals[f] >= acked'[f]
        OBVIOUS
      <4>1. f \in Fields /\ disk'.pkg.vals[f] = clock + 1
        BY <1>2, <3>1
      <4>2. acked'[f] \in 0 .. clock
        BY <1>4, <2>2, <4>1
      <4> QED
        BY <1>1, <4>1, <4>2
    <3>2. disk'.form = "package" => disk'.pkg # Defaults \/ Fields = {}
      <4>1. CASE \E p \in Foreign : disk' = [form |-> "package", id |-> clock', pkg |-> p]
        <5>1. PICK p \in Foreign : disk'.pkg = p
          BY <4>1
        <5>2. p.vals \in {[f \in Fields |-> clock + 1]} \cup {[f \in Fields \ {g} |-> clock + 1] : g \in Fields}
          BY DEF Foreign
        <5>3. CASE p.vals = [f \in Fields |-> clock + 1]
          <6>1. \A f \in Fields : p.vals[f] = clock + 1
            BY <5>3
          <6>2. clock + 1 # 0
            BY <1>1
          <6> QED
            BY <1>3, <5>1, <6>1, <6>2
        <5>4. CASE \E g \in Fields : p.vals = [f \in Fields \ {g} |-> clock + 1]
          <6>1. PICK g \in Fields : p.vals = [f \in Fields \ {g} |-> clock + 1]
            BY <5>4
          <6>2. DOMAIN p.vals = Fields \ {g} /\ DOMAIN Defaults.vals = Fields
            BY <1>3, <6>1
          <6> QED
            BY <5>1, <6>2
        <5> QED
          BY <5>2, <5>3, <5>4
      <4>2. CASE disk'.form \in {"other", "malformed", "missing"}
        BY <4>2
      <4> QED
        BY <4>1, <4>2 DEF Sync
    <3>3. CASE disk'.pkg = Defaults /\ Fields = {}
      BY <1>3, <3>3
    <3> QED
      BY <3>1, <3>2, <3>3
  <2>6. FileKeeps'
    <3>1. \A f \in Fields : acked'[f] <= acked[f]
      BY <1>1, <1>4, <2>2
    <3> QED
      BY <1>1, <1>5, <2>1, <2>3, <2>5, <3>1, FileStays DEF KeptInv
  <2>7. UpdatesInv'
    <3>1. acked' \in [Fields -> Nat] /\ \A f \in Fields : acked'[f] <= acked[f]
      BY <1>1, <1>4, <2>2
    <3>2. ASSUME NEW j \in Jobs(clock), j.field \in Fields, Unused(j.field, j.value)
          PROVE  /\ j.field \in DOMAIN disk'.pkg.vals => j.value # disk'.pkg.vals[j.field]
                 /\ AtReload' /\ j.field \in DOMAIN loaded'.pkg.vals => j.value # loaded'.pkg.vals[j.field]
      <4>1. /\ j.value > acked[j.field]
            /\ AtReload /\ j.field \in DOMAIN loaded.pkg.vals => j.value # loaded.pkg.vals[j.field]
        BY <3>2 DEF Unused
      <4>2. j.value \in 0 .. clock /\ acked[j.field] \in 0 .. clock
        BY <1>4, <3>2 DEF Jobs
      <4>3. j.value # 0 /\ j.value # clock + 1
        BY <1>1, <4>1, <4>2
      <4> QED
        BY <1>1, <1>2, <1>3, <2>3, <3>2, <4>1, <4>3
    <3> QED
      BY <1>1, <2>3, <3>1, <3>2, UpdatesStay DEF KeptInv
  <2> QED
    BY <2>4, <2>6, <2>7 DEF KeptInv
<1>6. CASE ~Live
  <2>1. phase \in {"off", "reading"} /\ ~Live' /\ jobs' = <<>>
    BY <1>1, <1>6, NoTurns DEF Live, Typed, QueuesTyped
  <2>2. acked' = Defaults.vals /\ held' = 0
    BY <2>1 DEF Sync
  <2>3. clock' \in Nat /\ disk'.pkg \in Package(clock')
    BY DEF Typed, FilesTyped, HistoryTyped, Files
  <2>4. /\ Merge(disk'.pkg, Defaults).pin.at >= held'
        /\ \A f \in Fields : Merge(disk'.pkg, Defaults).vals[f] >= acked'[f]
    BY <2>2, <2>3, ResetKeeps
  <2>5. AtStartup' => /\ loaded' \in Files(clock')
                      /\ Merge(loaded'.pkg, Defaults).pin.at >= held'
                      /\ \A f \in Fields : Merge(loaded'.pkg, Defaults).vals[f] >= acked'[f]
    <3>1. SUFFICES ASSUME AtStartup' PROVE /\ loaded' \in Files(clock')
                      /\ Merge(loaded'.pkg, Defaults).pin.at >= held'
                      /\ \A f \in Fields : Merge(loaded'.pkg, Defaults).vals[f] >= acked'[f]
      OBVIOUS
    <3>2. AtStartup
      BY <1>1, <3>1 DEF AtStartup
    <3>3. loaded' \in Files(clock')
      BY <1>1, <3>2, ClockTicks DEF BuiltInv, LoadedInv
    <3>4. loaded'.pkg \in Package(clock')
      BY <3>3 DEF Files
    <3> QED
      BY <2>2, <2>3, <3>3, <3>4, ResetKeeps
  <2> QED
    BY <2>1, <2>4, <2>5, QuietKept
<1> QED
  BY <1>5, <1>6

LEMMA StartKept ==
    ASSUME Typed, QueueInv, BuiltInv, KeptInv, AgreeInv, Typed', Start PROVE KeptInv'
<1>1. phase = "off" /\ phase' = "reading" /\ UNCHANGED <<disk, jobs, step, acked, held, clock>>
  BY DEF Start, memory, queues, history
<1>2. ~Live /\ ~Live' /\ step = "idle"
  BY <1>1 DEF Live, QueueInv, PhaseInv
<1>3. ~AtStartup' /\ jobs' = <<>>
  BY <1>1, <1>2, NoTurns DEF AtStartup
<1>4. /\ Merge(disk.pkg, Defaults).pin.at >= held
      /\ \A f \in Fields : Merge(disk.pkg, Defaults).vals[f] >= acked[f]
  BY <1>2, FileIsKept
<1> QED
  BY <1>1, <1>2, <1>3, <1>4, QuietKept

LEMMA KeptStep == Typed /\ QueueInv /\ BuiltInv /\ AgreeInv /\ KeptInv /\ [Next]_vars => KeptInv'
<1> SUFFICES ASSUME Typed, QueueInv, BuiltInv, AgreeInv, KeptInv, [Next]_vars PROVE KeptInv'
  OBVIOUS
<1>1. Typed' /\ BuiltInv'
  BY TypedStep, BuiltStep
<1>2. CASE Run
  <2>1. ASSUME NEW ok \in BOOLEAN, ReadStartup(ok) \/ BackupStartup(ok) \/ WriteStartup(ok) PROVE KeptInv'
    BY <1>1, <2>1, StartupKept
  <2>2. CASE BeginSave
    BY <1>1, <2>2, BeginSaveKept
  <2>3. CASE StoreSave
    BY <1>1, <2>3, StoreSaveKept
  <2>4. ASSUME NEW ok \in BOOLEAN, WriteSave(ok) PROVE KeptInv'
    BY <1>1, <2>4, WriteSaveKept
  <2>5. CASE BeginPin \/ StorePin \/ \E ok \in BOOLEAN : WritePin(ok)
    BY <1>1, <2>5, PinStepKept
  <2>6. CASE \/ BeginReload \/ Proceed
             \/ \E ok \in BOOLEAN : ReadReload(ok) \/ BackupReload(ok) \/ Preserve(ok) \/ WriteReload(ok)
    BY <1>1, <2>6, ReloadKept
  <2> QED
    BY <1>2, <2>1, <2>2, <2>3, <2>4, <2>5, <2>6 DEF Run
<1>3. CASE Start
  BY <1>1, <1>3, StartKept
<1>4. CASE Ask
  BY <1>1, <1>4, AskKept
<1>5. CASE Sync
  BY <1>1, <1>5, SyncKept
<1>6. CASE Stop
  BY <1>1, <1>6, StopKept
<1>7. CASE UNCHANGED vars
  BY <1>7 DEF vars, memory, queues, history, KeptInv, MemoryKeeps, FileKeeps, UpdatesInv, Unused, Keeps, Low,
     Live, Running, Saving, AtReload, AtHead, Reloading, AtStartup
<1> QED
  BY <1>2, <1>3, <1>4, <1>5, <1>6, <1>7 DEF Next

LEMMA KeptInit == Init => KeptInv
<1> SUFFICES ASSUME Init PROVE KeptInv
  OBVIOUS
<1>1. ~Live /\ ~AtReload /\ ~AtStartup /\ jobs = <<>> /\ disk.pkg = Defaults /\ acked = Defaults.vals
      /\ held = 0 /\ disk.form # "package"
  BY DEF Init, Live, AtReload, AtStartup
<1>2. 0 \in Nat /\ Defaults \in Package(0) /\ Defaults \in Whole(0)
  BY DefaultsAreWhole, WholeIsPackage
<1>3. Merge(Defaults, Defaults).pin.at >= 0 /\ \A f \in Fields : Merge(Defaults, Defaults).vals[f] >= Defaults.vals[f]
  BY <1>2, ResetKeeps
<1>4. DOMAIN Merge(Defaults, Defaults).vals = Fields
  BY <1>2, MergeFields, WholeFields
<1> QED
  BY <1>1, <1>3, <1>4 DEF KeptInv, MemoryKeeps, FileKeeps, UpdatesInv, Keeps, Low

LEMMA AgreeInit == Init => AgreeInv
  BY DEF Init, AgreeInv, SettingsAgree, FileAgrees, Live, AtStartup

LEMMA UnreadInit == Init => UnreadInv
  BY DEF Init, UnreadInv

----------------------------------------------------------------------------
(* The theorems *)

\* Memory, queues and files hold what their types say, and no value in them, in
\* data.json or in a backup is newer than the last edit, pin change or Sync.
THEOREM SettingsTypes == Spec => []Typed
<1>1. Init => Typed /\ QueueInv /\ BuiltInv
  BY TypedInit, QueueInit, BuiltInit
<1>2. (Typed /\ QueueInv /\ BuiltInv) /\ [Next]_vars => (Typed /\ QueueInv /\ BuiltInv)'
  BY TypedStep, QueueStep, BuiltStep
<1> QED
  BY <1>1, <1>2, PTL DEF Spec

\* The inductive invariant: the three queues know of each other's turns, each position of
\* a save, a pin change or a reload has built its package from what is still there, what
\* was saved is kept on the way, and settings, package and file agree where nothing waits.
THEOREM SettingsInvariant == Spec => [](Typed /\ QueueInv /\ BuiltInv /\ KeptInv /\ AgreeInv /\ UnreadInv)
<1> DEFINE I == Typed /\ QueueInv /\ BuiltInv /\ KeptInv /\ AgreeInv /\ UnreadInv
<1>1. Init => I
  BY TypedInit, QueueInit, BuiltInit, KeptInit, AgreeInit, UnreadInit
<1>2. I /\ [Next]_vars => I'
  <2> SUFFICES ASSUME I, [Next]_vars PROVE I'
    OBVIOUS
  <2>1. Typed' /\ QueueInv' /\ BuiltInv'
    BY TypedStep, QueueStep, BuiltStep
  <2>2. KeptInv'
    BY KeptStep
  <2>3. AgreeInv' /\ UnreadInv'
    BY AgreeStep, UnreadStep
  <2> QED
    BY <2>1, <2>2, <2>3
<1> HIDE DEF I
<1>3. Spec => []I
  BY <1>1, <1>2, PTL DEF Spec
<1> QED
  BY <1>3 DEF I

\* A pin or unpin that was saved (PinnedCache.mutatePackage) is never undone by a save
\* of settings built before it, a reload of data.json or the restore after a failed
\* update, whatever fails and however often Sync replaces the file.
THEOREM PinsAreKept == Spec => []PinsKept
<1>1. (Typed /\ QueueInv /\ BuiltInv /\ KeptInv /\ AgreeInv /\ UnreadInv) => PinsKept
  BY DEF PinsKept, KeptInv, MemoryKeeps, Keeps, Live
<1> QED
  BY <1>1, SettingsInvariant, PTL

\* An update of a setting that was saved (updateSettings) gives way only to a later
\* update or edit of it, or to what a reload or a startup finds in data.json.
THEOREM UpdatesAreKept == Spec => []UpdatesSurvive
<1>1. (Typed /\ QueueInv /\ BuiltInv /\ KeptInv /\ AgreeInv /\ UnreadInv) => UpdatesSurvive
  <2> SUFFICES ASSUME Typed, BuiltInv, KeptInv, phase = "running"
               PROVE  \A f \in Fields : package.vals[f] >= acked[f]
    BY DEF UpdatesSurvive
  <2>1. Live
    BY DEF Live
  <2> QED
    BY <2>1, MemoryNow DEF KeptInv
<1> QED
  BY <1>1, SettingsInvariant, PTL

\* Once the queues are empty the settings in use are those of the committed package,
\* unless the last save of a direct change failed, and data.json holds that package,
\* unless Sync replaced it or the startup could not read it.
THEOREM QuietMeansAgreed == Spec => []AgreeAtRest
<1>1. (Typed /\ QueueInv /\ BuiltInv /\ KeptInv /\ AgreeInv /\ UnreadInv) => AgreeAtRest
  <2> SUFFICES ASSUME QueueInv, AgreeInv, phase = "running", jobs = <<>>
               PROVE  (unsaved \/ settings = package.vals) /\ (~foreign => Merge(disk.pkg, Defaults) = package)
    BY DEF AgreeAtRest
  <2>1. Live /\ ~Running /\ ~ToSave
    BY DEF Live, Running, Saving, ToSave
  <2> QED
    BY <2>1 DEF AgreeInv, SettingsAgree, FileAgrees
<1> QED
  BY <1>1, SettingsInvariant, PTL

\* A step that writes data.json while it holds something the plugin could not read, or
\* whose taxonomy it would damage, finds that content in a backup.
THEOREM UnreadIsBackedUp == Spec => UnreadIsKept
<1>1. ASSUME Typed /\ QueueInv /\ BuiltInv /\ KeptInv /\ AgreeInv /\ UnreadInv, [Next]_vars
      PROVE  [disk' # disk /\ disk'.id = 0 /\ unread => disk \in backups]_vars
  <2> SUFFICES ASSUME disk' # disk, disk'.id = 0, unread PROVE disk \in backups
    OBVIOUS
  <2>1. step \in {"write", "normalise"}
    BY <1>1, OnlyWrites
  <2> QED
    BY <1>1, <2>1 DEF UnreadInv
<1>2. (Typed /\ QueueInv /\ BuiltInv /\ KeptInv /\ AgreeInv /\ UnreadInv) /\ [Next]_vars
      => [disk' # disk /\ disk'.id = 0 /\ unread => disk \in backups]_vars
  BY <1>1
<1> QED
  BY <1>2, SettingsInvariant, PTL DEF Spec, UnreadIsKept
=============================================================================
