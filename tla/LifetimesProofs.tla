--------------------------- MODULE LifetimesProofs ---------------------------
(***************************************************************************)
(* Proofs about how long things last: windows that come and go behind      *)
(* recycled handles, as MCWindows explores them (Drag rests while they     *)
(* move), and the daemon's own process, whose end the event loop and the   *)
(* deadline thread of QuitFallback race for.  All of it holds for any      *)
(* number of handles, steps and events in flight.                          *)
(***************************************************************************)
EXTENDS MCWindows, QuitFallback, SequenceTheorems, TLAPS

(***************************************************************************)
(* Windows behind recycled handles.                                        *)
(***************************************************************************)
Kinds == {"created", "destroyed", "hidden", "changed"}
WindowType == [gen : Nat, shape : H!AnyShape, shown : BOOLEAN, prop : Nat, mark : Nat]
RecordType == [in : BOOLEAN, owner : Nat, token : Nat, at : Nat, hid : SUBSET Nat, wid : SUBSET Nat,
               ign : Nat, small : BOOLEAN, known : BOOLEAN]
EventType == [kind : Kinds, handle : Handles, at : Nat]

LifeTypes ==
    /\ win \in [Handles -> WindowType] /\ rec \in [Handles -> RecordType]
    /\ events \in Seq(EventType)
    /\ slots \subseteq [donor : Handles, at : Nat]
    /\ slept \in [suspend : Nat, resume : Nat]
    /\ toggling \subseteq [handle : Handles, token : Nat]
    /\ steps \in Nat /\ minted \in Nat /\ kept \subseteq Nat

\* An event of the handle is in flight; and what hid or ended a window of the
\* handle that is on the screen is followed by the word that it is there.
Coming(q, kind, h) == \E i \in 1..Len(q) : q[i].handle = h /\ q[i].kind = kind
Answered(q, h) ==
    \A i \in 1..Len(q) : q[i].handle = h /\ q[i].kind \in {"hidden", "destroyed"} =>
        \E j \in (i + 1)..Len(q) : q[j].handle = h /\ q[j].kind = "created"

\* Tokens and lifetimes only grow; a recorded lifetime is the one on the handle
\* exactly if its token is; an ignore names a lifetime that is kept out.
Stamps(w, r, s, m, k) ==
    /\ w.gen <= s /\ r.owner <= s
    /\ w.prop <= m /\ w.mark <= m /\ r.token <= m /\ r.ign <= m
    /\ w.gen = 0 => w.prop = 0 /\ w.mark = 0
    /\ ~r.in => r.token = 0 /\ r.at = 0
    /\ r.in /\ r.token # 0 /\ w.gen # 0 => (w.prop = r.token <=> r.owner = w.gen)
    /\ r.ign # 0 /\ w.gen # 0 /\ w.mark = r.ign => w.gen \in k

\* A recorded member that is gone or hidden will be heard of.
Departs(w, r, q, h) ==
    r.in /\ r.token # 0 =>
        /\ w.gen = 0 \/ r.owner # w.gen => Coming(q, "destroyed", h)
        /\ w.gen # 0 /\ r.owner = w.gen /\ ~w.shown => Coming(q, "hidden", h)

\* A window on the screen that is neither a member nor kept out will be heard
\* of, or is noted as too small.
Arrives(w, r, q, h, k) ==
    w.gen # 0 /\ w.shown /\ ~r.in /\ w.gen \notin k =>
        /\ w.shape \in {"app", "popup"} =>
              Coming(q, "created", h) \/ (Coming(q, "changed", h) /\ r.small)
        /\ w.shape = "small" => Coming(q, "created", h) \/ r.small

HandleFits(h) ==
    /\ Stamps(win[h], rec[h], steps, minted, kept)
    /\ Departs(win[h], rec[h], events, h)
    /\ Arrives(win[h], rec[h], events, h, kept)
    /\ H!Visible(h) => Answered(events, h)
    /\ \A t \in toggling : t.handle = h /\ t.token # 0 =>
          /\ t.token <= minted
          /\ H!Visible(h) /\ win[h].mark # t.token => Coming(events, "created", h)

\* Events come in the order of their times, none of them older than an
\* admission by an event before it.
InOrder ==
    /\ \A i, j \in 1..Len(events) : i <= j => events[i].at <= events[j].at
    /\ \A i \in 1..Len(events) : events[i].at <= H!Tick + 1
    /\ \A h \in Handles, i \in 1..Len(events) : rec[h].at <= events[i].at
    /\ \A h \in Handles : rec[h].at <= H!Tick + 1
LifeInv == LifeTypes /\ InOrder /\ \A h \in Handles : HandleFits(h)

(***************************************************************************)
(* The queue.                                                              *)
(***************************************************************************)
LEMMA Taken ==
    ASSUME NEW q \in Seq(EventType), q # <<>>
    PROVE  /\ Tail(q) \in Seq(EventType) /\ Head(q) \in EventType
           /\ Len(Tail(q)) = Len(q) - 1 /\ Len(q) \in Nat \ {0}
           /\ Head(q) = q[1] /\ \A i \in 1..Len(Tail(q)) : Tail(q)[i] = q[i + 1]
BY EmptySeq, HeadTailProperties

LEMMA TakenEvents ==
    ASSUME NEW q \in Seq(EventType), q # <<>>, NEW h
    PROVE  /\ \A kind : Coming(q, kind, h) =>
                 Coming(Tail(q), kind, h) \/ (Head(q).handle = h /\ Head(q).kind = kind)
           /\ Answered(q, h) => Answered(Tail(q), h)
           /\ Answered(q, h) /\ Head(q).handle = h /\ Head(q).kind \in {"hidden", "destroyed"} =>
                 Coming(Tail(q), "created", h)
<1> DEFINE r == Tail(q)
<1>1. /\ Len(r) = Len(q) - 1 /\ Len(q) \in Nat \ {0}
      /\ Head(q) = q[1] /\ \A i \in 1..Len(r) : r[i] = q[i + 1]
  BY Taken
<1> HIDE DEF r
<1>2. ASSUME NEW kind, Coming(q, kind, h)
      PROVE  Coming(r, kind, h) \/ (Head(q).handle = h /\ Head(q).kind = kind)
  <2>1. PICK i \in 1..Len(q) : q[i].handle = h /\ q[i].kind = kind
    BY <1>2 DEF Coming
  <2>2. CASE i = 1
    BY <1>1, <2>1, <2>2
  <2>3. CASE i # 1
    <3>1. i - 1 \in 1..Len(r) /\ r[i - 1] = q[i]
      BY <1>1, <2>3
    <3> QED
      BY <2>1, <3>1 DEF Coming
  <2> QED
    BY <2>2, <2>3
<1>3. ASSUME Answered(q, h)  PROVE  Answered(r, h)
  <2>1. ASSUME NEW i \in 1..Len(r), r[i].handle = h, r[i].kind \in {"hidden", "destroyed"}
        PROVE  \E j \in (i + 1)..Len(r) : r[j].handle = h /\ r[j].kind = "created"
    <3>1. i + 1 \in 1..Len(q) /\ r[i] = q[i + 1]
      BY <1>1
    <3>2. PICK j \in ((i + 1) + 1)..Len(q) : q[j].handle = h /\ q[j].kind = "created"
      BY <1>3, <2>1, <3>1 DEF Answered
    <3>3. j - 1 \in (i + 1)..Len(r) /\ j - 1 \in 1..Len(r) /\ r[j - 1] = q[j]
      BY <1>1
    <3> QED
      BY <3>2, <3>3
  <2> QED
    BY <2>1 DEF Answered
<1>4. ASSUME Answered(q, h), Head(q).handle = h, Head(q).kind \in {"hidden", "destroyed"}
      PROVE  Coming(r, "created", h)
  <2>1. PICK j \in 2..Len(q) : q[j].handle = h /\ q[j].kind = "created"
    <3>1. 1 \in 1..Len(q) /\ 1 + 1 = 2
      BY <1>1
    <3> QED
      BY <1>1, <1>4, <3>1 DEF Answered
  <2>2. j - 1 \in 1..Len(r) /\ r[j - 1] = q[j]
    BY <1>1
  <2> QED
    BY <2>1, <2>2 DEF Coming
<1> QED
  BY <1>2, <1>3, <1>4 DEF r

LEMMA PostedEvents ==
    ASSUME NEW q \in Seq(EventType), NEW es \in Seq(EventType), NEW h
    PROVE  /\ \A kind : Coming(q, kind, h) \/ Coming(es, kind, h) => Coming(q \o es, kind, h)
           /\ Answered(q, h) /\ Answered(es, h) => Answered(q \o es, h)
           /\ Coming(es, "created", h) /\ Answered(es, h) => Answered(q \o es, h)
<1> DEFINE r == q \o es
<1>1. /\ Len(r) = Len(q) + Len(es) /\ Len(q) \in Nat /\ Len(es) \in Nat
      /\ \A i \in 1..Len(q) : r[i] = q[i]
      /\ \A i \in 1..Len(r) : i > Len(q) => r[i] = es[i - Len(q)]
  BY ConcatProperties, LenProperties
<1> HIDE DEF r
<1>2. ASSUME NEW i \in 1..Len(q)  PROVE  i \in 1..Len(r) /\ r[i] = q[i]
  BY <1>1
<1>3. ASSUME NEW i \in 1..Len(es)  PROVE  i + Len(q) \in 1..Len(r) /\ r[i + Len(q)] = es[i]
  <2>1. i + Len(q) \in 1..Len(r) /\ i + Len(q) > Len(q) /\ (i + Len(q)) - Len(q) = i
    BY <1>1
  <2> QED
    BY <1>1, <2>1
<1>4. ASSUME NEW kind, Coming(q, kind, h) \/ Coming(es, kind, h)  PROVE  Coming(r, kind, h)
  BY <1>2, <1>3, <1>4 DEF Coming
<1>5. ASSUME Answered(es, h), Answered(q, h) \/ Coming(es, "created", h)  PROVE  Answered(r, h)
  <2>1. ASSUME NEW i \in 1..Len(r), r[i].handle = h, r[i].kind \in {"hidden", "destroyed"}
        PROVE  \E j \in (i + 1)..Len(r) : r[j].handle = h /\ r[j].kind = "created"
    <3>1. CASE i > Len(q)
      <4>1. i - Len(q) \in 1..Len(es) /\ r[i] = es[i - Len(q)]
        BY <1>1, <3>1
      <4>2. PICK j \in ((i - Len(q)) + 1)..Len(es) : es[j].handle = h /\ es[j].kind = "created"
        BY <1>5, <2>1, <4>1 DEF Answered
      <4>3. j \in 1..Len(es) /\ j + Len(q) \in (i + 1)..Len(r)
        BY <1>1, <4>1
      <4> QED
        BY <1>3, <4>2, <4>3
    <3>2. CASE ~(i > Len(q)) /\ Answered(q, h)
      <4>1. i \in 1..Len(q)
        BY <1>1, <3>2
      <4>2. PICK j \in (i + 1)..Len(q) : q[j].handle = h /\ q[j].kind = "created"
        BY <1>2, <2>1, <3>2, <4>1 DEF Answered
      <4>3. j \in 1..Len(q) /\ j \in (i + 1)..Len(r)
        BY <1>1, <4>1
      <4> QED
        BY <1>2, <4>2, <4>3
    <3>3. CASE ~(i > Len(q)) /\ Coming(es, "created", h)
      <4>1. PICK j \in 1..Len(es) : es[j].handle = h /\ es[j].kind = "created"
        BY <3>3 DEF Coming
      <4>2. j + Len(q) \in (i + 1)..Len(r)
        BY <1>1, <3>3
      <4> QED
        BY <1>3, <4>1, <4>2
    <3> QED
      BY <1>5, <3>1, <3>2, <3>3
  <2> QED
    BY <2>1 DEF Answered
<1> QED
  BY <1>4, <1>5 DEF r

LEMMA EventTimes ==
    ASSUME NEW q \in Seq(EventType)
    PROVE  \A i \in 1..Len(q) : q[i] \in EventType /\ q[i].at \in Nat
<1>1. \A i \in 1..Len(q) : q[i] \in EventType
  OBVIOUS
<1>2. \A e \in EventType : e.at \in Nat
  BY DEF EventType
<1> QED
  BY <1>1, <1>2

\* The events that one thing posts.
LEMMA OneEvent ==
    ASSUME NEW e \in EventType, NEW h
    PROVE  /\ <<e>> \in Seq(EventType)
           /\ e.handle = h => Coming(<<e>>, e.kind, h)
           /\ e.handle # h \/ e.kind \notin {"hidden", "destroyed"} => Answered(<<e>>, h)
<1> DEFINE q == <<e>>
<1>1. q \in Seq(EventType) /\ Len(q) = 1 /\ q[1] = e
  OBVIOUS
<1> HIDE DEF q
<1>2. 1 \in 1..Len(q) /\ \A i \in 1..Len(q) : i = 1
  BY <1>1
<1> QED
  BY <1>1, <1>2 DEF Coming, Answered, q

LEMMA TwoEvents ==
    ASSUME NEW e \in EventType, NEW f \in EventType, NEW h
    PROVE  /\ <<e, f>> \in Seq(EventType)
           /\ f.handle = h => Coming(<<e, f>>, f.kind, h)
           /\ e.handle # h /\ f.handle # h => Answered(<<e, f>>, h)
<1> DEFINE q == <<e, f>>
<1>1. q \in Seq(EventType) /\ Len(q) = 2 /\ q[1] = e /\ q[2] = f
  OBVIOUS
<1> HIDE DEF q
<1>2. 2 \in 1..Len(q) /\ \A i \in 1..Len(q) : i = 1 \/ i = 2
  BY <1>1
<1> QED
  BY <1>1, <1>2 DEF Coming, Answered, q

(***************************************************************************)
(* Records.                                                                *)
(***************************************************************************)
LEMMA RetiredRecord ==
    ASSUME NEW h, NEW r \in RecordType
    PROVE  /\ H!Retired(h, r) \in RecordType
           /\ H!Retired(h, r).in = r.in /\ H!Retired(h, r).owner = r.owner
           /\ H!Retired(h, r).token = r.token /\ H!Retired(h, r).at = r.at
           /\ H!Retired(h, r).small = r.small /\ H!Retired(h, r).known = r.known
           /\ H!Retired(h, r).hid = r.hid /\ H!Retired(h, r).ign \in {0, r.ign}
<1>1. H!Retired(h, r) = r \/ H!Retired(h, r) = [r EXCEPT !.ign = 0, !.wid = {}]
  BY DEF H!Retired
<1>2. CASE H!Retired(h, r) = r
  BY <1>2 DEF RecordType
<1> DEFINE q == [r EXCEPT !.ign = 0, !.wid = {}]
<1>3. /\ q \in RecordType /\ q.in = r.in /\ q.owner = r.owner /\ q.token = r.token /\ q.at = r.at
      /\ q.small = r.small /\ q.known = r.known /\ q.hid = r.hid /\ q.ign = 0
  BY DEF RecordType
<1> HIDE DEF q
<1>4. CASE H!Retired(h, r) = q
  BY <1>3, <1>4
<1> QED
  BY <1>1, <1>2, <1>4 DEF q

LEMMA ForgottenRecord ==
    ASSUME NEW r \in RecordType
    PROVE  /\ H!Forgotten(r) \in RecordType
           /\ ~H!Forgotten(r).in /\ H!Forgotten(r).owner = 0 /\ H!Forgotten(r).token = 0
           /\ H!Forgotten(r).at = 0 /\ H!Forgotten(r).ign = r.ign
           /\ ~H!Forgotten(r).small /\ ~H!Forgotten(r).known
BY DEF H!Forgotten, RecordType

LEMMA DepartedRecord ==
    ASSUME NEW h, NEW r \in RecordType
    PROVE  /\ H!Departed(h, r) \in RecordType
           /\ ~H!Departed(h, r).in /\ H!Departed(h, r).owner = 0 /\ H!Departed(h, r).token = 0
           /\ H!Departed(h, r).at = 0 /\ H!Departed(h, r).hid = {} /\ ~H!Departed(h, r).known
           /\ H!Departed(h, r).ign \in {0, r.ign} /\ ~H!Departed(h, r).small
<1> DEFINE s == H!Retired(h, r)
<1>1. s \in RecordType /\ s.ign \in {0, r.ign}
  BY RetiredRecord
<1> DEFINE f == H!Forgotten(s)
<1>2. H!Departed(h, r) = [f EXCEPT !.hid = {}, !.wid = {}]
  BY DEF H!Departed
<1> HIDE DEF s
<1>3. /\ f \in RecordType /\ ~f.in /\ f.owner = 0 /\ f.token = 0 /\ f.at = 0 /\ f.ign = s.ign
      /\ ~f.small /\ ~f.known
  BY <1>1, ForgottenRecord
<1> HIDE DEF f
<1> QED
  BY <1>1, <1>2, <1>3 DEF RecordType

LEMMA HiddenRecord ==
    ASSUME LifeTypes, NEW h \in Handles, NEW r \in RecordType, NEW short \in BOOLEAN
    PROVE  /\ H!HiddenAway(h, r, short) \in RecordType
           /\ ~H!HiddenAway(h, r, short).in /\ H!HiddenAway(h, r, short).owner = 0
           /\ H!HiddenAway(h, r, short).token = 0 /\ H!HiddenAway(h, r, short).at = 0
           /\ H!HiddenAway(h, r, short).ign = r.ign
<1>1. H!HiddenToken(h, r) \in Nat
  BY DEF H!HiddenToken, LifeTypes, WindowType, RecordType
<1> QED
  BY <1>1 DEF H!HiddenAway, H!Forgotten, RecordType

\* A member whose recorded lifetime is not on the handle any more departs.
LEMMA StampsLess ==
    ASSUME NEW w \in WindowType, NEW r \in RecordType, NEW q \in RecordType,
           NEW s \in Nat, NEW m \in Nat, NEW k \in SUBSET Nat,
           Stamps(w, r, s, m, k),
           q.ign \in {0, r.ign},
           \/ ~q.in /\ q.owner = 0 /\ q.token = 0 /\ q.at = 0
           \/ q.in = r.in /\ q.owner = r.owner /\ q.token = r.token /\ q.at = r.at
    PROVE  Stamps(w, q, s, m, k)
BY DEF Stamps, WindowType, RecordType

(***************************************************************************)
(* A handle that a step does not touch, but for the queue.                 *)
(***************************************************************************)
LEMMA Bystander ==
    ASSUME LifeInv, NEW g \in Handles, win'[g] = win[g], rec'[g] = rec[g],
           steps <= steps', minted <= minted', steps' \in Nat, minted' \in Nat, kept \subseteq kept',
           \A kind : Coming(events, kind, g) => Coming(events', kind, g),
           Answered(events, g) => Answered(events', g),
           \A t \in toggling' : t.handle = g /\ t.token # 0 => t \in toggling
    PROVE  HandleFits(g)'
<1>1. /\ win[g] \in WindowType /\ rec[g] \in RecordType /\ steps \in Nat /\ minted \in Nat
      /\ toggling \subseteq [handle : Handles, token : Nat] /\ HandleFits(g)
  BY DEF LifeInv, LifeTypes
<1>2. Stamps(win[g], rec[g], steps', minted', kept')
  BY <1>1 DEF HandleFits, Stamps, WindowType, RecordType
<1>3. Departs(win[g], rec[g], events', g) /\ Arrives(win[g], rec[g], events', g, kept')
  BY <1>1 DEF HandleFits, Departs, Arrives
<1>4. H!Visible(g)' <=> H!Visible(g)
  BY DEF H!Visible, H!Live
<1>5. \A t \in toggling' : t.handle = g /\ t.token # 0 =>
          /\ t.token <= minted'
          /\ H!Visible(g) /\ win[g].mark # t.token => Coming(events', "created", g)
  BY <1>1 DEF HandleFits
<1> QED
  BY <1>1, <1>2, <1>3, <1>4, <1>5 DEF HandleFits

(***************************************************************************)
(* The order of the events.                                                *)
(***************************************************************************)
LEMMA TickGrows ==
    ASSUME NEW m \in Nat, NEW n \in Nat, m <= n
    PROVE  m \div 2 \in Nat /\ n \div 2 \in Nat /\ m \div 2 <= n \div 2
OBVIOUS

LEMMA TakenOrder ==
    ASSUME LifeTypes, InOrder, events # <<>>, events' = Tail(events), steps' = steps,
           \A h \in Handles : rec'[h].at \in {0, rec[h].at, Head(events).at}
    PROVE  InOrder'
<1> DEFINE r == Tail(events)
<1>1. /\ Len(r) = Len(events) - 1 /\ Len(events) \in Nat \ {0}
      /\ Head(events) = events[1] /\ \A i \in 1..Len(r) : r[i] = events[i + 1]
      /\ r \in Seq(EventType)
  BY Taken DEF LifeTypes
<1>2. events' = r
  OBVIOUS
<1> HIDE DEF r
<1>3. \A i \in 1..Len(r) : i + 1 \in 1..Len(events) /\ r[i].at \in Nat
  BY <1>1, EventTimes
<1>4. \A i, j \in 1..Len(r) : i <= j => r[i].at <= r[j].at
  <2>1. ASSUME NEW i \in 1..Len(r), NEW j \in 1..Len(r), i <= j  PROVE  r[i].at <= r[j].at
    <3>1. i + 1 \in 1..Len(events) /\ j + 1 \in 1..Len(events) /\ i + 1 <= j + 1
      BY <1>3, <2>1
    <3>2. events[i + 1].at <= events[j + 1].at
      BY <3>1 DEF InOrder
    <3> QED
      BY <1>1, <3>2
  <2> QED
    BY <2>1
<1>5. \A i \in 1..Len(r) : r[i].at <= H!Tick + 1 /\ Head(events).at <= r[i].at
  <2>1. 1 \in 1..Len(events)
    BY <1>1
  <2> QED
    BY <1>1, <1>3, <2>1 DEF InOrder
<1>6. Head(events).at <= H!Tick + 1
  <2>1. 1 \in 1..Len(events)
    BY <1>1
  <2> QED
    BY <1>1, <2>1 DEF InOrder
<1>7. H!Tick \in Nat
  BY TickGrows DEF H!Tick, LifeTypes
<1>8. ASSUME NEW h \in Handles
      PROVE  rec'[h].at <= H!Tick + 1 /\ \A i \in 1..Len(r) : rec'[h].at <= r[i].at
  <2>1. rec[h].at \in Nat /\ rec[h].at <= H!Tick + 1
    BY DEF InOrder, LifeTypes, RecordType
  <2>2. \A i \in 1..Len(r) : rec[h].at <= r[i].at
    BY <1>1, <1>3 DEF InOrder
  <2>3. Head(events).at \in Nat
    BY Taken DEF LifeTypes, EventType
  <2>4. rec'[h].at \in {0, rec[h].at, Head(events).at}
    OBVIOUS
  <2>5. \A i \in 1..Len(r) : r[i].at \in Nat /\ Head(events).at <= r[i].at
    BY <1>3, <1>5
  <2>6. CASE rec'[h].at = 0
    BY <1>7, <2>5, <2>6
  <2>7. CASE rec'[h].at = rec[h].at
    BY <2>1, <2>2, <2>7
  <2>8. CASE rec'[h].at = Head(events).at
    BY <1>6, <2>5, <2>8
  <2> QED
    BY <2>4, <2>6, <2>7, <2>8
<1>9. H!Tick' = H!Tick
  BY DEF H!Tick
<1> QED
  BY <1>2, <1>4, <1>5, <1>8, <1>9 DEF InOrder

LEMMA PostedOrder ==
    ASSUME LifeTypes, InOrder, NEW es \in Seq(EventType), events' = events \o es, steps' = steps + 1,
           \A i \in 1..Len(es) : es[i].at = H!Tick + 1, rec' = rec
    PROVE  InOrder'
<1> DEFINE q == events
           r == events \o es
<1>1. /\ Len(r) = Len(q) + Len(es) /\ Len(q) \in Nat /\ Len(es) \in Nat
      /\ \A i \in 1..Len(q) : r[i] = q[i]
      /\ \A i \in 1..Len(r) : i > Len(q) => r[i] = es[i - Len(q)]
      /\ q \in Seq(EventType)
  BY ConcatProperties, LenProperties DEF LifeTypes
<1>2. events' = r
  OBVIOUS
<1> HIDE DEF r
<1>3. H!Tick \in Nat /\ H!Tick' \in Nat /\ H!Tick <= H!Tick'
  BY TickGrows DEF H!Tick, LifeTypes
<1>4. ASSUME NEW i \in 1..Len(r)
      PROVE  \/ i \in 1..Len(q) /\ r[i] = q[i]
             \/ i > Len(q) /\ r[i].at = H!Tick + 1
  <2>1. CASE i > Len(q)
    <3>1. i - Len(q) \in 1..Len(es)
      BY <1>1, <2>1
    <3> QED
      BY <1>1, <2>1, <3>1
  <2>2. CASE ~(i > Len(q))
    BY <1>1, <2>2
  <2> QED
    BY <2>1, <2>2
<1>5. \A i \in 1..Len(q) : q[i].at \in Nat /\ q[i].at <= H!Tick + 1
  BY <1>1, EventTimes DEF InOrder
<1>6. ASSUME NEW i \in 1..Len(r), NEW j \in 1..Len(r), i <= j  PROVE  r[i].at <= r[j].at
  <2>1. CASE j \in 1..Len(q) /\ r[j] = q[j]
    <3>1. i \in 1..Len(q) /\ r[i] = q[i]
      BY <1>1, <1>4, <1>6, <2>1
    <3> QED
      <4>1. q[i].at <= q[j].at
        BY <1>6, <2>1, <3>1 DEF InOrder
      <4> QED
        BY <2>1, <3>1, <4>1
  <2>2. CASE j > Len(q) /\ r[j].at = H!Tick + 1
    <3>1. CASE i \in 1..Len(q) /\ r[i] = q[i]
      <4>1. q[i].at <= H!Tick + 1
        BY <1>5, <3>1
      <4> QED
        BY <2>2, <3>1, <4>1
    <3>2. CASE i > Len(q) /\ r[i].at = H!Tick + 1
      BY <1>3, <2>2, <3>2
    <3> QED
      BY <1>4, <3>1, <3>2
  <2> QED
    BY <1>4, <2>1, <2>2
<1>7. \A i \in 1..Len(r) : r[i].at <= H!Tick' + 1
  BY <1>3, <1>4, <1>5
<1>8. ASSUME NEW h \in Handles
      PROVE  rec[h].at <= H!Tick' + 1 /\ \A i \in 1..Len(r) : rec[h].at <= r[i].at
  <2>1. rec[h].at \in Nat /\ rec[h].at <= H!Tick + 1
    BY DEF InOrder, LifeTypes, RecordType
  <2>2. \A i \in 1..Len(q) : rec[h].at <= q[i].at
    BY DEF InOrder
  <2>3. ASSUME NEW i \in 1..Len(r)  PROVE  rec[h].at <= r[i].at
    BY <1>3, <1>4, <2>1, <2>2, <2>3
  <2>4. rec[h].at <= H!Tick' + 1
    BY <1>3, <2>1
  <2> QED
    BY <2>3, <2>4
<1> QED
  BY <1>2, <1>6, <1>7, <1>8 DEF InOrder

LEMMA RestingOrder ==
    ASSUME LifeTypes, InOrder, events' = events, steps <= steps', steps' \in Nat,
           \A h \in Handles : rec'[h].at \in {0, rec[h].at}
    PROVE  InOrder'
<1>1. H!Tick \in Nat /\ H!Tick' \in Nat /\ H!Tick <= H!Tick'
  BY TickGrows DEF H!Tick, LifeTypes
<1>2. \A i \in 1..Len(events) : events[i].at \in Nat /\ events[i].at <= H!Tick + 1
  BY EventTimes DEF InOrder, LifeTypes
<1>3. ASSUME NEW h \in Handles
      PROVE  rec'[h].at <= H!Tick' + 1 /\ \A i \in 1..Len(events) : rec'[h].at <= events[i].at
  <2>1. rec[h].at \in Nat /\ rec[h].at <= H!Tick + 1 /\ \A i \in 1..Len(events) : rec[h].at <= events[i].at
    BY DEF InOrder, LifeTypes, RecordType
  <2> QED
    BY <1>1, <1>2, <2>1
<1>4. \A i \in 1..Len(events) : events[i].at <= H!Tick' + 1
  BY <1>1, <1>2
<1>5. \A i, j \in 1..Len(events) : i <= j => events[i].at <= events[j].at
  BY DEF InOrder
<1> QED
  BY <1>3, <1>4, <1>5 DEF InOrder

(***************************************************************************)
(* Admission.                                                              *)
(***************************************************************************)
\* What admission makes of the record it starts with and of the window: it
\* keeps a member, or takes the window in, or has a reason not to.
Admission(h, start, at, r, w) ==
    /\ r \in RecordType /\ w \in WindowType
    /\ w.gen = win[h].gen /\ w.shape = win[h].shape /\ w.shown = win[h].shown /\ w.mark = win[h].mark
    /\ rec' = [rec EXCEPT ![h] = r] /\ win' = [win EXCEPT ![h] = w]
    /\ minted' \in {minted, minted + 1} /\ kept \subseteq kept' /\ kept' \in SUBSET Nat
    /\ slots' \subseteq slots
    /\ Stamps(w, r, steps, minted', kept')
    /\ r.at \in {0, start.at, at}
    /\ r.in => \/ start.in /\ r.owner = start.owner /\ r.token = start.token
               \/ w.shown /\ r.owner = w.gen
    /\ w.shown => \/ r.in \/ w.gen \in kept'
                  \/ w.shape = "small" /\ r.small
                  \/ w.shape = "refused"

LEMMA AdmitAdmits ==
    ASSUME LifeTypes, NEW h \in Handles, NEW start \in RecordType, NEW at \in Nat, NEW stamps \in BOOLEAN,
           H!Live(h), Stamps(win[h], start, steps, minted, kept),
           H!Admit(h, start, "automatic", at, stamps)
    PROVE  \E r \in RecordType, w \in WindowType : Admission(h, start, at, r, w)
<1> DEFINE r0 == IF H!Replaced(h, start) THEN H!Departed(h, start) ELSE [start EXCEPT !.small = FALSE]
           why == H!Outcome(h, r0, "automatic")
           r1 == IF why \notin {"managed", "suppressed"} THEN H!Retired(h, [r0 EXCEPT !.hid = {}]) ELSE r0
           in == [r1 EXCEPT !.in = TRUE, !.owner = win[h].gen, !.known = TRUE, !.wid = {}]
           r == CASE why = "in" -> H!Recorded(in, at, stamps)
                  [] why = "small" -> [r1 EXCEPT !.small = TRUE]
                  [] OTHER -> r1
           rs == [rec EXCEPT ![h] = r1]
<1>1. /\ rec' = [rec EXCEPT ![h] = r]
      /\ H!Stamped(h, stamps /\ why = "in")
      /\ slots' = IF why = "in" THEN H!SlotsAfter(h, "automatic", rs) ELSE slots
      /\ kept' = IF why = "suppressed" THEN kept \cup {win[h].gen} ELSE kept
  BY DEF H!Admit
<1>2. /\ win[h] \in WindowType /\ steps \in Nat /\ minted \in Nat /\ kept \in SUBSET Nat /\ win[h].gen # 0
  BY DEF LifeTypes, H!Live
<1>3. /\ r0 \in RecordType /\ r0.ign \in {0, start.ign} /\ ~r0.small
      /\ \/ ~r0.in /\ r0.owner = 0 /\ r0.token = 0 /\ r0.at = 0
         \/ r0.in = start.in /\ r0.owner = start.owner /\ r0.token = start.token /\ r0.at = start.at
  <2>1. CASE H!Replaced(h, start)
    BY <2>1, DepartedRecord
  <2>2. CASE ~H!Replaced(h, start)
    BY <2>2 DEF RecordType
  <2> QED
    BY <2>1, <2>2
<1>4. Stamps(win[h], r0, steps, minted, kept)
  BY <1>2, <1>3, StampsLess
<1>5. /\ why \in {"managed", "suppressed", "ignored", "no window", "refused", "small", "in"}
      /\ why = "managed" <=> r0.in
      /\ why = "suppressed" => ~r0.in
      /\ why = "ignored" => H!IgnoreGate(h, r0)
      /\ why = "no window" => ~H!Visible(h)
      /\ why \in {"refused", "small"} => win[h].shape = why
      /\ why \in {"in", "refused", "small"} => H!Visible(h)
  BY DEF H!Outcome
<1> HIDE DEF r0, why
<1>6. /\ r1 \in RecordType /\ r1.in = r0.in /\ r1.owner = r0.owner /\ r1.token = r0.token /\ r1.at = r0.at
      /\ r1.ign \in {0, r0.ign}
  <2>1. [r0 EXCEPT !.hid = {}] \in RecordType
    BY <1>3 DEF RecordType
  <2>2. CASE why \in {"managed", "suppressed"}
    BY <1>3, <2>2
  <2>3. CASE why \notin {"managed", "suppressed"}
    <3>1. r1 = H!Retired(h, [r0 EXCEPT !.hid = {}])
      BY <2>3
    <3> HIDE DEF r1
    <3> QED
      BY <1>3, <2>1, <3>1, RetiredRecord DEF RecordType
  <2> QED
    BY <2>2, <2>3
<1>7. Stamps(win[h], r1, steps, minted, kept)
  BY <1>2, <1>3, <1>4, <1>6, StampsLess
<1>8. slots' \subseteq slots
  BY <1>1 DEF H!SlotsAfter
<1> HIDE DEF r1, rs
<1>9. CASE why = "in"
  <2> DEFINE w == IF stamps THEN [win[h] EXCEPT !.prop = minted + 1] ELSE win[h]
  <2>1. win' = [win EXCEPT ![h] = w] /\ minted' = IF stamps THEN minted + 1 ELSE minted
    BY <1>1, <1>9 DEF H!Stamped, LifeTypes
  <2>2. r = IF stamps THEN [in EXCEPT !.token = minted + 1, !.at = at] ELSE in
    BY <1>9 DEF H!Recorded
  <2>3. /\ w \in WindowType /\ w.gen = win[h].gen /\ w.shape = win[h].shape /\ w.shown = win[h].shown
        /\ w.mark = win[h].mark /\ w.prop = IF stamps THEN minted + 1 ELSE win[h].prop
    BY <1>2 DEF WindowType
  <2>4. /\ r \in RecordType /\ r.in /\ r.owner = win[h].gen /\ r.ign = r1.ign
        /\ r.token = (IF stamps THEN minted + 1 ELSE r1.token)
        /\ r.at = IF stamps THEN at ELSE r1.at
    <3>1. in \in RecordType
      BY <1>2, <1>6 DEF RecordType, WindowType
    <3>2. in.in /\ in.owner = win[h].gen /\ in.ign = r1.ign /\ in.token = r1.token /\ in.at = r1.at
      BY <1>6 DEF RecordType
    <3> HIDE DEF in, r
    <3>3. CASE stamps
      <4>1. r = [in EXCEPT !.token = minted + 1, !.at = at] /\ minted + 1 \in Nat
        BY <1>2, <2>2, <3>3
      <4> QED
        BY <3>1, <3>2, <3>3, <4>1 DEF RecordType
    <3>4. CASE ~stamps
      BY <2>2, <3>1, <3>2, <3>4
    <3> QED
      BY <3>3, <3>4
  <2>5. r1.token = 0 /\ r1.at = 0
    BY <1>3, <1>5, <1>6, <1>7, <1>9 DEF Stamps
  <2> HIDE DEF w, r
  <2>6. Stamps(w, r, steps, minted', kept')
    BY <1>1, <1>2, <1>6, <1>7, <1>9, <2>1, <2>3, <2>4, <2>5 DEF Stamps, WindowType, RecordType
  <2>7. w.shown
    BY <1>5, <1>9, <2>3 DEF H!Visible
  <2>8. r.at \in {0, start.at, at}
    BY <2>4, <2>5
  <2>9. minted' \in {minted, minted + 1} /\ kept' = kept
    BY <1>1, <1>9, <2>1
  <2> QED
    BY <1>1, <1>2, <1>8, <2>1, <2>3, <2>4, <2>6, <2>7, <2>8, <2>9 DEF Admission
<1>10. CASE why # "in"
  <2>1. win' = win /\ minted' = minted /\ win' = [win EXCEPT ![h] = win[h]]
    BY <1>1, <1>10 DEF H!Stamped, LifeTypes
  <2>2. r = IF why = "small" THEN [r1 EXCEPT !.small = TRUE] ELSE r1
    BY <1>10
  <2>3. /\ r \in RecordType /\ r.in = r1.in /\ r.owner = r1.owner /\ r.token = r1.token /\ r.at = r1.at
        /\ r.ign = r1.ign
        /\ why = "small" => r.small
    BY <1>6, <2>2 DEF RecordType
  <2> HIDE DEF r
  <2>4. kept \subseteq kept' /\ kept' \in SUBSET Nat
    BY <1>1, <1>2 DEF WindowType
  <2>5. Stamps(win[h], r, steps, minted', kept')
    <3>1. minted' = minted /\ kept \subseteq kept'
      BY <2>1, <2>4
    <3> QED
      BY <1>7, <2>3, <3>1 DEF Stamps
  <2>6. win[h].shown => \/ r.in \/ win[h].gen \in kept'
                        \/ win[h].shape = "small" /\ r.small
                        \/ win[h].shape = "refused"
    <3>1. CASE why \in {"managed", "suppressed"}
      BY <1>1, <1>5, <1>6, <2>3, <3>1
    <3>2. CASE why = "ignored"
      BY <1>1, <1>2, <1>4, <1>5, <3>2 DEF Stamps, H!IgnoreGate
    <3>3. CASE why = "no window"
      BY <1>2, <1>5, <3>3 DEF H!Visible, H!Live
    <3>4. CASE why \in {"refused", "small"}
      BY <1>5, <2>3, <3>4
    <3> QED
      BY <1>5, <1>10, <3>1, <3>2, <3>3, <3>4
  <2>7. /\ r.at \in {0, start.at, at}
        /\ r.in => start.in /\ r.owner = start.owner /\ r.token = start.token
    BY <1>3, <1>6, <2>3
  <2>8. minted' \in {minted, minted + 1}
    BY <2>1
  <2> QED
    BY <1>1, <1>2, <1>8, <2>1, <2>3, <2>4, <2>5, <2>6, <2>7, <2>8 DEF Admission
<1> QED
  BY <1>9, <1>10

(***************************************************************************)
(* What a step about one handle has to show, by what it does to the queue. *)
(***************************************************************************)
LEMMA HandleStep ==
    ASSUME LifeInv, LifeTypes', InOrder', NEW h \in Handles,
           NEW w \in WindowType, NEW r \in RecordType,
           win' = [win EXCEPT ![h] = w], rec' = [rec EXCEPT ![h] = r],
           steps <= steps', minted <= minted', kept \subseteq kept',
           Stamps(w, r, steps', minted', kept'),
           Departs(w, r, events', h), Arrives(w, r, events', h, kept'),
           w.gen # 0 /\ w.shown => Answered(events', h),
           \A t \in toggling' : t.handle = h /\ t.token # 0 =>
              t.token <= minted' /\ (w.gen # 0 /\ w.shown /\ w.mark # t.token => Coming(events', "created", h)),
           \A g \in Handles \ {h} :
              /\ \A kind : Coming(events, kind, g) => Coming(events', kind, g)
              /\ Answered(events, g) => Answered(events', g)
              /\ \A t \in toggling' : t.handle = g /\ t.token # 0 => t \in toggling
    PROVE  LifeInv'
<1>1. win'[h] = w /\ rec'[h] = r
  BY DEF LifeInv, LifeTypes
<1>2. HandleFits(h)'
  BY <1>1 DEF HandleFits, H!Visible, H!Live
<1>3. ASSUME NEW g \in Handles \ {h}  PROVE  HandleFits(g)'
  <2>1. win'[g] = win[g] /\ rec'[g] = rec[g]
    BY DEF LifeInv, LifeTypes
  <2>2. steps' \in Nat /\ minted' \in Nat
    BY DEF LifeTypes
  <2> QED
    BY <2>1, <2>2, Bystander
<1> QED
  BY <1>2, <1>3 DEF LifeInv

LEMMA TakeStep ==
    ASSUME LifeInv, NEW h \in Handles, NEW w \in WindowType, NEW r \in RecordType,
           events # <<>>, Head(events).handle = h, events' = Tail(events),
           toggling = {}, toggling' = {}, slept' = slept, steps' = steps,
           win' = [win EXCEPT ![h] = w], rec' = [rec EXCEPT ![h] = r],
           minted' \in {minted, minted + 1}, kept \subseteq kept', kept' \in SUBSET Nat,
           slots' \subseteq [donor : Handles, at : Nat],
           r.at \in {0, rec[h].at, Head(events).at},
           Stamps(w, r, steps, minted', kept'),
           Departs(w, r, Tail(events), h), Arrives(w, r, Tail(events), h, kept'),
           w.gen # 0 /\ w.shown => Answered(Tail(events), h)
    PROVE  LifeInv'
<1>1. events \in Seq(EventType) /\ Tail(events) \in Seq(EventType)
  BY Taken DEF LifeInv, LifeTypes
<1>2. LifeTypes'
  BY <1>1 DEF LifeInv, LifeTypes
<1>3. \A g \in Handles : rec'[g].at \in {0, rec[g].at, Head(events).at}
  BY DEF LifeInv, LifeTypes
<1>4. InOrder'
  BY <1>3, TakenOrder DEF LifeInv
<1>5. steps <= steps' /\ minted <= minted'
  BY DEF LifeInv, LifeTypes
<1>6. \A g \in Handles \ {h} :
         /\ \A kind : Coming(events, kind, g) => Coming(events', kind, g)
         /\ Answered(events, g) => Answered(events', g)
         /\ \A t \in toggling' : t.handle = g /\ t.token # 0 => t \in toggling
  BY <1>1, TakenEvents
<1> QED
  BY <1>2, <1>4, <1>5, <1>6, HandleStep

LEMMA QuietStep ==
    ASSUME LifeInv, NEW h \in Handles, NEW w \in WindowType, NEW r \in RecordType,
           events' = events, slept' \in [suspend : Nat, resume : Nat], steps' \in {steps, steps + 1},
           win' = [win EXCEPT ![h] = w], rec' = [rec EXCEPT ![h] = r],
           minted' \in {minted, minted + 1}, kept \subseteq kept', kept' \in SUBSET Nat,
           slots' \subseteq [donor : Handles, at : Nat],
           toggling' \subseteq [handle : Handles, token : Nat],
           r.at \in {0, rec[h].at},
           Stamps(w, r, steps', minted', kept'),
           Departs(w, r, events, h), Arrives(w, r, events, h, kept'),
           w.gen # 0 /\ w.shown => Answered(events, h),
           \A t \in toggling' : t.handle = h /\ t.token # 0 =>
              t.token <= minted' /\ (w.gen # 0 /\ w.shown /\ w.mark # t.token => Coming(events, "created", h)),
           \A t \in toggling' : t.handle # h => t \in toggling
    PROVE  LifeInv'
<1>1. LifeTypes'
  BY DEF LifeInv, LifeTypes
<1>2. \A g \in Handles : rec'[g].at \in {0, rec[g].at}
  BY DEF LifeInv, LifeTypes
<1>3. steps <= steps' /\ minted <= minted' /\ steps' \in Nat
  BY DEF LifeInv, LifeTypes
<1>4. InOrder'
  BY <1>2, <1>3, RestingOrder DEF LifeInv
<1> QED
  BY <1>1, <1>3, <1>4, HandleStep

LEMMA PostStep ==
    ASSUME LifeInv, NEW h \in Handles, NEW w \in WindowType, NEW es \in Seq(EventType),
           \A i \in 1..Len(es) : es[i].handle = h /\ es[i].at = H!Tick + 1,
           events' = events \o es, steps' = steps + 1,
           UNCHANGED <<rec, slots, slept, toggling, minted, kept>>,
           win' = [win EXCEPT ![h] = w],
           Stamps(w, rec[h], steps', minted, kept),
           Departs(w, rec[h], events', h), Arrives(w, rec[h], events', h, kept),
           w.gen # 0 /\ w.shown => Answered(events', h),
           \A t \in toggling : t.handle = h /\ t.token # 0 =>
              (w.gen # 0 /\ w.shown /\ w.mark # t.token => Coming(events', "created", h))
    PROVE  LifeInv'
<1>1. /\ events \in Seq(EventType) /\ events' \in Seq(EventType) /\ steps \in Nat /\ minted \in Nat
      /\ rec[h] \in RecordType /\ rec' = [rec EXCEPT ![h] = rec[h]]
  BY ConcatProperties DEF LifeInv, LifeTypes
<1>2. LifeTypes'
  BY <1>1 DEF LifeInv, LifeTypes
<1>3. InOrder'
  BY PostedOrder DEF LifeInv
<1>4. \A g \in Handles \ {h} :
         /\ \A kind : Coming(events, kind, g) => Coming(events', kind, g)
         /\ Answered(events, g) => Answered(events', g)
  <2> SUFFICES ASSUME NEW g \in Handles \ {h}
               PROVE  /\ \A kind : Coming(events, kind, g) => Coming(events', kind, g)
                      /\ Answered(events, g) => Answered(events', g)
    OBVIOUS
  <2>1. Answered(es, g)
    BY DEF Answered
  <2> QED
    BY <1>1, <2>1, PostedEvents
<1>5. \A t \in toggling' : t.handle = h /\ t.token # 0 =>
         t.token <= minted' /\ (w.gen # 0 /\ w.shown /\ w.mark # t.token => Coming(events', "created", h))
  BY DEF LifeInv, HandleFits
<1>7. \A g \in Handles \ {h} :
         /\ \A kind : Coming(events, kind, g) => Coming(events', kind, g)
         /\ Answered(events, g) => Answered(events', g)
         /\ \A t \in toggling' : t.handle = g /\ t.token # 0 => t \in toggling
  BY <1>4
<1>6. /\ steps <= steps' /\ minted <= minted' /\ kept \subseteq kept'
      /\ Stamps(w, rec[h], steps', minted', kept') /\ Arrives(w, rec[h], events', h, kept')
  BY <1>1
<1> QED
  BY <1>1, <1>2, <1>3, <1>5, <1>6, <1>7, HandleStep

(***************************************************************************)
(* Events that are handled.                                                *)
(***************************************************************************)
LEMMA Facts ==
    ASSUME LifeInv, NEW h \in Handles
    PROVE  /\ win[h] \in WindowType /\ rec[h] \in RecordType /\ events \in Seq(EventType)
           /\ steps \in Nat /\ minted \in Nat /\ kept \in SUBSET Nat
           /\ slots \subseteq [donor : Handles, at : Nat] /\ slept \in [suspend : Nat, resume : Nat]
           /\ toggling \subseteq [handle : Handles, token : Nat]
           /\ win = [win EXCEPT ![h] = win[h]] /\ rec = [rec EXCEPT ![h] = rec[h]]
           /\ Stamps(win[h], rec[h], steps, minted, kept)
           /\ Departs(win[h], rec[h], events, h) /\ Arrives(win[h], rec[h], events, h, kept)
           /\ (win[h].gen # 0 /\ win[h].shown => Answered(events, h))
BY DEF LifeInv, LifeTypes, HandleFits, H!Visible, H!Live

\* What the queue's head leaves to come.
LEMMA TakenFits ==
    ASSUME LifeInv, NEW h \in Handles, events # <<>>, Head(events).handle = h
    PROVE  /\ Head(events).at \in Nat /\ Head(events).kind \in Kinds
           /\ (win[h].gen # 0 /\ win[h].shown => Answered(Tail(events), h))
           /\ (win[h].gen # 0 /\ win[h].shown /\ Head(events).kind \in {"hidden", "destroyed"} =>
                  Coming(Tail(events), "created", h))
           /\ (Head(events).kind \notin {"hidden", "destroyed"} =>
                  Departs(win[h], rec[h], Tail(events), h))
           /\ \A kind \in Kinds \ {Head(events).kind} :
                  Coming(events, kind, h) => Coming(Tail(events), kind, h)
<1>1. Head(events).at \in Nat /\ Head(events).kind \in Kinds
  BY Facts, Taken DEF EventType
<1>2. \A kind : Coming(events, kind, h) => Coming(Tail(events), kind, h) \/ Head(events).kind = kind
  BY Facts, TakenEvents
<1>3. (win[h].gen # 0 /\ win[h].shown => Answered(Tail(events), h))
  BY Facts, TakenEvents
<1>4. (win[h].gen # 0 /\ win[h].shown /\ Head(events).kind \in {"hidden", "destroyed"} =>
                  Coming(Tail(events), "created", h))
  BY Facts, TakenEvents
<1>5. Head(events).kind \notin {"hidden", "destroyed"} => Departs(win[h], rec[h], Tail(events), h)
  <2>1. Departs(win[h], rec[h], events, h)
    BY Facts
  <2> QED
    BY <1>2, <2>1 DEF Departs
<1> QED
  BY <1>1, <1>2, <1>3, <1>4, <1>5

\* The members an admission leaves, and what is still to be heard of them.
LEMMA AdmissionFits ==
    ASSUME NEW h \in Handles, NEW start \in RecordType, NEW at, NEW r, NEW w, NEW q,
           win[h].gen # 0, Admission(h, start, at, r, w), Departs(win[h], start, q, h)
    PROVE  Departs(w, r, q, h) /\ Arrives(w, r, q, h, kept')
<1>1. Departs(w, r, q, h)
  BY DEF Admission, Departs
<1>2. Arrives(w, r, q, h, kept')
  BY DEF Admission, Arrives
<1> QED
  BY <1>1, <1>2

LEMMA CreatedFits == ASSUME LifeInv, NEW b \in BOOLEAN, H!Created(b) PROVE LifeInv'
<1> DEFINE h == Head(events).handle
<1>1. /\ toggling = {} /\ events # <<>> /\ Head(events).kind = "created" /\ events' = Tail(events)
      /\ slept' = slept /\ toggling' = {} /\ steps' = steps /\ h \in Handles
  BY Facts, Taken DEF H!Created, H!Take, H!Idle, LifeInv, LifeTypes, EventType
<1>2. /\ Head(events).at \in Nat
      /\ (win[h].gen # 0 /\ win[h].shown => Answered(Tail(events), h))
      /\ Departs(win[h], rec[h], Tail(events), h)
  BY <1>1, TakenFits
<1>3. CASE H!Visible(h) /\ H!Admit(h, rec[h], "automatic", Head(events).at, b)
  <2> HIDE DEF h
  <2>1. PICK r \in RecordType, w \in WindowType : Admission(h, rec[h], Head(events).at, r, w)
    BY <1>1, <1>2, <1>3, AdmitAdmits, Facts DEF H!Visible, LifeInv
  <2>2. Departs(w, r, Tail(events), h) /\ Arrives(w, r, Tail(events), h, kept')
    BY <1>1, <1>2, <1>3, <2>1, AdmissionFits, Facts DEF H!Visible, H!Live
  <2> USE DEF h
  <2> QED
    BY <1>1, <1>2, <1>3, <2>1, <2>2, Facts, TakeStep DEF Admission
<1>4. CASE ~H!Visible(h) /\ H!Drop
  <2>1. Arrives(win[h], rec[h], Tail(events), h, kept)
    BY <1>4 DEF Arrives, H!Visible, H!Live
  <2> QED
    BY <1>1, <1>2, <1>4, <2>1, Facts, TakeStep DEF H!Drop
<1> QED
  BY <1>3, <1>4 DEF H!Created

LEMMA ChangedFits == ASSUME LifeInv, NEW b \in BOOLEAN, H!Changed(b) PROVE LifeInv'
<1> DEFINE h == Head(events).handle
<1>1. /\ toggling = {} /\ events # <<>> /\ Head(events).kind = "changed" /\ events' = Tail(events)
      /\ slept' = slept /\ toggling' = {} /\ steps' = steps /\ h \in Handles
  BY Facts, Taken DEF H!Changed, H!Take, H!Idle, LifeInv, LifeTypes, EventType
<1>2. /\ Head(events).at \in Nat
      /\ (win[h].gen # 0 /\ win[h].shown => Answered(Tail(events), h))
      /\ Departs(win[h], rec[h], Tail(events), h)
      /\ Coming(events, "created", h) => Coming(Tail(events), "created", h)
  BY <1>1, TakenFits DEF Kinds
<1>3. CASE H!Live(h) /\ rec[h].small /\ H!Admit(h, rec[h], "automatic", 0, b)
  <2> HIDE DEF h
  <2>1. PICK r \in RecordType, w \in WindowType : Admission(h, rec[h], 0, r, w)
    BY <1>1, <1>2, <1>3, AdmitAdmits, Facts DEF LifeInv
  <2>2. Departs(w, r, Tail(events), h) /\ Arrives(w, r, Tail(events), h, kept')
    BY <1>1, <1>2, <1>3, <2>1, AdmissionFits, Facts DEF H!Live
  <2> USE DEF h
  <2> QED
    BY <1>1, <1>2, <1>3, <2>1, <2>2, Facts, TakeStep DEF Admission
<1>4. CASE ~(H!Live(h) /\ rec[h].small) /\ H!Drop
  <2>1. Arrives(win[h], rec[h], Tail(events), h, kept)
    BY <1>1, <1>2, <1>4, Facts DEF Arrives, H!Live
  <2> QED
    BY <1>1, <1>2, <1>4, <2>1, Facts, TakeStep DEF H!Drop
<1> QED
  BY <1>3, <1>4 DEF H!Changed

LEMMA DestroyedFits == ASSUME LifeInv, H!Destroyed PROVE LifeInv'
<1> DEFINE h == Head(events).handle
           r == IF H!DestroyedIsStale(h, rec[h]) THEN H!Retired(h, rec[h]) ELSE H!Departed(h, rec[h])
<1>1. /\ toggling = {} /\ events # <<>> /\ Head(events).kind = "destroyed" /\ events' = Tail(events)
      /\ slept' = slept /\ toggling' = {} /\ steps' = steps /\ h \in Handles
      /\ rec' = [rec EXCEPT ![h] = r] /\ UNCHANGED <<win, slots, minted, kept>>
  BY Facts, Taken DEF H!Destroyed, H!Take, H!Idle, LifeInv, LifeTypes, EventType
<1>2. /\ Head(events).at \in Nat
      /\ (win[h].gen # 0 /\ win[h].shown =>
             Answered(Tail(events), h) /\ Coming(Tail(events), "created", h))
      /\ Coming(events, "hidden", h) => Coming(Tail(events), "hidden", h)
  BY <1>1, TakenFits DEF Kinds
<1> HIDE DEF h
<1>3. /\ r \in RecordType /\ r.ign \in {0, rec[h].ign}
      /\ \/ ~r.in /\ r.owner = 0 /\ r.token = 0 /\ r.at = 0
         \/ /\ H!DestroyedIsStale(h, rec[h])
            /\ r.in = rec[h].in /\ r.owner = rec[h].owner /\ r.token = rec[h].token /\ r.at = rec[h].at
  <2>1. rec[h] \in RecordType
    BY <1>1, Facts
  <2>2. CASE H!DestroyedIsStale(h, rec[h])
    BY <2>1, <2>2, RetiredRecord
  <2>3. CASE ~H!DestroyedIsStale(h, rec[h])
    BY <2>1, <2>3, DepartedRecord
  <2> QED
    BY <2>2, <2>3
<1> HIDE DEF r
<1>4. Stamps(win[h], r, steps, minted, kept)
  BY <1>1, <1>3, Facts, StampsLess
<1>5. Departs(win[h], r, Tail(events), h)
  BY <1>1, <1>2, <1>3, Facts DEF Departs, Stamps, H!DestroyedIsStale, H!Live
<1>6. Arrives(win[h], r, Tail(events), h, kept)
  BY <1>2 DEF Arrives
<1>7. r.at \in {0, rec[h].at, Head(events).at}
  BY <1>3
<1> QED
  BY <1>1, <1>2, <1>3, <1>4, <1>5, <1>6, <1>7, Facts, TakeStep DEF h

LEMMA HiddenFits == ASSUME LifeInv, NEW short \in BOOLEAN, H!Hidden(short) PROVE LifeInv'
<1> DEFINE h == Head(events).handle
<1>1. /\ toggling = {} /\ events # <<>> /\ Head(events).kind = "hidden" /\ events' = Tail(events)
      /\ slept' = slept /\ toggling' = {} /\ steps' = steps /\ h \in Handles
  BY Facts, Taken DEF H!Hidden, H!Take, H!Idle, LifeInv, LifeTypes, EventType
<1>2. /\ Head(events).at \in Nat
      /\ (win[h].gen # 0 /\ win[h].shown =>
             Answered(Tail(events), h) /\ Coming(Tail(events), "created", h))
      /\ Coming(events, "destroyed", h) => Coming(Tail(events), "destroyed", h)
  BY <1>1, TakenFits DEF Kinds
<1>3. ~H!StaleHidden(rec[h], Head(events).at)
  <2>1. events \in Seq(EventType) /\ rec[h] \in RecordType
    BY <1>1, Facts
  <2>2. 1 \in 1..Len(events) /\ Head(events) = events[1]
    BY <1>1, <2>1, Taken
  <2>3. rec[h].at <= Head(events).at
    BY <1>1, <2>2 DEF LifeInv, InOrder
  <2> QED
    BY <1>2, <2>1, <2>3 DEF H!StaleHidden, RecordType
<1>4. CASE rec[h].in /\ H!Visible(h) /\ H!Drop
  <2>1. Departs(win[h], rec[h], Tail(events), h)
    BY <1>1, <1>2, <1>4, Facts DEF Departs, H!Visible
  <2>2. Arrives(win[h], rec[h], Tail(events), h, kept)
    BY <1>4 DEF Arrives
  <2> QED
    BY <1>1, <1>2, <1>4, <2>1, <2>2, Facts, TakeStep DEF H!Drop
<1>5. CASE /\ rec' = [rec EXCEPT ![h] = H!HiddenAway(h, rec[h], short)]
           /\ slots' = H!Donated(h, rec') /\ UNCHANGED <<win, minted, kept>>
  <2> DEFINE r == H!HiddenAway(h, rec[h], short)
  <2> HIDE DEF h
  <2>1. r \in RecordType /\ ~r.in /\ r.owner = 0 /\ r.token = 0 /\ r.at = 0 /\ r.ign = rec[h].ign
    BY <1>1, Facts, HiddenRecord DEF LifeInv
  <2> HIDE DEF r
  <2>2. Stamps(win[h], r, steps, minted, kept)
    BY <1>1, <2>1, Facts, StampsLess
  <2>3. Departs(win[h], r, Tail(events), h) /\ Arrives(win[h], r, Tail(events), h, kept)
    BY <1>2, <2>1 DEF Departs, Arrives
  <2>4. slots' \subseteq [donor : Handles, at : Nat]
    BY <1>1, <1>5, Facts DEF H!Donated
  <2>5. rec' = [rec EXCEPT ![h] = r]
    BY <1>5 DEF r
  <2>6. UNCHANGED <<win, minted, kept>> /\ Head(events).handle = h
    BY <1>5 DEF h
  <2> QED
    BY <1>1, <1>2, <2>1, <2>2, <2>3, <2>4, <2>5, <2>6, Facts, TakeStep
<1> QED
  BY <1>3, <1>4, <1>5 DEF H!Hidden

(***************************************************************************)
(* Paths that wait for no event.                                           *)
(***************************************************************************)
LEMMA EnumerateFits ==
    ASSUME LifeInv, NEW h \in Handles, NEW stamps \in BOOLEAN, H!Enumerate(h, stamps)  PROVE  LifeInv'
<1> DEFINE r0 == IF H!Replaced(h, rec[h]) THEN H!Departed(h, rec[h]) ELSE H!Retired(h, rec[h])
           adds == ~r0.in /\ win[h].shape \in {"app", "popup"}
           again == adds \/ (r0.in /\ r0.token = 0)
           r == [r0 EXCEPT !.in = @ \/ adds, !.owner = IF again THEN win[h].gen ELSE @,
                           !.known = @ \/ adds \/ r0.in,
                           !.small = ~r0.in /\ win[h].shape = "small"]
           w == IF again /\ stamps THEN [win[h] EXCEPT !.prop = minted + 1] ELSE win[h]
           q == IF again THEN H!Recorded(r, 0, stamps) ELSE r
<1>1. /\ steps' = steps + 1 /\ toggling = {} /\ UNCHANGED <<events, slots, slept, toggling, kept>>
      /\ win[h].gen # 0 /\ win[h].shown
      /\ IF H!IgnoreGate(h, r0)
         THEN rec' = [rec EXCEPT ![h] = r0] /\ UNCHANGED <<win, minted>>
         ELSE rec' = [rec EXCEPT ![h] = q] /\ H!Stamped(h, again /\ stamps)
  BY DEF H!Enumerate, H!Outside, H!Idle, H!Visible, H!Live
<1>2. /\ win[h] \in WindowType /\ rec[h] \in RecordType /\ Stamps(win[h], rec[h], steps, minted, kept)
      /\ steps \in Nat /\ minted \in Nat /\ kept \in SUBSET Nat
      /\ Departs(win[h], rec[h], events, h) /\ Arrives(win[h], rec[h], events, h, kept)
  BY Facts
<1>3. /\ r0 \in RecordType /\ r0.ign \in {0, rec[h].ign}
      /\ \/ ~r0.in /\ r0.owner = 0 /\ r0.token = 0 /\ r0.at = 0
         \/ /\ r0.in = rec[h].in /\ r0.owner = rec[h].owner /\ r0.token = rec[h].token /\ r0.at = rec[h].at
  <2>1. CASE H!Replaced(h, rec[h])
    BY <1>2, <2>1, DepartedRecord
  <2>2. CASE ~H!Replaced(h, rec[h])
    BY <1>2, <2>2, RetiredRecord
  <2> QED
    BY <2>1, <2>2
<1> HIDE DEF r0
<1>4. Stamps(win[h], r0, steps, minted, kept) /\ Stamps(win[h], r0, steps + 1, minted, kept)
  <2>1. Stamps(win[h], r0, steps, minted, kept)
    BY <1>2, <1>3, StampsLess
  <2> QED
    BY <1>2, <1>3, <2>1 DEF Stamps, WindowType, RecordType
<1>5. CASE H!IgnoreGate(h, r0)
  <2>1. win[h].gen \in kept
    BY <1>1, <1>4, <1>5 DEF Stamps, H!IgnoreGate
  <2>2. Arrives(win[h], r0, events, h, kept)
    BY <2>1 DEF Arrives
  <2>3. Departs(win[h], r0, events, h)
    BY <1>2, <1>3 DEF Departs
  <2>4. r0.at \in {0, rec[h].at}
    BY <1>3
  <2> QED
    BY <1>1, <1>3, <1>4, <1>5, <2>2, <2>3, <2>4, Facts, QuietStep
<1>6. CASE ~H!IgnoreGate(h, r0)
  <2>1. /\ r \in RecordType /\ r.in = (r0.in \/ adds) /\ r.owner = (IF again THEN win[h].gen ELSE r0.owner)
        /\ r.token = r0.token /\ r.at = r0.at /\ r.ign = r0.ign
        /\ r.small = (~r0.in /\ win[h].shape = "small")
    BY <1>2, <1>3 DEF RecordType, WindowType
  <2>2. win' = [win EXCEPT ![h] = w] /\ minted' = IF again /\ stamps THEN minted + 1 ELSE minted
    BY <1>1, <1>6, Facts DEF H!Stamped, LifeTypes
  <2>3. rec' = [rec EXCEPT ![h] = q]
    BY <1>1, <1>6
  <2>4. again => r0.token = 0
    BY <1>4 DEF Stamps
  <2>5. again => r.in
    BY <2>1
  <2>6. r0.in \/ adds \/ win[h].shape \notin {"app", "popup"}
    OBVIOUS
  <2> HIDE DEF adds, again, r
  <2>7. /\ w \in WindowType /\ w.gen = win[h].gen /\ w.shape = win[h].shape /\ w.shown = win[h].shown
        /\ w.mark = win[h].mark /\ w.prop = IF again /\ stamps THEN minted + 1 ELSE win[h].prop
    BY <1>2 DEF WindowType
  <2>8. /\ q \in RecordType /\ q.in = r.in /\ q.owner = r.owner /\ q.ign = r.ign /\ q.small = r.small
        /\ q.token = (IF again /\ stamps THEN minted + 1 ELSE r.token)
        /\ q.at = IF again /\ stamps THEN 0 ELSE r.at
    <3>1. CASE again /\ stamps
      <4>1. q = [r EXCEPT !.token = minted + 1, !.at = 0] /\ minted + 1 \in Nat
        BY <1>2, <3>1 DEF H!Recorded
      <4> HIDE DEF q
      <4> QED
        BY <2>1, <3>1, <4>1 DEF RecordType
    <3>2. CASE ~(again /\ stamps)
      BY <2>1, <3>2 DEF H!Recorded
    <3> QED
      BY <3>1, <3>2
  <2> HIDE DEF w, q
  <2>9. Stamps(w, q, steps', minted', kept)
    <3>1. CASE again
      BY <1>1, <1>2, <1>3, <1>4, <2>1, <2>2, <2>4, <2>5, <2>7, <2>8, <3>1 DEF Stamps, WindowType, RecordType
    <3>2. CASE ~again
      <4>1. r.in = r0.in
        BY <1>3, <2>1, <3>2 DEF again, RecordType
      <4> QED
        BY <1>1, <1>2, <1>3, <1>4, <2>1, <2>2, <2>7, <2>8, <3>2, <4>1 DEF Stamps
    <3> QED
      BY <3>1, <3>2
  <2>10. Departs(w, q, events, h)
    <3>1. CASE again
      BY <1>1, <2>1, <2>7, <2>8, <3>1 DEF Departs
    <3>2. CASE ~again
      <4>1. r.in = r0.in
        BY <1>3, <2>1, <3>2 DEF again, RecordType
      <4> QED
        BY <1>2, <1>3, <2>1, <2>7, <2>8, <3>2, <4>1 DEF Departs
    <3> QED
      BY <3>1, <3>2
  <2>11. Arrives(w, q, events, h, kept)
    BY <2>1, <2>6, <2>7, <2>8 DEF Arrives
  <2>12. q.at \in {0, rec[h].at}
    BY <1>3, <2>1, <2>8
  <2>13. minted' \in {minted, minted + 1}
    BY <2>2
  <2>14. w.gen # 0 /\ w.shown => Answered(events, h)
    BY <2>7, Facts
  <2> QED
    BY <1>1, <2>2, <2>3, <2>7, <2>8, <2>9, <2>10, <2>11, <2>12, <2>13, <2>14, Facts, QuietStep
<1> QED
  BY <1>5, <1>6

LEMMA FocusFits ==
    ASSUME LifeInv, NEW h \in Handles, NEW stamps \in BOOLEAN, H!FocusUnmanaged(h, stamps)  PROVE  LifeInv'
<1> DEFINE r == H!Retired(h, rec[h])
           recovers == \E stored \in r.hid : H!NamesCurrent(h, stored)
           start == [r EXCEPT !.hid = {}]
           q == [r EXCEPT !.hid = IF recovers THEN @ ELSE {}]
<1>1. /\ steps' = steps + 1 /\ toggling = {} /\ UNCHANGED <<events, slept, toggling>>
      /\ win[h].gen # 0 /\ win[h].shown /\ ~rec[h].in
      /\ \/ H!IgnoreGate(h, r) /\ H!Drop
         \/ H!Admit(h, start, "automatic", 0, stamps)
         \/ rec' = [rec EXCEPT ![h] = q] /\ UNCHANGED <<win, slots, minted, kept>>
  BY DEF H!FocusUnmanaged, H!Outside, H!Idle, H!Visible, H!Live
<1>2. /\ win[h] \in WindowType /\ rec[h] \in RecordType /\ Stamps(win[h], rec[h], steps, minted, kept)
      /\ steps \in Nat /\ minted \in Nat /\ kept \in SUBSET Nat
      /\ Departs(win[h], rec[h], events, h) /\ Arrives(win[h], rec[h], events, h, kept)
  BY Facts
<1>3. /\ r \in RecordType /\ r.ign \in {0, rec[h].ign} /\ r.small = rec[h].small
      /\ r.in = rec[h].in /\ r.owner = rec[h].owner /\ r.token = rec[h].token /\ r.at = rec[h].at
  BY <1>2, RetiredRecord
<1> HIDE DEF r
<1>4. Stamps(win[h], r, steps, minted, kept)
  BY <1>2, <1>3, StampsLess
<1>5. CASE H!IgnoreGate(h, r) /\ H!Drop
  <2>1. Stamps(win[h], rec[h], steps', minted, kept)
    BY <1>1, <1>2 DEF Stamps, WindowType, RecordType
  <2> QED
    BY <1>1, <1>2, <1>5, <2>1, Facts, QuietStep DEF H!Drop
<1>6. CASE H!Admit(h, start, "automatic", 0, stamps)
  <2>1. /\ start \in RecordType /\ start.ign = r.ign
        /\ start.in = r.in /\ start.owner = r.owner /\ start.token = r.token /\ start.at = r.at
    BY <1>3 DEF RecordType
  <2> HIDE DEF start
  <2>2. Stamps(win[h], start, steps, minted, kept)
    BY <1>2, <1>3, <1>4, <2>1, StampsLess
  <2>3. PICK t \in RecordType, w \in WindowType : Admission(h, start, 0, t, w)
    BY <1>1, <1>6, <2>1, <2>2, AdmitAdmits DEF LifeInv, H!Live
  <2>4. Departs(win[h], start, events, h)
    BY <1>2, <1>3, <2>1 DEF Departs
  <2>5. Departs(w, t, events, h) /\ Arrives(w, t, events, h, kept')
    BY <1>1, <2>1, <2>3, <2>4, AdmissionFits
  <2>6. minted' \in Nat /\ kept' \in SUBSET Nat /\ Stamps(w, t, steps, minted', kept')
    BY <1>2, <2>3 DEF Admission
  <2>7. Stamps(w, t, steps', minted', kept')
    BY <1>1, <1>2, <2>6 DEF Stamps, WindowType, RecordType
  <2>8. t.at \in {0, rec[h].at}
    BY <1>3, <2>1, <2>3 DEF Admission
  <2>9. w.gen # 0 /\ w.shown => Answered(events, h)
    BY <2>3, Facts DEF Admission
  <2> QED
    BY <1>1, <2>3, <2>5, <2>6, <2>7, <2>8, <2>9, Facts, QuietStep DEF Admission
<1>7. CASE rec' = [rec EXCEPT ![h] = q] /\ UNCHANGED <<win, slots, minted, kept>>
  <2>1. /\ q \in RecordType /\ q.ign = r.ign /\ q.small = r.small
        /\ q.in = r.in /\ q.owner = r.owner /\ q.token = r.token /\ q.at = r.at
    BY <1>3 DEF RecordType
  <2> HIDE DEF q
  <2>2. Stamps(win[h], q, steps, minted, kept)
    BY <1>2, <1>3, <1>4, <2>1, StampsLess
  <2>3. Stamps(win[h], q, steps', minted, kept)
    BY <1>1, <1>2, <2>1, <2>2 DEF Stamps, WindowType, RecordType
  <2>4. Departs(win[h], q, events, h) /\ Arrives(win[h], q, events, h, kept)
    BY <1>2, <1>3, <2>1 DEF Departs, Arrives
  <2> QED
    BY <1>1, <1>2, <1>3, <1>7, <2>1, <2>3, <2>4, Facts, QuietStep
<1> QED
  BY <1>1, <1>5, <1>6, <1>7

LEMMA ToggleFits == ASSUME LifeInv, NEW h \in Handles, H!ToggleIgnore(h) PROVE LifeInv'
<1>1. /\ steps' = steps + 1 /\ toggling = {} /\ UNCHANGED <<events, slots, slept, kept>>
      /\ win[h].gen # 0 /\ win[h].shown
  BY DEF H!ToggleIgnore, H!Outside, H!Idle, H!Visible, H!Live
<1>2. /\ win[h] \in WindowType /\ rec[h] \in RecordType /\ Stamps(win[h], rec[h], steps, minted, kept)
      /\ steps \in Nat /\ minted \in Nat /\ kept \in SUBSET Nat
      /\ Departs(win[h], rec[h], events, h) /\ Arrives(win[h], rec[h], events, h, kept)
  BY Facts
<1>3. CASE /\ rec[h].in
           /\ win' = [win EXCEPT ![h].mark = minted + 1] /\ minted' = minted + 1
           /\ toggling' = {[handle |-> h, token |-> minted + 1]}
           /\ UNCHANGED rec
  <2> DEFINE w == [win[h] EXCEPT !.mark = minted + 1]
  <2>1. win' = [win EXCEPT ![h] = w]
    BY <1>3
  <2>2. /\ w \in WindowType /\ w.gen = win[h].gen /\ w.shape = win[h].shape /\ w.shown = win[h].shown
        /\ w.prop = win[h].prop /\ w.mark = minted + 1
    BY <1>2 DEF WindowType
  <2> HIDE DEF w
  <2>3. Stamps(w, rec[h], steps', minted', kept)
    BY <1>1, <1>2, <1>3, <2>2 DEF Stamps, WindowType, RecordType
  <2>4. Departs(w, rec[h], events, h) /\ Arrives(w, rec[h], events, h, kept)
    BY <1>2, <1>3, <2>2 DEF Departs, Arrives
  <2>5. /\ toggling' \subseteq [handle : Handles, token : Nat]
        /\ \A t \in toggling' : t.handle = h /\ t.token = w.mark /\ t.token <= minted'
    BY <1>2, <1>3, <2>2
  <2>6. w.gen # 0 /\ w.shown => Answered(events, h)
    BY <2>2, Facts
  <2>7. rec' = [rec EXCEPT ![h] = rec[h]] /\ minted' \in {minted, minted + 1}
    BY <1>3, Facts
  <2>8. /\ \A t \in toggling' : t.handle = h /\ t.token # 0 =>
              t.token <= minted' /\ (w.gen # 0 /\ w.shown /\ w.mark # t.token => Coming(events, "created", h))
        /\ \A t \in toggling' : t.handle # h => t \in toggling
    BY <2>5
  <2> QED
    BY <1>1, <1>2, <2>1, <2>2, <2>3, <2>4, <2>5, <2>6, <2>7, <2>8, Facts, QuietStep
<1>4. CASE /\ ~rec[h].in
           /\ toggling' = {[handle |-> h, token |-> 0]}
           /\ UNCHANGED <<win, rec, minted>>
  <2>1. Stamps(win[h], rec[h], steps', minted, kept)
    BY <1>1, <1>2 DEF Stamps, WindowType, RecordType
  <2>2. toggling' \subseteq [handle : Handles, token : Nat] /\ \A t \in toggling' : t.handle = h /\ t.token = 0
    BY <1>4
  <2> QED
    BY <1>1, <1>2, <1>4, <2>1, <2>2, Facts, QuietStep
<1>5. CASE /\ rec' = [rec EXCEPT ![h] = H!Retired(h, @)]
           /\ UNCHANGED <<win, toggling, minted>>
  <2> DEFINE r == H!Retired(h, rec[h])
  <2>1. /\ r \in RecordType /\ r.ign \in {0, rec[h].ign} /\ r.small = rec[h].small
        /\ r.in = rec[h].in /\ r.owner = rec[h].owner /\ r.token = rec[h].token /\ r.at = rec[h].at
    BY <1>2, RetiredRecord
  <2>2. rec' = [rec EXCEPT ![h] = r]
    BY <1>5
  <2> HIDE DEF r
  <2>3. Stamps(win[h], r, steps, minted, kept)
    BY <1>2, <2>1, StampsLess
  <2>4. Stamps(win[h], r, steps', minted, kept)
    BY <1>1, <1>2, <2>1, <2>3 DEF Stamps, WindowType, RecordType
  <2>5. Departs(win[h], r, events, h) /\ Arrives(win[h], r, events, h, kept)
    BY <1>2, <2>1 DEF Departs, Arrives
  <2>6. UNCHANGED <<win, toggling, minted>>
    BY <1>5
  <2> QED
    BY <1>1, <1>2, <2>1, <2>2, <2>4, <2>5, <2>6, Facts, QuietStep
<1> QED
  BY <1>3, <1>4, <1>5 DEF H!ToggleIgnore

LEMMA UnmanageFits == ASSUME LifeInv, NEW done \in BOOLEAN, H!Unmanage(done) PROVE LifeInv'
<1>1. PICK t \in toggling :
        /\ t.token # 0
        /\ IF ~done THEN H!Unmark(t.handle) /\ UNCHANGED <<rec, kept>>
           ELSE /\ rec' = [rec EXCEPT ![t.handle] = [H!Forgotten(rec[t.handle]) EXCEPT
                             !.ign = IF H!SameLifetime(t.handle, t.token) THEN t.token ELSE @]]
                /\ kept' = IF H!SameLifetime(t.handle, t.token) THEN kept \cup {win[t.handle].gen} ELSE kept
                /\ UNCHANGED win
        /\ toggling' = {} /\ UNCHANGED <<events, slots, slept, steps, minted>>
  BY DEF H!Unmanage
<1> DEFINE h == t.handle
<1>2. h \in Handles /\ t.token \in Nat
  BY DEF LifeInv, LifeTypes
<1>3. /\ win[h] \in WindowType /\ rec[h] \in RecordType /\ Stamps(win[h], rec[h], steps, minted, kept)
      /\ steps \in Nat /\ minted \in Nat /\ kept \in SUBSET Nat
      /\ Departs(win[h], rec[h], events, h) /\ Arrives(win[h], rec[h], events, h, kept)
  BY <1>2, Facts
<1>4. /\ t.token <= minted
      /\ win[h].gen # 0 /\ win[h].shown /\ win[h].mark # t.token => Coming(events, "created", h)
  BY <1>1, <1>2 DEF LifeInv, HandleFits, H!Visible, H!Live
<1>5. CASE ~done
  <2> DEFINE w == IF H!Live(h) THEN [win[h] EXCEPT !.mark = 0] ELSE win[h]
  <2>1. win' = [win EXCEPT ![h] = w]
    BY <1>1, <1>2, <1>5, Facts DEF H!Unmark
  <2>2. /\ w \in WindowType /\ w.gen = win[h].gen /\ w.shape = win[h].shape /\ w.shown = win[h].shown
        /\ w.prop = win[h].prop /\ w.mark \in {0, win[h].mark}
    BY <1>3 DEF WindowType
  <2> HIDE DEF w
  <2>3. Stamps(w, rec[h], steps, minted, kept)
    BY <1>3, <2>2 DEF Stamps
  <2>4. Departs(w, rec[h], events, h) /\ Arrives(w, rec[h], events, h, kept)
    BY <1>3, <2>2 DEF Departs, Arrives
  <2>5. rec' = [rec EXCEPT ![h] = rec[h]] /\ kept' = kept
    BY <1>1, <1>2, <1>5, Facts
  <2>6. w.gen # 0 /\ w.shown => Answered(events, h)
    BY <1>2, <2>2, Facts
  <2> HIDE DEF h
  <2> QED
    BY <1>1, <1>2, <1>3, <2>1, <2>2, <2>3, <2>4, <2>5, <2>6, Facts, QuietStep
<1>6. CASE done
  <2> DEFINE f == H!Forgotten(rec[h])
             same == H!SameLifetime(h, t.token)
             r == [f EXCEPT !.ign = IF same THEN t.token ELSE @]
  <2>1. rec' = [rec EXCEPT ![h] = r] /\ win' = win
    BY <1>1, <1>6
  <2>2. kept' = IF same THEN kept \cup {win[h].gen} ELSE kept
    BY <1>1, <1>6
  <2>3. same <=> win[h].gen # 0 /\ win[h].mark = t.token
    BY DEF H!SameLifetime, H!Live
  <2>4. f \in RecordType /\ ~f.in /\ f.owner = 0 /\ f.token = 0 /\ f.at = 0 /\ f.ign = rec[h].ign
    BY <1>3, ForgottenRecord
  <2> HIDE DEF f, same
  <2>5. /\ r \in RecordType /\ ~r.in /\ r.owner = 0 /\ r.token = 0 /\ r.at = 0
        /\ r.ign = IF same THEN t.token ELSE rec[h].ign
    BY <1>2, <2>4 DEF RecordType
  <2> HIDE DEF r
  <2>6. kept \subseteq kept' /\ kept' \in SUBSET Nat
    BY <1>3, <2>2 DEF WindowType
  <2>7. Stamps(win[h], r, steps, minted, kept')
    BY <1>2, <1>3, <1>4, <2>2, <2>3, <2>5, <2>6 DEF Stamps
  <2>8. Departs(win[h], r, events, h) /\ Arrives(win[h], r, events, h, kept')
    BY <1>4, <2>2, <2>3, <2>5 DEF Departs, Arrives
  <2>9. win' = [win EXCEPT ![h] = win[h]] /\ (win[h].gen # 0 /\ win[h].shown => Answered(events, h))
    BY <1>2, <2>1, Facts
  <2>10. r.at \in {0, rec[h].at}
    BY <2>5
  <2> HIDE DEF h
  <2> QED
    BY <1>1, <1>2, <1>3, <2>1, <2>5, <2>6, <2>7, <2>8, <2>9, <2>10, Facts, QuietStep
<1> QED
  BY <1>5, <1>6

LEMMA ReadmitFits ==
    ASSUME LifeInv, NEW done \in BOOLEAN, NEW stamps \in BOOLEAN, H!Readmit(done, stamps)  PROVE  LifeInv'
<1>1. PICK t \in toggling :
        /\ t.token = 0
        /\ IF ~done \/ H!Outcome(t.handle, rec[t.handle], "readmit") # "in"
           THEN H!Drop
           ELSE /\ rec' = [rec EXCEPT ![t.handle] = H!Recorded([@ EXCEPT !.in = TRUE, !.owner = win[t.handle].gen,
                             !.known = TRUE, !.ign = 0, !.small = FALSE], 0, stamps)]
                /\ win' = [win EXCEPT ![t.handle].mark = 0,
                                      ![t.handle].prop = IF stamps THEN minted + 1 ELSE @]
                /\ minted' = IF stamps THEN minted + 1 ELSE minted
                /\ UNCHANGED <<slots, kept>>
        /\ toggling' = {} /\ UNCHANGED <<events, slept, steps>>
  BY DEF H!Readmit
<1> DEFINE h == t.handle
<1>2. h \in Handles
  BY DEF LifeInv, LifeTypes
<1>3. /\ win[h] \in WindowType /\ rec[h] \in RecordType /\ Stamps(win[h], rec[h], steps, minted, kept)
      /\ steps \in Nat /\ minted \in Nat /\ kept \in SUBSET Nat
      /\ Departs(win[h], rec[h], events, h) /\ Arrives(win[h], rec[h], events, h, kept)
  BY <1>2, Facts
<1>4. CASE H!Drop
  <2> HIDE DEF h
  <2> QED
    BY <1>1, <1>2, <1>3, <1>4, Facts, QuietStep DEF H!Drop
<1>5. CASE /\ H!Outcome(h, rec[h], "readmit") = "in"
           /\ rec' = [rec EXCEPT ![h] = H!Recorded([@ EXCEPT !.in = TRUE, !.owner = win[h].gen,
                             !.known = TRUE, !.ign = 0, !.small = FALSE], 0, stamps)]
           /\ win' = [win EXCEPT ![h].mark = 0, ![h].prop = IF stamps THEN minted + 1 ELSE @]
           /\ minted' = IF stamps THEN minted + 1 ELSE minted
           /\ UNCHANGED <<slots, kept>>
  <2> DEFINE prop == IF stamps THEN minted + 1 ELSE win[h].prop
             w == [win[h] EXCEPT !.mark = 0, !.prop = prop]
             f == [rec[h] EXCEPT !.in = TRUE, !.owner = win[h].gen, !.known = TRUE, !.ign = 0, !.small = FALSE]
             r == H!Recorded(f, 0, stamps)
  <2> HIDE DEF h
  <2>1. ~rec[h].in /\ win[h].gen # 0 /\ win[h].shown
    BY <1>5 DEF H!Outcome, H!Visible, H!Live
  <2>2. rec[h].token = 0 /\ rec[h].at = 0
    BY <1>3, <2>1 DEF Stamps
  <2>3. win' = [win EXCEPT ![h] = w] /\ rec' = [rec EXCEPT ![h] = r]
    BY <1>2, <1>5
  <2>4. /\ w \in WindowType /\ w.gen = win[h].gen /\ w.shown = win[h].shown
        /\ w.mark = 0 /\ w.prop = IF stamps THEN minted + 1 ELSE win[h].prop
    <3>1. prop \in Nat
      BY <1>3 DEF WindowType
    <3>2. prop = IF stamps THEN minted + 1 ELSE win[h].prop
      OBVIOUS
    <3> HIDE DEF prop
    <3> QED
      BY <1>3, <3>1, <3>2 DEF WindowType
  <2>5. f \in RecordType /\ f.in /\ f.owner = win[h].gen /\ f.token = 0 /\ f.at = 0 /\ f.ign = 0
    BY <1>3, <2>2 DEF RecordType, WindowType
  <2>6. r = IF stamps THEN [f EXCEPT !.token = minted + 1, !.at = 0] ELSE f
    BY DEF H!Recorded
  <2> HIDE DEF f, r, w
  <2>7. /\ r \in RecordType /\ r.in /\ r.owner = win[h].gen /\ r.at = 0 /\ r.ign = 0
        /\ r.token = IF stamps THEN minted + 1 ELSE 0
    <3>1. CASE stamps
      <4>1. r = [f EXCEPT !.token = minted + 1, !.at = 0] /\ minted + 1 \in Nat
        BY <1>3, <2>6, <3>1
      <4> QED
        BY <2>5, <3>1, <4>1 DEF RecordType
    <3>2. CASE ~stamps
      BY <2>5, <2>6, <3>2
    <3> QED
      BY <3>1, <3>2
  <2>8. minted' \in {minted, minted + 1}
    BY <1>5
  <2>9. Stamps(w, r, steps, minted', kept)
    BY <1>3, <1>5, <2>1, <2>4, <2>7 DEF Stamps, WindowType, RecordType
  <2>10. Departs(w, r, events, h) /\ Arrives(w, r, events, h, kept)
    BY <2>1, <2>4, <2>7 DEF Departs, Arrives
  <2>11. (w.gen # 0 /\ w.shown => Answered(events, h)) /\ r.at \in {0, rec[h].at}
    BY <1>2, <2>4, <2>7, Facts
  <2>12. UNCHANGED <<slots, kept>>
    BY <1>5
  <2> QED
    BY <1>1, <1>2, <1>3, <2>3, <2>4, <2>7, <2>8, <2>9, <2>10, <2>11, <2>12, Facts, QuietStep
<1> QED
  BY <1>1, <1>4, <1>5

LEMMA ExpireFits == ASSUME LifeInv, NEW h \in Handles, H!Expire(h) PROVE LifeInv'
<1> DEFINE r == [rec[h] EXCEPT !.hid = {}, !.wid = {}]
<1>1. /\ rec[h] \in RecordType /\ Stamps(win[h], rec[h], steps, minted, kept) /\ win[h] \in WindowType
      /\ Departs(win[h], rec[h], events, h) /\ Arrives(win[h], rec[h], events, h, kept)
      /\ steps \in Nat /\ minted \in Nat /\ kept \in SUBSET Nat
  BY Facts
<1>2. /\ toggling = {} /\ UNCHANGED <<win, events, slots, slept, toggling, steps, minted, kept>>
      /\ rec' = [rec EXCEPT ![h] = r]
  BY DEF H!Expire, H!Idle
<1>3. /\ r \in RecordType /\ r.in = rec[h].in /\ r.owner = rec[h].owner /\ r.token = rec[h].token
      /\ r.at = rec[h].at /\ r.ign = rec[h].ign /\ r.small = rec[h].small
  BY <1>1 DEF RecordType
<1> HIDE DEF r
<1>4. Stamps(win[h], r, steps, minted, kept)
  BY <1>1, <1>3, StampsLess
<1>5. Departs(win[h], r, events, h) /\ Arrives(win[h], r, events, h, kept)
  BY <1>1, <1>3 DEF Departs, Arrives
<1> QED
  BY <1>1, <1>2, <1>3, <1>4, <1>5, Facts, QuietStep

LEMMA RestingFits ==
    ASSUME LifeInv, UNCHANGED <<win, rec, events, toggling, minted, kept>>,
           steps' \in {steps, steps + 1}, slots' \subseteq slots,
           slept' \in [suspend : Nat, resume : Nat]
    PROVE  LifeInv'
<1>1. LifeTypes' /\ steps \in Nat /\ steps' \in Nat /\ steps <= steps' /\ minted \in Nat
  BY DEF LifeInv, LifeTypes
<1>2. \A h \in Handles : rec'[h].at \in {0, rec[h].at}
  OBVIOUS
<1>3. InOrder'
  BY <1>1, <1>2, RestingOrder DEF LifeInv
<1>4. ASSUME NEW h \in Handles  PROVE  HandleFits(h)'
  BY <1>1, Bystander
<1> QED
  BY <1>1, <1>3, <1>4 DEF LifeInv

(***************************************************************************)
(* Applications.                                                           *)
(***************************************************************************)
LEMMA PostFacts ==
    ASSUME LifeInv, NEW h \in Handles, NEW es, H!Post(es)
    PROVE  /\ events' = events \o es /\ steps' = steps + 1
           /\ UNCHANGED <<rec, slots, slept, toggling, minted, kept>>
           /\ events \in Seq(EventType)
           /\ \A kind \in Kinds : LET e == H!Event(kind, h)
                                  IN  e \in EventType /\ e.kind = kind /\ e.handle = h /\ e.at = H!Tick + 1
           /\ \A t \in toggling : t.handle = h /\ t.token # 0 =>
                 (win[h].gen # 0 /\ win[h].shown /\ win[h].mark # t.token => Coming(events, "created", h))
<1>1. /\ events' = events \o es /\ steps' = steps + 1
      /\ UNCHANGED <<rec, slots, slept, toggling, minted, kept>>
  BY DEF H!Post, H!Outside
<1>2. H!Tick + 1 \in Nat
  BY TickGrows DEF H!Tick, LifeInv, LifeTypes
<1>3. events \in Seq(EventType)
  BY DEF LifeInv, LifeTypes
<1>4. \A t \in toggling : t.handle = h /\ t.token # 0 =>
         (win[h].gen # 0 /\ win[h].shown /\ win[h].mark # t.token => Coming(events, "created", h))
  BY DEF LifeInv, HandleFits, H!Visible, H!Live
<1>5. ASSUME NEW kind \in Kinds
      PROVE  LET e == H!Event(kind, h)
             IN  e \in EventType /\ e.kind = kind /\ e.handle = h /\ e.at = H!Tick + 1
  BY <1>2 DEF H!Event, EventType
<1> QED
  BY <1>1, <1>3, <1>4, <1>5

LEMMA OpenFits ==
    ASSUME LifeInv, NEW h \in Handles, NEW shape \in Shapes, NEW shown \in BOOLEAN, H!Open(h, shape, shown)
    PROVE  LifeInv'
<1> DEFINE e == H!Event("created", h)
           es == IF shown THEN <<e>> ELSE <<>>
           w == [H!NoWindow EXCEPT !.gen = steps + 1, !.shape = shape, !.shown = shown]
<1>1. /\ win[h].gen = 0 /\ H!Post(es) /\ win' = [win EXCEPT ![h] = w]
  BY DEF H!Open, H!Live
<1>2. /\ rec[h] \in RecordType /\ Stamps(win[h], rec[h], steps, minted, kept)
      /\ steps \in Nat /\ minted \in Nat /\ Departs(win[h], rec[h], events, h)
  BY Facts
<1>3. /\ events' = events \o es /\ steps' = steps + 1
      /\ UNCHANGED <<rec, slots, slept, toggling, minted, kept>> /\ events \in Seq(EventType)
      /\ e \in EventType /\ e.kind = "created" /\ e.handle = h /\ e.at = H!Tick + 1
  BY <1>1, PostFacts DEF Kinds
<1>4. /\ w \in WindowType /\ w.gen = steps + 1 /\ w.shape = shape /\ w.shown = shown
      /\ w.prop = 0 /\ w.mark = 0
  <2>1. shape \in H!AnyShape
    BY WindowsAssumption DEF H!LifetimesAssumption
  <2>2. H!NoWindow \in WindowType /\ H!NoWindow.prop = 0 /\ H!NoWindow.mark = 0
    BY DEF WindowType, H!NoWindow, H!AnyShape
  <2>3. steps + 1 \in Nat
    BY <1>2
  <2> QED
    BY <2>1, <2>2, <2>3 DEF WindowType
<1> HIDE DEF w, e
<1>5. /\ es \in Seq(EventType) /\ \A i \in 1..Len(es) : es[i] = e
      /\ shown => Coming(es, "created", h) /\ Answered(es, h)
  <2>1. <<e>> \in Seq(EventType) /\ Coming(<<e>>, "created", h) /\ Answered(<<e>>, h)
    BY <1>3, OneEvent
  <2>2. \A i \in 1..Len(<<e>>) : <<e>>[i] = e
    OBVIOUS
  <2>3. <<>> \in Seq(EventType) /\ \A i \in 1..Len(<<>>) : FALSE
    OBVIOUS
  <2>4. CASE shown
    BY <2>1, <2>2, <2>4
  <2>5. CASE ~shown
    BY <2>3, <2>5
  <2> QED
    BY <2>4, <2>5
<1> HIDE DEF es
<1>6. /\ \A kind : Coming(events, kind, h) => Coming(events', kind, h)
      /\ shown => Coming(events', "created", h) /\ Answered(events', h)
  BY <1>3, <1>5, PostedEvents
<1>7. Stamps(w, rec[h], steps', minted, kept)
  BY <1>2, <1>3, <1>4 DEF Stamps, RecordType
<1>8. Departs(w, rec[h], events', h) /\ Arrives(w, rec[h], events', h, kept)
  BY <1>1, <1>2, <1>4, <1>6, <1>7 DEF Departs, Arrives, Stamps, RecordType
<1>9. \A i \in 1..Len(es) : es[i].handle = h /\ es[i].at = H!Tick + 1
  BY <1>3, <1>5
<1> QED
  BY <1>1, <1>3, <1>4, <1>5, <1>6, <1>7, <1>8, <1>9, PostStep

LEMMA ShowFits == ASSUME LifeInv, NEW h \in Handles, H!Show(h) PROVE LifeInv'
<1> DEFINE e == H!Event("created", h)
           w == [win[h] EXCEPT !.shown = TRUE]
<1>1. /\ win[h].gen # 0 /\ H!Post(<<e>>) /\ win' = [win EXCEPT ![h] = w]
  BY DEF H!Show, H!Live
<1>2. /\ win[h] \in WindowType /\ rec[h] \in RecordType /\ Stamps(win[h], rec[h], steps, minted, kept)
      /\ steps \in Nat /\ minted \in Nat /\ Departs(win[h], rec[h], events, h)
  BY Facts
<1>3. /\ events' = events \o <<e>> /\ steps' = steps + 1
      /\ UNCHANGED <<rec, slots, slept, toggling, minted, kept>> /\ events \in Seq(EventType)
      /\ e \in EventType /\ e.kind = "created" /\ e.handle = h /\ e.at = H!Tick + 1
  BY <1>1, PostFacts DEF Kinds
<1>4. /\ w \in WindowType /\ w.gen = win[h].gen /\ w.shape = win[h].shape /\ w.shown
      /\ w.prop = win[h].prop /\ w.mark = win[h].mark
  BY <1>2 DEF WindowType
<1> HIDE DEF w, e
<1>5. <<e>> \in Seq(EventType) /\ Coming(<<e>>, "created", h) /\ Answered(<<e>>, h)
  BY <1>3, OneEvent
<1>6. /\ \A kind : Coming(events, kind, h) => Coming(events', kind, h)
      /\ Coming(events', "created", h) /\ Answered(events', h)
  BY <1>3, <1>5, PostedEvents
<1>7. Stamps(w, rec[h], steps', minted, kept)
  BY <1>2, <1>3, <1>4 DEF Stamps, RecordType, WindowType
<1>8. Departs(w, rec[h], events', h) /\ Arrives(w, rec[h], events', h, kept)
  BY <1>1, <1>2, <1>4, <1>6 DEF Departs, Arrives
<1>9. \A i \in 1..Len(<<e>>) : <<e>>[i].handle = h /\ <<e>>[i].at = H!Tick + 1
  BY <1>3
<1> QED
  BY <1>1, <1>3, <1>4, <1>5, <1>6, <1>7, <1>8, <1>9, PostStep

LEMMA HideFits == ASSUME LifeInv, NEW h \in Handles, H!Hide(h) PROVE LifeInv'
<1> DEFINE e == H!Event("hidden", h)
           w == [win[h] EXCEPT !.shown = FALSE]
<1>1. /\ win[h].gen # 0 /\ H!Post(<<e>>) /\ win' = [win EXCEPT ![h] = w]
  BY DEF H!Hide, H!Visible, H!Live
<1>2. /\ win[h] \in WindowType /\ rec[h] \in RecordType /\ Stamps(win[h], rec[h], steps, minted, kept)
      /\ steps \in Nat /\ minted \in Nat /\ Departs(win[h], rec[h], events, h)
  BY Facts
<1>3. /\ events' = events \o <<e>> /\ steps' = steps + 1
      /\ UNCHANGED <<rec, slots, slept, toggling, minted, kept>> /\ events \in Seq(EventType)
      /\ e \in EventType /\ e.kind = "hidden" /\ e.handle = h /\ e.at = H!Tick + 1
  BY <1>1, PostFacts DEF Kinds
<1>4. /\ w \in WindowType /\ w.gen = win[h].gen /\ w.shape = win[h].shape /\ ~w.shown
      /\ w.prop = win[h].prop /\ w.mark = win[h].mark
  BY <1>2 DEF WindowType
<1> HIDE DEF w, e
<1>5. <<e>> \in Seq(EventType) /\ Coming(<<e>>, "hidden", h)
  BY <1>3, OneEvent
<1>6. /\ \A kind : Coming(events, kind, h) => Coming(events', kind, h)
      /\ Coming(events', "hidden", h)
  BY <1>3, <1>5, PostedEvents
<1>7. Stamps(w, rec[h], steps', minted, kept)
  BY <1>2, <1>3, <1>4 DEF Stamps, RecordType, WindowType
<1>8. Departs(w, rec[h], events', h) /\ Arrives(w, rec[h], events', h, kept)
  BY <1>1, <1>2, <1>4, <1>6 DEF Departs, Arrives
<1>9. \A i \in 1..Len(<<e>>) : <<e>>[i].handle = h /\ <<e>>[i].at = H!Tick + 1
  BY <1>3
<1> QED
  BY <1>1, <1>3, <1>4, <1>5, <1>6, <1>7, <1>8, <1>9, PostStep

LEMMA GrowFits == ASSUME LifeInv, NEW h \in Handles, H!Grow(h) PROVE LifeInv'
<1> DEFINE e == H!Event("changed", h)
           w == [win[h] EXCEPT !.shape = "app"]
<1>1. /\ win[h].gen # 0 /\ win[h].shown /\ win[h].shape = "small"
      /\ H!Post(<<e>>) /\ win' = [win EXCEPT ![h] = w]
  BY DEF H!Grow, H!Visible, H!Live
<1>2. /\ win[h] \in WindowType /\ rec[h] \in RecordType /\ Stamps(win[h], rec[h], steps, minted, kept)
      /\ steps \in Nat /\ minted \in Nat /\ Departs(win[h], rec[h], events, h)
      /\ Arrives(win[h], rec[h], events, h, kept) /\ Answered(events, h)
  BY <1>1, Facts
<1>3. /\ events' = events \o <<e>> /\ steps' = steps + 1
      /\ UNCHANGED <<rec, slots, slept, toggling, minted, kept>> /\ events \in Seq(EventType)
      /\ e \in EventType /\ e.kind = "changed" /\ e.handle = h /\ e.at = H!Tick + 1
  BY <1>1, PostFacts DEF Kinds
<1>4. /\ w \in WindowType /\ w.gen = win[h].gen /\ w.shape = "app" /\ w.shown
      /\ w.prop = win[h].prop /\ w.mark = win[h].mark
  BY <1>1, <1>2 DEF WindowType, H!AnyShape
<1> HIDE DEF w, e
<1>5. <<e>> \in Seq(EventType) /\ Coming(<<e>>, "changed", h) /\ Answered(<<e>>, h)
  BY <1>3, OneEvent
<1>6. /\ \A kind : Coming(events, kind, h) => Coming(events', kind, h)
      /\ Coming(events', "changed", h) /\ Answered(events', h)
  BY <1>2, <1>3, <1>5, PostedEvents
<1>7. Stamps(w, rec[h], steps', minted, kept)
  BY <1>2, <1>3, <1>4 DEF Stamps, RecordType, WindowType
<1>8. Departs(w, rec[h], events', h) /\ Arrives(w, rec[h], events', h, kept)
  BY <1>1, <1>2, <1>4, <1>6 DEF Departs, Arrives
<1>9. \A i \in 1..Len(<<e>>) : <<e>>[i].handle = h /\ <<e>>[i].at = H!Tick + 1
  BY <1>3
<1>10. \A t \in toggling : t.handle = h /\ t.token # 0 =>
          (w.gen # 0 /\ w.shown /\ w.mark # t.token => Coming(events', "created", h))
  BY <1>1, <1>4, <1>6, PostFacts
<1> QED
  BY <1>1, <1>3, <1>4, <1>5, <1>6, <1>7, <1>8, <1>9, <1>10, PostStep

LEMMA CloseFits == ASSUME LifeInv, NEW h \in Handles, NEW hides \in BOOLEAN, H!Close(h, hides) PROVE LifeInv'
<1> DEFINE e == H!Event("hidden", h)
           f == H!Event("destroyed", h)
           es == IF hides THEN <<e, f>> ELSE <<f>>
           w == H!NoWindow
<1>1. H!Post(es) /\ win' = [win EXCEPT ![h] = w]
  BY DEF H!Close
<1>2. /\ rec[h] \in RecordType /\ Stamps(win[h], rec[h], steps, minted, kept)
      /\ steps \in Nat /\ minted \in Nat
  BY Facts
<1>3. /\ events' = events \o es /\ steps' = steps + 1
      /\ UNCHANGED <<rec, slots, slept, toggling, minted, kept>> /\ events \in Seq(EventType)
      /\ e \in EventType /\ e.kind = "hidden" /\ e.handle = h /\ e.at = H!Tick + 1
      /\ f \in EventType /\ f.kind = "destroyed" /\ f.handle = h /\ f.at = H!Tick + 1
  BY <1>1, PostFacts DEF Kinds
<1>4. w \in WindowType /\ w.gen = 0 /\ w.prop = 0 /\ w.mark = 0 /\ ~w.shown
  BY DEF WindowType, H!NoWindow, H!AnyShape
<1> HIDE DEF w, e, f
<1>5. /\ es \in Seq(EventType) /\ Coming(es, "destroyed", h)
      /\ \A i \in 1..Len(es) : es[i].handle = h /\ es[i].at = H!Tick + 1
  <2>1. CASE hides
    <3>1. <<e, f>> \in Seq(EventType) /\ Coming(<<e, f>>, "destroyed", h)
      BY <1>3, TwoEvents
    <3>2. \A i \in 1..Len(<<e, f>>) : <<e, f>>[i] = e \/ <<e, f>>[i] = f
      OBVIOUS
    <3> QED
      BY <1>3, <2>1, <3>1, <3>2
  <2>2. CASE ~hides
    <3>1. <<f>> \in Seq(EventType) /\ Coming(<<f>>, "destroyed", h)
      BY <1>3, OneEvent
    <3>2. \A i \in 1..Len(<<f>>) : <<f>>[i] = f
      OBVIOUS
    <3> QED
      BY <1>3, <2>2, <3>1, <3>2
  <2> QED
    BY <2>1, <2>2
<1> HIDE DEF es
<1>6. Coming(events', "destroyed", h)
  BY <1>3, <1>5, PostedEvents
<1>7. Stamps(w, rec[h], steps', minted, kept)
  BY <1>2, <1>3, <1>4 DEF Stamps, RecordType
<1>8. Departs(w, rec[h], events', h) /\ Arrives(w, rec[h], events', h, kept)
  BY <1>4, <1>6 DEF Departs, Arrives
<1> QED
  BY <1>1, <1>3, <1>4, <1>5, <1>7, <1>8, PostStep

(***************************************************************************)
(* The invariant.                                                          *)
(***************************************************************************)
LEMMA LifeStart == H!Init => LifeInv
<1> SUFFICES ASSUME H!Init PROVE LifeInv
  OBVIOUS
<1> DEFINE w == H!NoWindow
           r == H!NoRecord
<1>1. /\ win = [h \in Handles |-> w] /\ rec = [h \in Handles |-> r]
      /\ events = <<>> /\ slots = {} /\ toggling = {}
      /\ slept = [suspend |-> 0, resume |-> 0]
      /\ steps = 0 /\ minted = 0 /\ kept = {}
  BY DEF H!Init
<1>2. w \in WindowType /\ w.gen = 0 /\ w.prop = 0 /\ w.mark = 0
  BY DEF H!NoWindow, WindowType, H!AnyShape
<1>3. r \in RecordType /\ ~r.in /\ r.owner = 0 /\ r.token = 0 /\ r.at = 0 /\ r.ign = 0
  BY DEF H!NoRecord, RecordType
<1> HIDE DEF w, r
<1>4. LifeTypes
  BY <1>1, <1>2, <1>3 DEF LifeTypes
<1>5. Len(events) = 0 /\ 1..Len(events) = {}
  BY <1>1
<1>6. InOrder
  <2>1. H!Tick \in Nat
    BY <1>4, TickGrows DEF H!Tick, LifeTypes
  <2> QED
    BY <1>1, <1>3, <1>5, <2>1 DEF InOrder
<1>7. ASSUME NEW h \in Handles  PROVE  HandleFits(h)
  <2>1. win[h] = w /\ rec[h] = r
    BY <1>1
  <2>2. Stamps(win[h], rec[h], steps, minted, kept)
    BY <1>1, <1>2, <1>3, <2>1 DEF Stamps
  <2>3. Departs(win[h], rec[h], events, h) /\ Arrives(win[h], rec[h], events, h, kept)
    BY <1>2, <1>3, <2>1 DEF Departs, Arrives
  <2>4. ~H!Visible(h)
    BY <1>2, <2>1 DEF H!Visible, H!Live
  <2> QED
    BY <1>1, <2>2, <2>3, <2>4 DEF HandleFits
<1> QED
  BY <1>4, <1>6, <1>7 DEF LifeInv

LEMMA LifeStep == LifeInv /\ [WindowsNext]_<<lifeVars, dragVars, part>> => LifeInv'
<1> SUFFICES ASSUME LifeInv, [WindowsNext]_<<lifeVars, dragVars, part>>  PROVE  LifeInv'
  OBVIOUS
<1>1. CASE UNCHANGED lifeVars
  <2>1. UNCHANGED <<win, rec, events, slots, slept, toggling, steps, minted, kept>>
    BY <1>1 DEF lifeVars
  <2> QED
    BY <2>1, RestingFits DEF LifeInv, LifeTypes
<1>2. CASE H!Next
  <2>1. ASSUME NEW b \in BOOLEAN, H!Created(b) \/ H!Hidden(b) \/ H!Changed(b) \/ H!Unmanage(b)
        PROVE  LifeInv'
    BY <2>1, CreatedFits, HiddenFits, ChangedFits, UnmanageFits
  <2>2. CASE H!ExpireSlot \/ H!Suspend \/ H!Resume
    <3>1. slept \in [suspend : Nat, resume : Nat] /\ steps + 1 \in Nat
      BY DEF LifeInv, LifeTypes
    <3>2. CASE H!ExpireSlot
      BY <3>1, <3>2, RestingFits DEF H!ExpireSlot
    <3>3. CASE H!Suspend
      BY <3>1, <3>3, RestingFits DEF H!Suspend, H!Outside
    <3>4. CASE H!Resume
      BY <3>1, <3>4, RestingFits DEF H!Resume, H!Outside
    <3> QED
      BY <2>2, <3>2, <3>3, <3>4
  <2>3. ASSUME NEW d \in BOOLEAN, NEW b \in BOOLEAN, H!Readmit(d, b)  PROVE  LifeInv'
    BY <2>3, ReadmitFits
  <2>4. ASSUME NEW h \in Handles, NEW b \in BOOLEAN, H!Enumerate(h, b) \/ H!FocusUnmanaged(h, b) \/ H!Close(h, b)
        PROVE  LifeInv'
    BY <2>4, EnumerateFits, FocusFits, CloseFits
  <2>5. ASSUME NEW h \in Handles,
               H!ToggleIgnore(h) \/ H!Expire(h) \/ H!Show(h) \/ H!Hide(h) \/ H!Grow(h)
        PROVE  LifeInv'
    BY <2>5, ToggleFits, ExpireFits, ShowFits, HideFits, GrowFits
  <2>6. ASSUME NEW h \in Handles, NEW s \in Shapes, NEW b \in BOOLEAN, H!Open(h, s, b)  PROVE  LifeInv'
    BY <2>6, OpenFits
  <2> QED
    BY <1>2, <2>1, <2>2, <2>3, <2>4, <2>5, <2>6, DestroyedFits DEF H!Next
<1> QED
  BY <1>1, <1>2 DEF WindowsNext

\* When nothing is in flight, nobody is waited for.
LEMMA LifeSettled == LifeInv => MembersSound
<1> SUFFICES ASSUME LifeInv, H!Settled, NEW h \in Handles
             PROVE  /\ rec[h].in /\ rec[h].token # 0 => H!Visible(h) /\ rec[h].owner = win[h].gen
                    /\ (H!Visible(h) /\ win[h].shape \in {"app", "popup"} =>
                           rec[h].in \/ win[h].gen \in kept)
  BY DEF MembersSound, H!MembersAreLive, H!NobodyForgotten
<1>1. Len(events) = 0 /\ 1..Len(events) = {}
  BY DEF H!Settled
<1>2. \A kind : ~Coming(events, kind, h)
  BY <1>1 DEF Coming
<1>3. Departs(win[h], rec[h], events, h) /\ Arrives(win[h], rec[h], events, h, kept)
  BY Facts
<1> QED
  BY <1>2, <1>3 DEF Departs, Arrives, H!Visible, H!Live

(***************************************************************************)
(* The place left behind.                                                  *)
(***************************************************************************)
\* The window h may take it.
Rejoining(h) ==
    \/ \E g \in Handles \ {h} : rec[g].in
    \/ \E s \in slots : s.donor # h /\ 0 < slept.suspend /\ slept.suspend < slept.resume

\* An admission that ends with the place gone found the process back, or came
\* after the sleep.
LEMMA AdmitRejoins ==
    ASSUME LifeTypes, NEW h \in Handles, NEW start \in RecordType, NEW at, NEW stamps,
           H!Admit(h, start, "automatic", at, stamps), slots # {}, slots' = {}
    PROVE  Rejoining(h) /\ \A g \in Handles \ {h} : rec'[g] = rec[g]
<1> DEFINE r0 == IF H!Replaced(h, start) THEN H!Departed(h, start) ELSE [start EXCEPT !.small = FALSE]
           why == H!Outcome(h, r0, "automatic")
           r1 == IF why \notin {"managed", "suppressed"} THEN H!Retired(h, [r0 EXCEPT !.hid = {}]) ELSE r0
           rs == [rec EXCEPT ![h] = r1]
<1>1. slots' = IF why = "in" THEN H!SlotsAfter(h, "automatic", rs) ELSE slots
  BY DEF H!Admit
<1>2. \A g \in Handles \ {h} : rec'[g] = rec[g]
  BY DEF H!Admit, LifeTypes
<1>3. r0 \in RecordType
  <2>1. CASE H!Replaced(h, start)
    BY <2>1, DepartedRecord
  <2>2. CASE ~H!Replaced(h, start)
    BY <2>2 DEF RecordType
  <2> QED
    BY <2>1, <2>2
<1>4. why = "in" => ~r0.in
  BY DEF H!Outcome
<1>5. why = "in"
  BY <1>1
<1> HIDE DEF r0, why
<1>6. ~r1.in
  <2> DEFINE p == [r0 EXCEPT !.hid = {}]
  <2>1. p \in RecordType /\ ~p.in
    BY <1>3, <1>4, <1>5 DEF RecordType
  <2>2. r1 = H!Retired(h, p)
    BY <1>5
  <2> HIDE DEF p, r1
  <2>3. H!Retired(h, p).in = p.in
    BY <2>1, RetiredRecord
  <2> QED
    BY <2>1, <2>2, <2>3
<1> HIDE DEF r1
<1>7. CASE H!ProcessRemains(rs)
  <2>1. PICK g \in Handles : rs[g].in
    BY <1>7 DEF H!ProcessRemains
  <2>2. rs[h] = r1 /\ (g # h => rs[g] = rec[g])
    BY DEF LifeTypes
  <2> QED
    BY <1>2, <1>6, <2>1, <2>2 DEF Rejoining
<1>8. CASE H!Rejoins(h, "automatic", rs)
  <2>1. slept.suspend \in Nat
    BY DEF LifeTypes
  <2> QED
    BY <1>2, <1>8, <2>1 DEF H!Rejoins, Rejoining
<1> QED
  BY <1>1, <1>5, <1>7, <1>8 DEF H!SlotsAfter

LEMMA RejoinStep ==
    ASSUME LifeInv, [WindowsNext]_<<lifeVars, dragVars, part>>, NEW h \in Handles,
           slots # {}, slots' = {}, rec'[h].in, ~rec[h].in
    PROVE  Rejoining(h)
<1>1. H!Next
  BY DEF WindowsNext, lifeVars
<1>2. rec'[h] # rec[h]
  OBVIOUS
<1>3. ASSUME NEW g \in Handles, NEW start \in RecordType, NEW at, NEW b,
             H!Admit(g, start, "automatic", at, b)
      PROVE  Rejoining(h)
  BY <1>2, <1>3, AdmitRejoins DEF LifeInv
<1>4. \A g \in Handles : rec[g] \in RecordType
  BY DEF LifeInv, LifeTypes
<1>5. H!Take => Head(events).handle \in Handles
  BY Taken DEF H!Take, LifeInv, LifeTypes, EventType
<1>6. ASSUME NEW b \in BOOLEAN, H!Created(b) \/ H!Changed(b)  PROVE  Rejoining(h)
  <2> DEFINE g == Head(events).handle
  <2>1. g \in Handles /\ rec[g] \in RecordType
    BY <1>4, <1>5, <1>6 DEF H!Created, H!Changed
  <2>2. CASE H!Created(b)
    <3>1. H!Admit(g, rec[g], "automatic", Head(events).at, b)
      BY <2>2 DEF H!Created, H!Drop
    <3> HIDE DEF g
    <3> QED
      BY <1>3, <2>1, <3>1
  <2>3. CASE H!Changed(b)
    <3>1. H!Admit(g, rec[g], "automatic", 0, b)
      BY <2>3 DEF H!Changed, H!Drop
    <3> HIDE DEF g
    <3> QED
      BY <1>3, <2>1, <3>1
  <2> QED
    BY <1>6, <2>2, <2>3
<1>7. ASSUME NEW b \in BOOLEAN, H!Hidden(b)  PROVE  FALSE
  BY <1>7 DEF H!Hidden, H!Drop, H!Donated
<1>8. ASSUME NEW g \in Handles, NEW b \in BOOLEAN, H!FocusUnmanaged(g, b)  PROVE  Rejoining(h)
  <2> DEFINE start == [H!Retired(g, rec[g]) EXCEPT !.hid = {}]
  <2>1. start \in RecordType
    <3>1. H!Retired(g, rec[g]) \in RecordType
      BY <1>4, RetiredRecord
    <3> QED
      BY <3>1 DEF RecordType
  <2>2. H!Admit(g, start, "automatic", 0, b)
    BY <1>8 DEF H!FocusUnmanaged, H!Drop
  <2> QED
    BY <1>3, <2>1, <2>2
<1>9. ASSUME NEW b \in BOOLEAN, H!Unmanage(b)  PROVE  FALSE
  BY <1>9 DEF H!Unmanage
<1>10. ASSUME NEW d \in BOOLEAN, NEW b \in BOOLEAN, H!Readmit(d, b)  PROVE  FALSE
  BY <1>10 DEF H!Readmit, H!Drop
<1>11. ~H!Destroyed /\ ~H!ExpireSlot /\ ~H!Suspend /\ ~H!Resume
  BY <1>2 DEF H!Destroyed, H!ExpireSlot, H!Suspend, H!Resume
<1>12. ASSUME NEW g \in Handles  PROVE  ~H!ToggleIgnore(g) /\ ~H!Expire(g)
  BY DEF H!ToggleIgnore, H!Expire
<1>13. ASSUME NEW g \in Handles, NEW b \in BOOLEAN  PROVE  ~H!Enumerate(g, b)
  BY DEF H!Enumerate
<1>14. \A es : ~H!Post(es)
  BY DEF H!Post
<1>15. ASSUME NEW g \in Handles  PROVE  ~H!Show(g) /\ ~H!Hide(g) /\ ~H!Grow(g)
  BY <1>14 DEF H!Show, H!Hide, H!Grow
<1>16. ASSUME NEW g \in Handles, NEW b \in BOOLEAN  PROVE  ~H!Close(g, b)
  BY <1>14 DEF H!Close
<1>17. ASSUME NEW g \in Handles, NEW s \in Shapes, NEW b \in BOOLEAN  PROVE  ~H!Open(g, s, b)
  BY <1>14 DEF H!Open
<1> QED
  BY <1>1, <1>6, <1>7, <1>8, <1>9, <1>10, <1>11, <1>12, <1>13, <1>15, <1>16, <1>17 DEF H!Next

\* Once every event is handled, the members are the windows on the screen: no
\* event that came late is believed of the window that has the handle now,
\* and none that has to be believed is lost; and a place left behind goes to
\* the window that comes after the sleep (managed_lifetime.rs,
\* temporary_ignore.rs, recreated_window_slot.rs).
THEOREM LifetimesSoundHolds == WindowsSpec => LifetimesSound
<1> DEFINE Stays == \A h \in Handles : slots # {} /\ slots' = {} /\ rec'[h].in /\ ~rec[h].in => Rejoining(h)
<1>1. WindowsInit => LifeInv
  BY LifeStart DEF WindowsInit
<1>2. LifeInv /\ [WindowsNext]_<<lifeVars, dragVars, part>> => LifeInv'
  BY LifeStep
<1>3. LifeInv => MembersSound
  BY LifeSettled
<1>4. LifeInv /\ [WindowsNext]_<<lifeVars, dragVars, part>> => [Stays]_lifeVars
  BY RejoinStep
<1>5. H!RejoinsAfterSleep <=> [][Stays]_lifeVars
  BY DEF H!RejoinsAfterSleep, Rejoining, H!lifeVars, lifeVars
<1> QED
  BY <1>1, <1>2, <1>3, <1>4, <1>5, PTL DEF WindowsSpec, LifetimesSound

(***************************************************************************)
(* The end of the process: one side wins the byte, and a takeover is never *)
(* early.                                                                  *)
(***************************************************************************)
\* Both processes of a shutdown move forward only: what the byte, the main
\* thread's progress and the deadline thread's progress say of each other.
Progress ==
    /\ state \in {"IDLE", "ARMED"} <=> main = "running" /\ dpc \notin Takeover
    /\ state = "COMPLETED" <=> won = "yes"
    /\ state = "COMPLETED" => main \in {"tail", "done"}
    /\ main \in {"tail", "done"} => state \in {"COMPLETED", "TAKEN_OVER"}
    /\ state \in {"IDLE", "IDLE_STARTED"} => tray = "idle"
    /\ tray = "idle" => dpc = "none"
    /\ main \in {"running", "cancel"} \/ cancelled = TRUE
    /\ dpc \in Takeover \ {"cancel"} => cancelled = TRUE
    /\ wakes <= (IF main = "running" THEN 0
                 ELSE IF main \in {"tail", "done"} THEN 2 ELSE 1)

\* The deadline thread acts on ARMED or STARTED only, and an ARMED it saw is
\* followed by STARTED, by COMPLETED or by its own takeover, never by IDLE.
Decision ==
    /\ dpc \in {"check", "wait"} => seen \in {"ARMED", "STARTED"}
    /\ restore # "none" => dpc \in {"await", "exited"}
    /\ exited = "forced" <=> dpc = "exited"

IInv == TypeOK /\ OneWinner /\ EpochAccounting /\ Progress /\ Decision

\* Every step of every thread keeps the byte, the two program counters and
\* the shared cancellation state in agreement.
LEMMA IInvStep == IInv /\ [Next]_vars => IInv'
<1> SUFFICES ASSUME IInv, [Next]_vars PROVE IInv'
  OBVIOUS
<1> USE DEF IInv, TypeOK, OneWinner, EpochAccounting, Progress, Decision,
            States, Live, Takeover, DPcs, MainPcs, Alive
<1>1. CASE ArmUpdate
  BY <1>1 DEF ArmUpdate
<1>2. CASE ArmSpawn
  BY <1>2 DEF ArmSpawn
<1>3. CASE Tick
  BY <1>3 DEF Tick
<1>4. CASE Load
  BY <1>4 DEF Load
<1>5. CASE Check
  BY <1>5 DEF Check, Expired, CompareExchange
<1>6. CASE Wait
  BY <1>6 DEF Wait, Expired
<1>7. CASE TakeoverCancel
  BY <1>7 DEF TakeoverCancel
<1>8. CASE TakeoverBump
  BY <1>8 DEF TakeoverBump
<1>9. CASE TakeoverStopTray
  BY <1>9 DEF TakeoverStopTray
<1>10. CASE SpawnRestore
  BY <1>10 DEF SpawnRestore
<1>11. CASE RestoreDone
  BY <1>11 DEF RestoreDone
<1>12. CASE ForcedExit
  BY <1>12 DEF ForcedExit
<1>13. CASE Started
  BY <1>13 DEF Started
<1>14. CASE ShutdownCancel
  BY <1>14 DEF ShutdownCancel
<1>15. CASE ShutdownBump
  BY <1>15 DEF ShutdownBump
<1>16. CASE Complete
  BY <1>16 DEF Complete
<1>17. CASE MainReturns
  BY <1>17 DEF MainReturns
<1>18. CASE Terminated
  BY <1>18 DEF Terminated, vars
<1>19. CASE UNCHANGED vars
  BY <1>19 DEF vars
<1> QED
  BY <1>1, <1>2, <1>3, <1>4, <1>5, <1>6, <1>7, <1>8, <1>9,
     <1>10, <1>11, <1>12, <1>13, <1>14, <1>15, <1>16, <1>17, <1>18, <1>19
  DEF Next, DeadlineThread, MainThread

\* The inductive invariant holds of every behaviour of the fallback.
THEOREM Invariance == Spec => []IInv
<1>1. Init => cancelled \in BOOLEAN
  BY Zenon DEF Init
<1>2. Init => IInv
  BY <1>1 DEF Init, IInv, TypeOK, OneWinner, EpochAccounting, Progress, Decision,
         States, Live, Takeover, DPcs, MainPcs
<1> QED
  BY <1>2, IInvStep, PTL DEF Spec

\* Every field of the fallback keeps its type; in particular the channel holds
\* at most the two messages of started() and complete(), and the epoch is
\* bumped at most twice.
THEOREM TypeCorrect == Spec => []TypeOK
  BY Invariance, PTL DEF IInv

\* Each side bumps the epoch once, and only after it cancelled the workers.
THEOREM EpochAccountingHolds == Spec => []EpochAccounting
  BY Invariance, PTL DEF IInv

\* The two outcomes of the race for the byte exclude each other: after a
\* complete() that won, the deadline thread never restores windows and never
\* ends the process (compare_exchange in arm, try_update in complete).
THEOREM OneWinnerHolds == Spec => []OneWinner
  BY Invariance, PTL DEF IInv

\* The takeover cancels the layout workers and bumps their epoch before its
\* restore thread exists, whatever the main thread does meanwhile.
THEOREM RestoreAfterCancelHolds == Spec => []RestoreAfterCancel
<1>1. IInv => RestoreAfterCancel
  BY DEF IInv, TypeOK, OneWinner, EpochAccounting, Progress, Decision,
         RestoreAfterCancel, Takeover, DPcs, MainPcs
<1> QED
  BY <1>1, Invariance, PTL

\* A takeover is never early: the byte turns to TAKEN_OVER only past the
\* deadline that belongs to the state it leaves.
THEOREM TakeoverOnTimeHolds == Spec => TakeoverOnTime
<1> DEFINE OnTime == state' = "TAKEN_OVER" /\ state # "TAKEN_OVER"
                       => \/ state = "ARMED" /\ clock >= 1
                          \/ state = "STARTED" /\ clock = 2
<1>1. IInv /\ [Next]_vars => [OnTime]_vars
  <2> SUFFICES ASSUME IInv, Next, state' = "TAKEN_OVER", state # "TAKEN_OVER"
               PROVE  \/ state = "ARMED" /\ clock >= 1
                      \/ state = "STARTED" /\ clock = 2
    OBVIOUS
  <2>1. Check
    BY DEF Next, DeadlineThread, MainThread, ArmUpdate, ArmSpawn, Tick, Load,
           Wait, TakeoverCancel, TakeoverBump, TakeoverStopTray, SpawnRestore,
           RestoreDone, ForcedExit, Started, ShutdownCancel, ShutdownBump,
           Complete, MainReturns, Terminated, vars
  <2>2. Expired /\ state = seen /\ dpc = "check"
    BY <2>1 DEF Check, CompareExchange
  <2> QED
    BY <2>2 DEF Expired, Deadline, IInv, TypeOK, Decision
<1> QED
  BY <1>1, Invariance, PTL DEF Spec, TakeoverOnTime
==============================================================================
