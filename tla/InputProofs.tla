---------------------------- MODULE InputProofs ----------------------------
(***************************************************************************)
(* Proofs about the user's input: what the run of MCEdges checks of the    *)
(* keyboard hook and of the gesture threads holds for any hotkeys, keys    *)
(* and remappers, and any number of reloads, recordings and touches.  What *)
(* it needs of sequences is in EdgesProofs.                                *)
(***************************************************************************)
EXTENDS EdgesProofs

(***************************************************************************)
(* Keys.  What the hook holds is down, so that no press counts twice and   *)
(* nothing stays held; what the page said last, and what is under way,     *)
(* decide whether the hook records.                                        *)
(***************************************************************************)
Actions == {"FocusLeft", "Close", "unknown"}
LineSets == SUBSET [chord : [mods : SUBSET K!Keys, key : K!Keys], action : Actions]
HookType == [on : BOOLEAN, rec : BOOLEAN, lines : LineSets, held : SUBSET K!Presses, fn : BOOLEAN,
             recfn : BOOLEAN, pending : SUBSET K!Keys, owned : SUBSET K!Keys]
Callbacks == [src : {"hardware", "remapper"}, key : K!Keys, down : BOOLEAN, rec : BOOLEAN, altgr : BOOLEAN]
HookEvents == Seq([event : {"hotkey", "recorded"}])
PageEvents == Seq({"start", "stop", "saved"})

KeysTypes ==
    /\ hook \in HookType
    /\ down \subseteq K!Presses /\ page \in BOOLEAN /\ over \in BOOLEAN
    /\ call = {} \/ \E c \in Callbacks : call = {c}
    /\ hotkeys \in [recording : BOOLEAN, was : BOOLEAN, at : {"idle", "reload", "dropped", "installed"}]
    /\ wires \in [hook : HookEvents, page : PageEvents, chords : Nat]
    /\ did \in [served : SUBSET K!Presses, twice : SUBSET K!Presses, recorded : SUBSET K!Presses,
                leaked : SUBSET K!Presses]

\* A callback belongs to a hook that is on, and its key is still where it says.
CallFits ==
    \A c \in call : /\ hook.on /\ <<c.src, c.key>> \in K!Presses
                    /\ c.down <=> <<c.src, c.key>> \in down
OffIsEmpty ==
    /\ ~hook.on => call = {} /\ hook.held = {} /\ ~hook.fn /\ ~hook.recfn /\ hook.pending = {} /\ hook.owned = {}
    /\ hotkeys.at = "dropped" => ~hook.on

\* What the hook holds is down, or its release is in the callback.
Alive(p) == p \in down \/ \E c \in call : p = <<c.src, c.key>>
HeldAlive ==
    /\ \A p \in hook.held : Alive(p)
    /\ hook.fn \/ hook.recfn => Alive(<<"hardware", "f13">>)
    /\ \A k \in hook.pending \cup hook.owned : \E p \in K!Presses : p[2] = k /\ Alive(p)

\* A press that acted is one the hook holds, so that no repeat of it is new.
ServedHeld == did.twice = {} /\ (hotkeys.at # "dropped" => did.served \subseteq hook.held)

\* The page's last word on its way, and what holds when none is: the recorder
\* is off, or it is on, will be after the reload, or its chord is on the way.
Mark(m) == m \in {"start", "stop"}
NoMark(q) == \A i \in 1..Len(q) : ~Mark(q[i])
LastMark(q, b) ==
    \A i \in 1..Len(q) : Mark(q[i]) /\ (\A j \in (i + 1)..Len(q) : ~Mark(q[j])) => (q[i] = "start" <=> b)
WillRecord == IF hotkeys.at \in {"idle", "reload"} THEN hotkeys.recording ELSE hotkeys.was
Heard(q) == \E i \in 1..Len(q) : q[i].event = "recorded"
RecorderFits ==
    /\ LastMark(wires.page, page)
    /\ hotkeys.at \in {"idle", "reload"} => ~hotkeys.was
    /\ NoMark(wires.page) /\ ~page => ~hook.rec /\ ~hotkeys.recording /\ ~hotkeys.was
    /\ NoMark(wires.page) /\ page =>
          \/ wires.chords > 0
          \/ /\ WillRecord
             /\ hotkeys.at \in {"dropped", "installed"} \/ hook.rec \/ ~hook.on \/ Heard(wires.hook)

KeysInv == KeysTypes /\ CallFits /\ OffIsEmpty /\ HeldAlive /\ ServedHeld /\ RecorderFits

LEMMA MarkAdded ==
    ASSUME NEW q \in PageEvents, NEW m \in {"start", "stop"}
    PROVE  /\ Append(q, m) \in PageEvents /\ ~NoMark(Append(q, m))
           /\ LastMark(Append(q, m), m = "start")
<1>1. /\ Append(q, m) \in PageEvents /\ Len(Append(q, m)) = Len(q) + 1 /\ Len(q) \in Nat
      /\ Append(q, m)[Len(q) + 1] = m
  BY DEF PageEvents
<1> DEFINE r == Append(q, m)
<1> HIDE DEF r
<1>2. r \in PageEvents /\ Len(r) = Len(q) + 1 /\ Len(q) \in Nat /\ r[Len(q) + 1] = m
  BY <1>1 DEF r
<1>3. ~NoMark(r)
  <2>1. Len(q) + 1 \in 1..Len(r) /\ Mark(r[Len(q) + 1])
    BY <1>2 DEF Mark
  <2> QED
    BY <2>1 DEF NoMark
<1>4. ASSUME NEW i \in 1..Len(r), \A j \in (i + 1)..Len(r) : ~Mark(r[j])
      PROVE  r[i] = m
  <2>1. CASE i = Len(q) + 1
    BY <1>2, <2>1
  <2>2. CASE i # Len(q) + 1
    <3>1. Len(q) + 1 \in (i + 1)..Len(r) /\ Mark(r[Len(q) + 1])
      BY <1>2, <2>2 DEF Mark
    <3> QED
      BY <1>4, <3>1
  <2> QED
    BY <2>1, <2>2
<1>5. LastMark(r, m = "start")
  BY <1>4 DEF LastMark
<1> QED
  BY <1>2, <1>3, <1>5 DEF r

LEMMA SavedAdded ==
    ASSUME NEW q \in PageEvents, NEW b \in BOOLEAN, LastMark(q, b), ~NoMark(q)
    PROVE  /\ Append(q, "saved") \in PageEvents /\ ~NoMark(Append(q, "saved"))
           /\ LastMark(Append(q, "saved"), b)
<1> DEFINE r == Append(q, "saved")
<1>1. /\ r \in PageEvents /\ Len(r) = Len(q) + 1 /\ Len(q) \in Nat
      /\ r[Len(q) + 1] = "saved" /\ \A i \in 1..Len(q) : r[i] = q[i]
  BY DEF PageEvents
<1> HIDE DEF r
<1>2. ~NoMark(r)
  <2>1. \A i \in 1..Len(q) : i \in 1..Len(r)
    BY <1>1
  <2> QED
    BY <1>1, <2>1 DEF NoMark
<1>3. ASSUME NEW i \in 1..Len(r), Mark(r[i]), \A j \in (i + 1)..Len(r) : ~Mark(r[j])
      PROVE  r[i] = "start" <=> b
  <2>1. i \in 1..Len(q)
    BY <1>1, <1>3 DEF Mark
  <2>2. \A j \in (i + 1)..Len(q) : j \in (i + 1)..Len(r) /\ r[j] = q[j]
    BY <1>1, <2>1
  <2>3. \A j \in (i + 1)..Len(q) : ~Mark(q[j])
    BY <1>3, <2>2
  <2>4. r[i] = q[i]
    BY <1>1, <2>1
  <2> QED
    BY <1>3, <2>1, <2>3, <2>4 DEF LastMark
<1>4. LastMark(r, b)
  BY <1>3 DEF LastMark
<1> QED
  BY <1>1, <1>2, <1>4 DEF r

\* The page stops the recorder, and may have a chord saved.
LEMMA StopAdded ==
    ASSUME NEW q \in PageEvents, NEW w \in {<<"stop">>, <<"stop", "saved">>}
    PROVE  q \o w \in PageEvents /\ ~NoMark(q \o w) /\ LastMark(q \o w, FALSE)
<1> DEFINE r == Append(q, "stop")
<1>1. r \in PageEvents /\ ~NoMark(r) /\ LastMark(r, FALSE)
  BY MarkAdded
<1>2. q \o <<"stop">> = r
  BY DEF PageEvents
<1>3. q \o <<"stop", "saved">> = Append(r, "saved")
  <2>1. q \in PageEvents /\ r \in PageEvents
    BY <1>1
  <2>2. q \o <<"stop", "saved">> = (q \o <<"stop">>) \o <<"saved">>
    BY <2>1 DEF PageEvents
  <2> HIDE DEF r
  <2>3. r \o <<"saved">> = Append(r, "saved")
    BY <2>1 DEF PageEvents
  <2> QED
    BY <1>2, <2>2, <2>3
<1> HIDE DEF r
<1>4. Append(r, "saved") \in PageEvents /\ ~NoMark(Append(r, "saved")) /\ LastMark(Append(r, "saved"), FALSE)
  BY <1>1, SavedAdded
<1> QED
  BY <1>1, <1>2, <1>3, <1>4

LEMMA MarkTaken ==
    ASSUME NEW q \in PageEvents, q # <<>>, NEW b \in BOOLEAN, LastMark(q, b)
    PROVE  /\ Tail(q) \in PageEvents /\ Head(q) \in {"start", "stop", "saved"} /\ LastMark(Tail(q), b)
           /\ ~Mark(Head(q)) => (NoMark(Tail(q)) <=> NoMark(q))
           /\ Mark(Head(q)) /\ NoMark(Tail(q)) => (Head(q) = "start" <=> b)
<1> DEFINE r == Tail(q)
<1>1. /\ r \in PageEvents /\ Len(r) = Len(q) - 1 /\ Len(q) \in Nat /\ Len(q) > 0
      /\ Head(q) = q[1] /\ q[1] \in {"start", "stop", "saved"}
      /\ \A i \in 1..(Len(q) - 1) : r[i] = q[i + 1]
  BY DEF PageEvents
<1> HIDE DEF r
<1>2. \A i \in 2..Len(q) : i - 1 \in 1..Len(r) /\ r[i - 1] = q[i]
  <2>1. ASSUME NEW i \in 2..Len(q)  PROVE  i - 1 \in 1..(Len(q) - 1) /\ (i - 1) + 1 = i
    BY <1>1
  <2> QED
    BY <1>1, <2>1
<1>3. \A i \in 1..Len(r) : i + 1 \in 2..Len(q) /\ r[i] = q[i + 1]
  BY <1>1
<1>4. ASSUME NEW i \in 1..Len(r), Mark(r[i]), \A j \in (i + 1)..Len(r) : ~Mark(r[j])
      PROVE  r[i] = "start" <=> b
  <2>1. ASSUME NEW j \in ((i + 1) + 1)..Len(q)  PROVE  ~Mark(q[j])
    <3>1. j \in 2..Len(q) /\ j - 1 \in (i + 1)..Len(r)
      BY <1>1
    <3> QED
      BY <1>2, <1>4, <3>1
  <2>2. i + 1 \in 1..Len(q) /\ r[i] = q[i + 1]
    BY <1>1, <1>3
  <2> QED
    BY <1>4, <2>1, <2>2 DEF LastMark
<1>5. NoMark(r) <=> \A i \in 2..Len(q) : ~Mark(q[i])
  BY <1>2, <1>3 DEF NoMark
<1>6. \A i \in 1..Len(q) : i = 1 \/ i \in 2..Len(q)
  BY <1>1
<1>7. 1 \in 1..Len(q) /\ \A i \in 2..Len(q) : i \in 1..Len(q)
  BY <1>1
<1>8. ~Mark(q[1]) => (NoMark(r) <=> NoMark(q))
  BY <1>5, <1>6, <1>7 DEF NoMark
<1>9. Mark(q[1]) /\ NoMark(r) => (q[1] = "start" <=> b)
  <2>1. 1 + 1 = 2
    OBVIOUS
  <2> QED
    BY <1>5, <1>7, <2>1 DEF LastMark
<1>10. LastMark(r, b)
  BY <1>4 DEF LastMark
<1> QED
  BY <1>1, <1>8, <1>9, <1>10 DEF r

LEMMA HookHears ==
    ASSUME NEW q \in HookEvents, NEW x \in {"hotkey", "recorded"}
    PROVE  /\ Append(q, [event |-> x]) \in HookEvents
           /\ Heard(q) \/ x = "recorded" => Heard(Append(q, [event |-> x]))
<1> DEFINE e == [event |-> x]
           r == Append(q, e)
<1>1. e \in [event : {"hotkey", "recorded"}] /\ e.event = x
  OBVIOUS
<1> HIDE DEF e
<1>2. /\ r \in HookEvents /\ Len(r) = Len(q) + 1 /\ Len(q) \in Nat
      /\ r[Len(q) + 1] = e /\ \A i \in 1..Len(q) : r[i] = q[i]
  BY <1>1 DEF HookEvents
<1> HIDE DEF r
<1>3. Heard(q) => Heard(r)
  <2>1. \A i \in 1..Len(q) : i \in 1..Len(r)
    BY <1>2
  <2> QED
    BY <1>2, <2>1 DEF Heard
<1>4. x = "recorded" => Heard(r)
  <2>1. Len(q) + 1 \in 1..Len(r)
    BY <1>2
  <2> QED
    BY <1>1, <1>2, <2>1 DEF Heard
<1> QED
  BY <1>2, <1>3, <1>4 DEF r, e

LEMMA HookTaken ==
    ASSUME NEW q \in HookEvents, q # <<>>
    PROVE  /\ Tail(q) \in HookEvents
           /\ Heard(q) /\ Head(q).event # "recorded" => Heard(Tail(q))
<1> DEFINE r == Tail(q)
<1>1. /\ r \in HookEvents /\ Len(r) = Len(q) - 1 /\ Len(q) \in Nat /\ Len(q) > 0
      /\ Head(q) = q[1] /\ \A i \in 1..(Len(q) - 1) : r[i] = q[i + 1]
  BY DEF HookEvents
<1> HIDE DEF r
<1>2. ASSUME NEW i \in 1..Len(q), q[i].event = "recorded", q[1].event # "recorded"  PROVE  Heard(r)
  <2>1. i - 1 \in 1..(Len(q) - 1) /\ (i - 1) + 1 = i
    BY <1>1, <1>2
  <2>2. r[i - 1] = q[i] /\ i - 1 \in 1..Len(r)
    BY <1>1, <2>1
  <2> QED
    BY <1>2, <2>2 DEF Heard
<1> QED
  BY <1>1, <1>2 DEF Heard, r

LEMMA MappingType == \A cfg \in K!Configs : K!Mapping(cfg) \in LineSets
<1> DEFINE Lines == [chord : [mods : SUBSET K!Keys, key : K!Keys], action : Actions]
<1>1. ASSUME NEW cfg \in K!Configs  PROVE  \A i \in DOMAIN cfg : cfg[i] \in Lines
  <2>1. \A mods \in SUBSET K!Keys, key \in K!Keys, action \in Actions :
           K!Line(K!Chord(mods, key), action) \in Lines
    BY DEF K!Line, K!Chord
  <2>2. /\ {"ctrl"} \in SUBSET K!Keys /\ {"f13"} \in SUBSET K!Keys /\ {} \in SUBSET K!Keys
        /\ "arrow" \in K!Keys /\ "f13" \in K!Keys
    BY DEF K!Keys
  <2> DEFINE a == K!Line(K!Chord({"ctrl"}, "arrow"), "FocusLeft")
             b == K!Line(K!Chord({"ctrl"}, "arrow"), "Close")
             c == K!Line(K!Chord({"f13"}, "arrow"), "FocusLeft")
             d == K!Line(K!Chord({}, "f13"), "unknown")
  <2>3. cfg = <<a, b>> \/ cfg = <<c, d>>
    BY DEF K!Configs
  <2> HIDE DEF Lines
  <2>4. a \in Lines /\ b \in Lines /\ c \in Lines /\ d \in Lines
    BY <2>1, <2>2 DEF Actions
  <2> HIDE DEF a, b, c, d
  <2> QED
    BY <2>3, <2>4
<1>2. \A cfg \in K!Configs : \A i \in K!Resolved(cfg) : i \in DOMAIN cfg
  BY DEF K!Resolved
<1> QED
  BY <1>1, <1>2 DEF K!Mapping, LineSets

LEMMA InstalledType ==
    ASSUME NEW cfg \in K!Configs
    PROVE  LET h == K!Installed(K!Mapping(cfg))
           IN  /\ h \in HookType /\ h.on /\ ~h.rec /\ h.held = {} /\ ~h.fn /\ ~h.recfn /\ h.pending = {} /\ h.owned = {}
BY MappingType DEF K!Installed, K!Removed, HookType

LEMMA RemovedType ==
    /\ K!Removed \in HookType /\ ~K!Removed.on /\ ~K!Removed.rec /\ K!Removed.held = {} /\ ~K!Removed.fn
    /\ ~K!Removed.recfn /\ K!Removed.pending = {} /\ K!Removed.owned = {}
BY DEF K!Removed, HookType, LineSets

\* The recorder starts, or stops and forgets what it had begun.
LEMMA RecordingSet ==
    ASSUME NEW h \in HookType, NEW b \in BOOLEAN
    PROVE  LET g == K!SetRecording(h, b)
           IN  /\ g \in HookType /\ g.on = h.on /\ g.rec = b /\ g.lines = h.lines /\ g.held = h.held
               /\ g.fn = h.fn /\ g.owned = h.owned /\ (g.recfn => h.recfn) /\ g.pending \subseteq h.pending
<1>1. CASE b
  BY <1>1 DEF K!SetRecording, HookType
<1>2. CASE ~b
  BY <1>2 DEF K!SetRecording, HookType
<1> QED
  BY <1>1, <1>2

LEMMA EmptyPage == <<>> \in PageEvents /\ <<>> \in HookEvents /\ NoMark(<<>>) /\ ~Heard(<<>>)
                   /\ \A b \in BOOLEAN : LastMark(<<>>, b)
BY DEF PageEvents, HookEvents, NoMark, Heard, LastMark

LEMMA KeysStart == EdgesInit => KeysInv
<1> SUFFICES ASSUME EdgesInit PROVE KeysInv
  OBVIOUS
<1>1. PICK cfg \in K!Configs : hook = K!Installed(K!Mapping(cfg))
  BY DEF EdgesInit, K!Init
<1>2. /\ down = {} /\ call = {} /\ page = FALSE /\ over = FALSE
      /\ hotkeys = [recording |-> FALSE, was |-> FALSE, at |-> "idle"]
      /\ wires = [hook |-> <<>>, page |-> <<>>, chords |-> 0]
      /\ did = [served |-> {}, twice |-> {}, recorded |-> {}, leaked |-> {}]
  BY DEF EdgesInit, K!Init
<1>3. /\ hook \in HookType /\ hook.on /\ ~hook.rec /\ hook.held = {} /\ ~hook.fn /\ ~hook.recfn
      /\ hook.pending = {} /\ hook.owned = {}
  BY <1>1, InstalledType
<1>4. KeysTypes
  BY <1>2, <1>3, EmptyPage DEF KeysTypes
<1>5. CallFits /\ OffIsEmpty /\ HeldAlive /\ ServedHeld
  BY <1>2, <1>3 DEF CallFits, OffIsEmpty, HeldAlive, ServedHeld
<1>6. RecorderFits
  BY <1>2, <1>3, EmptyPage DEF RecorderFits
<1> QED
  BY <1>4, <1>5, <1>6 DEF KeysInv

LEMMA KeysAreSound == KeysInv => K!KeysSound
<1> SUFFICES ASSUME KeysInv PROVE K!KeysSound
  OBVIOUS
<1> USE DEF KeysInv
<1>1. K!OncePerPress
  BY DEF K!OncePerPress, ServedHeld
<1>2. K!NothingHeld
  <2> SUFFICES ASSUME down = {}, call = {}
               PROVE  hook.held = {} /\ ~hook.fn /\ ~hook.recfn /\ hook.pending = {} /\ hook.owned = {}
    BY DEF K!NothingHeld
  <2>1. \A p : ~Alive(p)
    BY DEF Alive
  <2> QED
    BY <2>1 DEF HeldAlive
<1>3. K!RecorderAgrees
  <2> SUFFICES ASSUME hotkeys.at = "idle", wires = [hook |-> <<>>, page |-> <<>>, chords |-> 0]
               PROVE  (hook.rec => page) /\ (page => hook.rec \/ ~hook.on)
    BY DEF K!RecorderAgrees
  <2>1. NoMark(wires.page) /\ ~Heard(wires.hook) /\ ~(wires.chords > 0)
    BY EmptyPage
  <2> QED
    BY <2>1 DEF RecorderFits
<1> QED
  BY <1>1, <1>2, <1>3 DEF K!KeysSound

(***************************************************************************)
(* The callback.                                                           *)
(***************************************************************************)
\* What an action leaves of the hook may only be held by a key that is down,
\* or by the key in the callback.
Within(g, h, p) ==
    /\ g \in HookType /\ g.on = h.on
    /\ g.held \subseteq h.held \cup {p}
    /\ g.fn \/ g.recfn => h.fn \/ h.recfn \/ p = <<"hardware", "f13">>
    /\ g.pending \subseteq h.pending \cup {p[2]} /\ g.owned \subseteq h.owned \cup {p[2]}

LEMMA NotedWithin ==
    ASSUME NEW h \in HookType, NEW c \in Callbacks, <<c.src, c.key>> \in K!Presses
    PROVE  LET p == <<c.src, c.key>>
               s == K!Noted(h, c)
           IN  /\ Within(s, h, p) /\ s.rec = h.rec /\ s.pending = h.pending /\ s.owned = h.owned
               /\ h.held \subseteq s.held
               /\ K!NewPress(h, c) => p \in s.held /\ p \notin h.held
<1> DEFINE p == <<c.src, c.key>>
           s == K!Noted(h, c)
           held == IF K!AsModifier(h, c) THEN h.held ELSE h.held \cup {p}
           recfn == h.recfn \/ (c.key = "f13" /\ c.rec)
           fn == h.fn \/ (c.key = "f13" /\ K!FnMask(h.lines))
<1>1. c.key = "f13" => p = <<"hardware", "f13">>
  BY DEF K!Presses, K!Keys
<1>2. held \in SUBSET K!Presses /\ held \subseteq h.held \cup {p} /\ h.held \subseteq held
  BY DEF HookType
<1>3. recfn \in BOOLEAN /\ fn \in BOOLEAN
  BY DEF HookType, Callbacks, K!FnMask
<1>4. (recfn => h.recfn \/ c.key = "f13") /\ (fn => h.fn \/ c.key = "f13")
  OBVIOUS
<1>5. K!NewPress(h, c) => p \in held /\ p \notin h.held
  BY DEF K!NewPress
<1> DEFINE a == [h EXCEPT !.held = held]
           b == [a EXCEPT !.recfn = recfn]
<1>6. s = [b EXCEPT !.fn = fn]
  BY DEF K!Noted, HookType
<1> HIDE DEF held, recfn, fn, s, p
<1>7. a \in HookType /\ a.on = h.on /\ a.rec = h.rec /\ a.held = held /\ a.fn = h.fn /\ a.pending = h.pending
      /\ a.owned = h.owned
  BY <1>2 DEF HookType
<1> HIDE DEF a
<1>8. b \in HookType /\ b.on = h.on /\ b.rec = h.rec /\ b.held = held /\ b.fn = h.fn /\ b.recfn = recfn
      /\ b.pending = h.pending /\ b.owned = h.owned
  BY <1>3, <1>7 DEF HookType
<1> HIDE DEF b
<1>9. s \in HookType /\ s.on = h.on /\ s.rec = h.rec /\ s.held = held /\ s.fn = fn /\ s.recfn = recfn
      /\ s.pending = h.pending /\ s.owned = h.owned
  BY <1>3, <1>6, <1>8 DEF HookType
<1> QED
  BY <1>1, <1>2, <1>4, <1>5, <1>9 DEF Within, s, p

\* Only a new press runs its hotkey, or acts in the overview.
LEMMA OnlyNewActs ==
    ASSUME NEW s, NEW c, NEW new \in BOOLEAN,
           LET act == K!Retained(s, c, K!Routed(s, c, K!Decision(s, c, new)))
           IN  act \in {"hotkey", "overview-action"}
    PROVE  new
<1> DEFINE d == K!Decision(s, c, new)
           r == K!Routed(s, c, d)
<1>1. d \in {"pass", "swallow", "recorded", "hotkey", "swallow-hotkey"} /\ (d = "hotkey" => new)
  <2>1. CASE c.key = "ctrl"
    BY <2>1 DEF K!Decision
  <2>2. CASE c.key # "ctrl" /\ s.pending = {c.key}
    BY <2>2 DEF K!Decision
  <2>3. CASE c.key # "ctrl" /\ s.pending # {c.key} /\ c.rec
    BY <2>3 DEF K!Decision
  <2>4. CASE c.key # "ctrl" /\ s.pending # {c.key} /\ ~c.rec
    BY <2>4 DEF K!Decision
  <2> QED
    BY <2>1, <2>2, <2>3, <2>4
<1> HIDE DEF d
<1>2. r \in {"hotkey", "overview-action"} => d = "hotkey"
  BY <1>1 DEF K!Routed
<1> HIDE DEF r
<1>3. r \in {"hotkey", "overview-action"}
  BY DEF K!Retained, r, d
<1> QED
  BY <1>1, <1>2, <1>3

\* Two more entries of the history.
DidType == [served : SUBSET K!Presses, twice : SUBSET K!Presses, recorded : SUBSET K!Presses,
            leaked : SUBSET K!Presses]
LEMMA DidTypes ==
    ASSUME NEW h \in DidType, NEW p \in K!Presses
    PROVE  /\ K!Served(h, p) \in DidType /\ K!Leaked(h, p) \in DidType
           /\ [h EXCEPT !.recorded = @ \cup {p}] \in DidType
           /\ K!Served(h, p).served = h.served \cup {p}
           /\ K!Served(h, p).twice = h.twice \cup (h.served \cap {p})
           /\ K!Leaked(h, p).served = h.served /\ K!Leaked(h, p).twice = h.twice
           /\ [h EXCEPT !.recorded = @ \cup {p}].served = h.served
           /\ [h EXCEPT !.recorded = @ \cup {p}].twice = h.twice
<1> DEFINE twice == h.twice \cup (h.served \cap {p})
           served == h.served \cup {p}
           a == [h EXCEPT !.twice = twice]
<1>1. K!Served(h, p) = [a EXCEPT !.served = served]
  BY DEF K!Served, DidType
<1>2. twice \in SUBSET K!Presses /\ served \in SUBSET K!Presses
  BY DEF DidType
<1> HIDE DEF twice, served
<1>3. a \in DidType /\ a.twice = twice /\ a.served = h.served
  BY <1>2 DEF DidType
<1> HIDE DEF a
<1>4. K!Served(h, p) \in DidType /\ K!Served(h, p).served = served /\ K!Served(h, p).twice = twice
  BY <1>1, <1>2, <1>3 DEF DidType
<1>5. K!Leaked(h, p) \in DidType /\ K!Leaked(h, p).served = h.served /\ K!Leaked(h, p).twice = h.twice
  BY DEF K!Leaked, DidType
<1>6. /\ [h EXCEPT !.recorded = @ \cup {p}] \in DidType
      /\ [h EXCEPT !.recorded = @ \cup {p}].served = h.served
      /\ [h EXCEPT !.recorded = @ \cup {p}].twice = h.twice
  BY DEF DidType
<1> QED
  BY <1>4, <1>5, <1>6 DEF twice, served

\* What a press that is down leaves: all it holds is down.
LEMMA HookOfDown ==
    ASSUME KeysInv, NEW c \in Callbacks, call = {c}, c.down, hook.on, NEW p, p = <<c.src, c.key>>, p \in down,
           Within(hook', hook, p), call' = {}, UNCHANGED <<down, over, hotkeys>>
    PROVE  /\ CallFits' /\ OffIsEmpty' /\ HeldAlive'
<1> USE DEF KeysInv
<1>1. hotkeys.at # "dropped" /\ p \in K!Presses
  BY DEF OffIsEmpty, KeysTypes
<1>2. \A x : Alive(x) => x \in down'
  BY DEF Alive
<1>3. \A x : Alive(x)' <=> x \in down'
  BY DEF Alive
<1>4. \A x \in hook'.held : x \in down'
  BY <1>2 DEF Within, HeldAlive
<1>5. hook'.fn \/ hook'.recfn => <<"hardware", "f13">> \in down'
  BY <1>2 DEF Within, HeldAlive
<1>6. ASSUME NEW k \in hook'.pending \cup hook'.owned  PROVE  \E x \in K!Presses : x[2] = k /\ x \in down'
  <2>1. CASE k = p[2]
    BY <1>1, <2>1
  <2>2. CASE k # p[2]
    <3>1. k \in hook.pending \cup hook.owned
      BY <1>6, <2>2 DEF Within
    <3> QED
      BY <1>2, <3>1 DEF HeldAlive
  <2> QED
    BY <2>1, <2>2
<1>7. HeldAlive'
  BY <1>3, <1>4, <1>5, <1>6 DEF HeldAlive
<1> QED
  BY <1>1, <1>7 DEF CallFits, OffIsEmpty, Within

\* Nothing told to the page, the hook still records if it did.
LEMMA RecorderKept ==
    ASSUME KeysInv, UNCHANGED <<page, hotkeys>>, wires'.page = wires.page, wires'.chords = wires.chords,
           hook'.on = hook.on, hook.rec = hook'.rec \/ (~hook'.rec /\ Heard(wires'.hook)),
           Heard(wires.hook) => Heard(wires'.hook)
    PROVE  RecorderFits'
BY DEF KeysInv, RecorderFits, WillRecord

LEMMA FinishDownKeeps ==
    ASSUME KeysInv, NEW c \in call, c.down, K!FinishDown(c), UNCHANGED <<down, hotkeys, over, inputs>>
    PROVE  KeysInv'
<1> USE DEF KeysInv
<1> DEFINE p == <<c.src, c.key>>
           old == IF over THEN hook ELSE [hook EXCEPT !.owned = {}]
           new == K!NewPress(old, c)
           s == K!Noted(old, c)
           routed == K!Routed(s, c, K!Decision(s, c, new))
           act == K!Retained(s, c, routed)
           t == [s EXCEPT !.owned = K!Owners(s, c, routed)]
<1>1. /\ c \in Callbacks /\ call = {c} /\ hook.on /\ p \in K!Presses /\ p \in down
  BY DEF KeysTypes, CallFits
<1>2. /\ call' = {}
      /\ hook' = IF act = "recorded" THEN [K!SetRecording(t, FALSE) EXCEPT !.pending = {c.key}] ELSE t
      /\ \/ /\ act = "hotkey"
            /\ wires' = K!Queued(wires, [event |-> "hotkey"]) /\ UNCHANGED page
            /\ did' = K!Leaked(K!Served(did, p), p)
         \/ /\ act = "recorded"
            /\ wires' = K!Queued(wires, [event |-> "recorded"]) /\ UNCHANGED page
            /\ did' = [did EXCEPT !.recorded = @ \cup {p}]
         \/ act = "overview-action" /\ did' = K!Served(did, p) /\ UNCHANGED <<wires, page>>
         \/ /\ act = "pass" /\ did' = K!Leaked(did, p)
            /\ (page /\ K!PageTakes(c.key)) \/ UNCHANGED <<wires, page>>
         \/ act \notin {"hotkey", "recorded", "overview-action"} /\ UNCHANGED <<wires, page, did>>
  BY DEF K!FinishDown
<1>3. hook \in HookType /\ did \in DidType /\ wires \in [hook : HookEvents, page : PageEvents, chords : Nat]
  BY DEF KeysTypes, DidType
<1>4. /\ old \in HookType /\ old.on = hook.on /\ old.rec = hook.rec /\ old.held = hook.held /\ old.fn = hook.fn
      /\ old.recfn = hook.recfn /\ old.pending = hook.pending /\ old.owned \subseteq hook.owned
  BY <1>3 DEF HookType
<1>5. act \in {"hotkey", "overview-action"} => new
  BY OnlyNewActs DEF K!NewPress
<1> HIDE DEF old
<1>6. /\ Within(s, old, p) /\ s.rec = old.rec /\ s.pending = old.pending /\ s.owned = old.owned
      /\ old.held \subseteq s.held
      /\ new => p \in s.held /\ p \notin old.held
  BY <1>1, <1>4, NotedWithin
<1>7. K!Owners(s, c, routed) \subseteq s.owned \cup {c.key}
  BY DEF K!Owners
<1> HIDE DEF s, new, routed, act
<1> DEFINE owners == K!Owners(s, c, routed)
<1>8. /\ t \in HookType /\ t.on = s.on /\ t.rec = s.rec /\ t.held = s.held /\ t.fn = s.fn /\ t.recfn = s.recfn
      /\ t.pending = s.pending /\ t.owned = owners
  <2>1. owners \in SUBSET K!Keys /\ s \in HookType
    BY <1>1, <1>6, <1>7 DEF Within, HookType, Callbacks
  <2> HIDE DEF owners
  <2>2. t = [s EXCEPT !.owned = owners]
    BY DEF owners
  <2> QED
    BY <2>1, <2>2 DEF HookType
<1> HIDE DEF t
<1>9. /\ hook' \in HookType /\ hook'.on = t.on /\ hook'.held = t.held /\ hook'.owned = t.owned /\ hook'.fn = t.fn
      /\ hook'.recfn => t.recfn
      /\ hook'.pending \subseteq t.pending \cup {c.key}
      /\ act = "recorded" => ~hook'.rec
      /\ act # "recorded" => hook'.rec = t.rec
  <2>1. CASE act # "recorded"
    BY <1>2, <1>8, <2>1
  <2>2. CASE act = "recorded"
    <3> DEFINE g == K!SetRecording(t, FALSE)
               kept == {c.key}
    <3>1. /\ g \in HookType /\ g.on = t.on /\ g.rec = FALSE /\ g.held = t.held
          /\ g.fn = t.fn /\ g.owned = t.owned /\ (g.recfn => t.recfn) /\ g.pending \subseteq t.pending
      BY <1>8, RecordingSet
    <3>2. kept \in SUBSET K!Keys
      BY <1>1 DEF Callbacks
    <3>3. hook' = [g EXCEPT !.pending = kept]
      BY <1>2, <2>2
    <3> HIDE DEF g, kept
    <3>4. /\ hook' \in HookType /\ hook'.on = g.on /\ hook'.rec = g.rec /\ hook'.held = g.held
          /\ hook'.fn = g.fn /\ hook'.recfn = g.recfn /\ hook'.owned = g.owned /\ hook'.pending = kept
      BY <3>1, <3>2, <3>3 DEF HookType
    <3> QED
      BY <2>2, <3>1, <3>4 DEF kept
  <2> QED
    BY <2>1, <2>2
<1>10. Within(hook', hook, p) /\ hook.held \subseteq hook'.held
  <2>1. p[2] = c.key
    OBVIOUS
  <2> HIDE DEF p, owners
  <2>2. owners \subseteq hook.owned \cup {p[2]}
    BY <1>4, <1>6, <1>7, <2>1 DEF owners
  <2> QED
    BY <1>4, <1>6, <1>8, <1>9, <2>1, <2>2 DEF Within
<1>11. CallFits' /\ OffIsEmpty' /\ HeldAlive'
  BY <1>1, <1>2, <1>10, HookOfDown
<1>12. did' \in DidType /\ ServedHeld'
  <2>1. hotkeys.at # "dropped" /\ did.twice = {} /\ did.served \subseteq hook.held
    BY <1>1 DEF OffIsEmpty, ServedHeld
  <2>2. CASE act \in {"hotkey", "overview-action"}
    <3>1. p \in hook'.held /\ p \notin hook.held
      BY <1>4, <1>5, <1>6, <1>8, <1>9, <2>2
    <3>2. K!Served(did, p) \in DidType /\ K!Served(did, p).served = did.served \cup {p}
          /\ K!Served(did, p).twice = did.twice \cup (did.served \cap {p})
      BY <1>1, <1>3, DidTypes
    <3> DEFINE d == K!Served(did, p)
    <3>3. did' = K!Leaked(d, p) \/ did' = d
      <4>1. CASE act = "hotkey"
        BY <1>2, <4>1
      <4>2. CASE act = "overview-action"
        BY <1>2, <4>2
      <4> QED
        BY <2>2, <4>1, <4>2
    <3> HIDE DEF d, p
    <3>4. d \in DidType /\ d.served = did.served \cup {p} /\ d.twice = did.twice \cup (did.served \cap {p})
      BY <3>2 DEF d
    <3>5. did' \in DidType /\ did'.served = d.served /\ did'.twice = d.twice
      <4>1. K!Leaked(d, p) \in DidType /\ K!Leaked(d, p).served = d.served /\ K!Leaked(d, p).twice = d.twice
        BY <1>1, <3>4, DidTypes
      <4> QED
        BY <3>3, <3>4, <4>1
    <3>6. d.twice = {} /\ d.served \subseteq hook'.held
      BY <1>10, <2>1, <3>1, <3>4
    <3> QED
      BY <3>5, <3>6 DEF ServedHeld
  <2>3. CASE act \notin {"hotkey", "overview-action"}
    <3>1. did' = [did EXCEPT !.recorded = @ \cup {p}] \/ did' = K!Leaked(did, p) \/ did' = did
      BY <1>2, <2>3
    <3>2. did' \in DidType /\ did'.served = did.served /\ did'.twice = did.twice
      <4>1. CASE did' = [did EXCEPT !.recorded = @ \cup {p}]
        <5>1. /\ [did EXCEPT !.recorded = @ \cup {p}] \in DidType
              /\ [did EXCEPT !.recorded = @ \cup {p}].served = did.served
              /\ [did EXCEPT !.recorded = @ \cup {p}].twice = did.twice
          BY <1>1, <1>3, DidTypes
        <5> QED
          BY <4>1, <5>1
      <4>2. CASE did' = K!Leaked(did, p)
        BY <1>1, <1>3, <4>2, DidTypes
      <4> QED
        BY <1>3, <3>1, <4>1, <4>2
    <3> QED
      BY <1>10, <2>1, <3>2 DEF ServedHeld
  <2> QED
    BY <2>2, <2>3
<1>13. /\ wires' \in [hook : HookEvents, page : PageEvents, chords : Nat] /\ page' \in BOOLEAN
       /\ RecorderFits'
  <2>1. hook'.on = hook.on /\ (act # "recorded" => hook'.rec = hook.rec)
    BY <1>4, <1>6, <1>8, <1>9 DEF Within
  <2>2. page \in BOOLEAN /\ LastMark(wires.page, page)
    BY DEF KeysTypes, RecorderFits
  <2>3. CASE act \in {"hotkey", "recorded"}
    <3> DEFINE x == IF act = "hotkey" THEN "hotkey" ELSE "recorded"
               q == Append(wires.hook, [event |-> x])
    <3>1. wires' = [wires EXCEPT !.hook = q] /\ page' = page
      BY <1>2, <2>3 DEF K!Queued
    <3>2. x \in {"hotkey", "recorded"} /\ (act = "recorded" => x = "recorded") /\ wires.hook \in HookEvents
      BY <1>3
    <3> HIDE DEF x
    <3>3. q \in HookEvents /\ (Heard(wires.hook) \/ x = "recorded" => Heard(q))
      BY <3>2, HookHears
    <3> HIDE DEF q
    <3>4. /\ wires' \in [hook : HookEvents, page : PageEvents, chords : Nat]
          /\ wires'.hook = q /\ wires'.page = wires.page /\ wires'.chords = wires.chords
      BY <1>3, <3>1, <3>3
    <3>5. hook.rec \in BOOLEAN /\ hook'.rec \in BOOLEAN
      BY <1>3, <1>9 DEF HookType
    <3>6. RecorderFits'
      <4>1. CASE act = "recorded"
        <5>1. ~hook'.rec /\ Heard(wires'.hook)
          BY <1>9, <3>2, <3>3, <3>4, <4>1
        <5> QED
          BY <2>1, <3>1, <3>4, <5>1, RecorderKept
      <4>2. CASE act # "recorded"
        <5>1. hook.rec = hook'.rec /\ (Heard(wires.hook) => Heard(wires'.hook))
          BY <2>1, <3>3, <3>4, <4>2
        <5> QED
          BY <2>1, <3>1, <3>4, <5>1, RecorderKept
      <4> QED
        BY <4>1, <4>2
    <3> QED
      BY <2>2, <3>1, <3>4, <3>6
  <2>4. CASE act \notin {"hotkey", "recorded"} /\ UNCHANGED <<wires, page>>
    <3>1. RecorderFits'
      BY <2>1, <2>4, RecorderKept
    <3> QED
      BY <1>3, <2>2, <2>4, <3>1
  <2>5. CASE page /\ K!PageTakes(c.key)
    <3> DEFINE w == IF c.key = "esc" THEN <<"stop">> ELSE <<"stop", "saved">>
               q == wires.page \o w
    <3>1. page' = FALSE /\ wires' = [wires EXCEPT !.page = q]
      BY <2>5 DEF K!PageTakes
    <3>2. w \in {<<"stop">>, <<"stop", "saved">>} /\ wires.page \in PageEvents
      BY <1>3
    <3> HIDE DEF w
    <3>3. q \in PageEvents /\ ~NoMark(q) /\ LastMark(q, FALSE)
      BY <3>2, StopAdded
    <3> HIDE DEF q
    <3>4. wires' \in [hook : HookEvents, page : PageEvents, chords : Nat] /\ wires'.page = q
      BY <1>3, <3>1, <3>3
    <3> QED
      BY <3>1, <3>3, <3>4 DEF RecorderFits
  <2> QED
    BY <1>2, <2>3, <2>4, <2>5
<1>14. KeysTypes'
  BY <1>2, <1>9, <1>12, <1>13 DEF KeysTypes, DidType
<1> QED
  BY <1>11, <1>12, <1>13, <1>14

LEMMA FinishUpKeeps ==
    ASSUME KeysInv, NEW c \in call, ~c.down, K!FinishUp(c), UNCHANGED <<down, hotkeys, over, inputs>>
    PROVE  KeysInv'
<1> USE DEF KeysInv
<1> DEFINE p == <<c.src, c.key>>
           bare == hook.pending # {c.key} /\ c.rec /\ c.key = "f13" /\ hook.recfn
           pending == hook.pending \ {c.key}
           held == hook.held \ {p}
           owned == IF over /\ ~hook.rec THEN hook.owned \ {c.key} ELSE {}
           fn == hook.fn /\ c.key # "f13"
           recfn == hook.recfn /\ c.key # "f13"
           s == [hook EXCEPT !.pending = pending, !.held = held, !.owned = owned, !.fn = fn, !.recfn = recfn]
           served == did.served \ {p}
           recorded == did.recorded \ {p}
<1>1. /\ c \in Callbacks /\ call = {c} /\ hook.on /\ p \in K!Presses /\ p \notin down
  BY DEF KeysTypes, CallFits
<1>2. hook \in HookType /\ did \in DidType /\ wires \in [hook : HookEvents, page : PageEvents, chords : Nat]
  BY DEF KeysTypes, DidType
<1>3. /\ call' = {} /\ hook' = IF bare THEN K!SetRecording(s, FALSE) ELSE s
      /\ wires' = IF bare THEN K!Queued(wires, [event |-> "recorded"]) ELSE wires
      /\ did' = [did EXCEPT !.served = served, !.recorded = recorded]
      /\ UNCHANGED page
  BY DEF K!FinishUp
<1>4. /\ pending \in SUBSET K!Keys /\ held \in SUBSET K!Presses /\ owned \in SUBSET K!Keys
      /\ fn \in BOOLEAN /\ recfn \in BOOLEAN
  BY <1>2 DEF HookType
<1>5. /\ pending \subseteq hook.pending \ {c.key} /\ held = hook.held \ {p}
      /\ owned \subseteq hook.owned \ {c.key} /\ (fn => hook.fn /\ c.key # "f13")
      /\ (recfn => hook.recfn /\ c.key # "f13")
  OBVIOUS
<1>6. served \in SUBSET K!Presses /\ recorded \in SUBSET K!Presses /\ served = did.served \ {p}
  BY <1>2 DEF DidType
<1> HIDE DEF bare, pending, held, owned, fn, recfn, served, recorded
<1>7. /\ s \in HookType /\ s.on = hook.on /\ s.rec = hook.rec /\ s.held = held /\ s.fn = fn /\ s.recfn = recfn
      /\ s.pending = pending /\ s.owned = owned
  <2> DEFINE a == [hook EXCEPT !.pending = pending]
             b == [a EXCEPT !.held = held]
             d == [b EXCEPT !.owned = owned]
             e == [d EXCEPT !.fn = fn]
  <2>1. a \in HookType /\ a.on = hook.on /\ a.rec = hook.rec /\ a.pending = pending
    BY <1>2, <1>4 DEF HookType
  <2>2. s = [e EXCEPT !.recfn = recfn]
    OBVIOUS
  <2> HIDE DEF a, s
  <2>3. b \in HookType /\ b.on = hook.on /\ b.rec = hook.rec /\ b.pending = pending /\ b.held = held
    BY <1>4, <2>1 DEF HookType
  <2> HIDE DEF b
  <2>4. /\ d \in HookType /\ d.on = hook.on /\ d.rec = hook.rec /\ d.pending = pending /\ d.held = held
        /\ d.owned = owned
    BY <1>4, <2>3 DEF HookType
  <2> HIDE DEF d
  <2>5. /\ e \in HookType /\ e.on = hook.on /\ e.rec = hook.rec /\ e.pending = pending /\ e.held = held
        /\ e.owned = owned /\ e.fn = fn
    BY <1>4, <2>4 DEF HookType
  <2> HIDE DEF e
  <2> QED
    BY <1>4, <2>2, <2>5 DEF HookType
<1> HIDE DEF s
<1>8. /\ hook' \in HookType /\ hook'.on = s.on /\ hook'.held = s.held /\ hook'.fn = s.fn /\ hook'.owned = s.owned
      /\ (hook'.recfn => s.recfn) /\ hook'.pending \subseteq s.pending
      /\ bare => ~hook'.rec
      /\ ~bare => hook'.rec = s.rec
  <2>1. CASE bare
    BY <1>3, <1>7, <2>1, RecordingSet
  <2>2. CASE ~bare
    BY <1>3, <1>7, <2>2
  <2> QED
    BY <2>1, <2>2
<1>9. \A x : Alive(x) => x \in down \/ x = p
  BY <1>1 DEF Alive
<1>10. \A x : Alive(x)' <=> x \in down
  BY <1>3 DEF Alive
<1>11. HeldAlive'
  <2>1. \A x \in hook'.held : x \in down
    BY <1>5, <1>7, <1>8, <1>9 DEF HeldAlive
  <2>2. hook'.fn \/ hook'.recfn => <<"hardware", "f13">> \in down
    <3>1. SUFFICES ASSUME hook'.fn \/ hook'.recfn PROVE <<"hardware", "f13">> \in down
      OBVIOUS
    <3>2. c.key # "f13" /\ (hook.fn \/ hook.recfn)
      BY <1>5, <1>7, <1>8, <3>1
    <3>3. <<"hardware", "f13">> # p
      BY <3>2
    <3> QED
      BY <1>9, <3>2, <3>3 DEF HeldAlive
  <2>3. ASSUME NEW k \in hook'.pending \cup hook'.owned  PROVE  \E x \in K!Presses : x[2] = k /\ x \in down
    <3>1. k \in hook.pending \cup hook.owned /\ k # c.key
      BY <1>5, <1>7, <1>8
    <3>2. PICK x \in K!Presses : x[2] = k /\ Alive(x)
      BY <3>1 DEF HeldAlive
    <3>3. x # p
      BY <3>1, <3>2
    <3> QED
      BY <1>9, <3>2, <3>3
  <2> QED
    BY <1>10, <2>1, <2>2, <2>3 DEF HeldAlive
<1>12. did' \in DidType /\ ServedHeld'
  <2>1. did' \in DidType /\ did'.served = served /\ did'.twice = did.twice
    <3> DEFINE d == [did EXCEPT !.served = served]
    <3>1. d \in DidType /\ d.served = served /\ d.twice = did.twice
      BY <1>2, <1>6 DEF DidType
    <3>2. did' = [d EXCEPT !.recorded = recorded]
      BY <1>3
    <3> HIDE DEF d
    <3> QED
      BY <1>6, <3>1, <3>2 DEF DidType
  <2> QED
    BY <1>5, <1>6, <1>7, <1>8, <2>1 DEF ServedHeld
<1>13. wires' \in [hook : HookEvents, page : PageEvents, chords : Nat] /\ RecorderFits'
  <2>1. CASE ~bare
    BY <1>2, <1>3, <1>7, <1>8, <2>1, RecorderKept
  <2>2. CASE bare
    <3> DEFINE q == Append(wires.hook, [event |-> "recorded"])
    <3>1. wires' = [wires EXCEPT !.hook = q] /\ wires.hook \in HookEvents
      BY <1>2, <1>3, <2>2 DEF K!Queued
    <3>2. q \in HookEvents /\ Heard(q)
      BY <3>1, HookHears
    <3> HIDE DEF q
    <3>3. /\ wires' \in [hook : HookEvents, page : PageEvents, chords : Nat]
          /\ wires'.hook = q /\ wires'.page = wires.page /\ wires'.chords = wires.chords
      BY <1>2, <3>1, <3>2
    <3>4. ~hook'.rec /\ hook'.on = hook.on /\ hook.rec \in BOOLEAN
      BY <1>2, <1>7, <1>8, <2>2 DEF HookType
    <3> QED
      BY <1>3, <3>2, <3>3, <3>4, RecorderKept
  <2> QED
    BY <2>1, <2>2
<1>14. CallFits' /\ OffIsEmpty'
  BY <1>1, <1>3, <1>7, <1>8 DEF CallFits, OffIsEmpty
<1>15. KeysTypes'
  BY <1>3, <1>8, <1>12, <1>13 DEF KeysTypes, DidType
<1> QED
  BY <1>11, <1>12, <1>13, <1>14, <1>15

(***************************************************************************)
(* Keys that go down and up.                                               *)
(***************************************************************************)
LEMMA KeyEnters ==
    ASSUME KeysInv, NEW p \in K!Presses, NEW isDown \in BOOLEAN, NEW altgr \in BOOLEAN,
           K!Enters(p, isDown, altgr), isDown <=> p \in down', call = {}, hook' = hook,
           down' \subseteq K!Presses, \A x \in down : x \in down' \/ (x = p /\ (hook.on => call' # {})),
           UNCHANGED <<hotkeys, page, wires, over>>
    PROVE  /\ call' = {} \/ \E c \in Callbacks : call' = {c}
           /\ CallFits' /\ OffIsEmpty' /\ HeldAlive' /\ RecorderFits'
<1> USE DEF KeysInv
<1> DEFINE c == [src |-> p[1], key |-> p[2], down |-> isDown, rec |-> hook.rec, altgr |-> altgr]
<1>1. p = <<p[1], p[2]>> /\ p[1] \in {"hardware", "remapper"} /\ p[2] \in K!Keys
  BY DEF K!Presses, K!Keys
<1>2. c \in Callbacks /\ <<c.src, c.key>> = p /\ c.down = isDown
  BY <1>1 DEF Callbacks, KeysTypes, HookType
<1>3. call' = IF hook.on THEN {c} ELSE {}
  BY DEF K!Enters
<1> HIDE DEF c
<1>4. CallFits'
  BY <1>2, <1>3 DEF CallFits
<1>5. OffIsEmpty'
  BY <1>3 DEF OffIsEmpty
<1>6. HeldAlive'
  <2>1. CASE hook.on
    <3>1. \A x : Alive(x) => Alive(x)'
      BY <1>2, <1>3, <2>1 DEF Alive
    <3> QED
      BY <3>1 DEF HeldAlive
  <2>2. CASE ~hook.on
    BY <2>2 DEF HeldAlive, OffIsEmpty
  <2> QED
    BY <2>1, <2>2
<1>7. RecorderFits'
  BY DEF RecorderFits, WillRecord
<1> QED
  BY <1>2, <1>3, <1>4, <1>5, <1>6, <1>7

LEMMA PressKeeps ==
    ASSUME KeysInv, NEW p \in K!Presses, K!Press(p) \/ K!Repeat(p)
    PROVE  KeysInv'
<1> USE DEF KeysInv
<1>1. PICK g \in BOOLEAN : K!Enters(p, TRUE, g)
  BY DEF K!Press, K!Repeat, K!AltGrs
<1>2. /\ call = {} /\ down' = down \cup {p} /\ down \subseteq K!Presses
      /\ UNCHANGED <<hook, hotkeys, page, wires, over, did>>
  BY DEF K!Press, K!Repeat, KeysTypes
<1>3. /\ call' = {} \/ \E c \in Callbacks : call' = {c}
      /\ CallFits' /\ OffIsEmpty' /\ HeldAlive' /\ RecorderFits'
  <2>1. p \in down' /\ down' \subseteq K!Presses /\ \A x \in down : x \in down'
    BY <1>2
  <2> QED
    BY <1>1, <1>2, <2>1, KeyEnters
<1>4. KeysTypes'
  BY <1>2, <1>3 DEF KeysTypes
<1>5. ServedHeld'
  BY <1>2 DEF ServedHeld
<1> QED
  BY <1>3, <1>4, <1>5

LEMMA ReleaseKeeps ==
    ASSUME KeysInv, NEW p \in K!Presses, K!Release(p)
    PROVE  KeysInv'
<1> USE DEF KeysInv
<1>1. /\ call = {} /\ down' = down \ {p} /\ down \subseteq K!Presses /\ K!Enters(p, FALSE, FALSE)
      /\ did' = IF hook.on THEN did ELSE [did EXCEPT !.served = @ \ {p}, !.recorded = @ \ {p}]
      /\ UNCHANGED <<hook, hotkeys, page, wires, over>>
  BY DEF K!Release, KeysTypes
<1>2. /\ call' = {} \/ \E c \in Callbacks : call' = {c}
      /\ CallFits' /\ OffIsEmpty' /\ HeldAlive' /\ RecorderFits'
  <2>1. p \notin down' /\ down' \subseteq K!Presses
    BY <1>1
  <2>2. hook.on => call' # {}
    BY <1>1 DEF K!Enters
  <2>3. \A x \in down : x \in down' \/ (x = p /\ (hook.on => call' # {}))
    BY <1>1, <2>2
  <2>4. FALSE <=> p \in down'
    BY <2>1
  <2> QED
    BY <1>1, <2>1, <2>3, <2>4, KeyEnters
<1>3. did' \in DidType /\ ServedHeld'
  <2>1. did \in DidType
    BY DEF KeysTypes, DidType
  <2>2. CASE hook.on
    BY <1>1, <2>1, <2>2 DEF ServedHeld
  <2>3. CASE ~hook.on
    <3> DEFINE served == did.served \ {p}
               recorded == did.recorded \ {p}
               d == [did EXCEPT !.served = served]
    <3>1. served \in SUBSET K!Presses /\ recorded \in SUBSET K!Presses /\ served \subseteq did.served
      BY <2>1 DEF DidType
    <3>2. did' = [d EXCEPT !.recorded = recorded]
      BY <1>1, <2>1, <2>3 DEF DidType
    <3> HIDE DEF served, recorded
    <3>3. d \in DidType /\ d.served = served /\ d.twice = did.twice
      BY <2>1, <3>1 DEF DidType
    <3> HIDE DEF d
    <3>4. did' \in DidType /\ did'.served = served /\ did'.twice = did.twice
      BY <3>1, <3>2, <3>3 DEF DidType
    <3> QED
      BY <1>1, <3>1, <3>4 DEF ServedHeld
  <2> QED
    BY <2>2, <2>3
<1>4. KeysTypes'
  BY <1>1, <1>2, <1>3 DEF KeysTypes, DidType
<1> QED
  BY <1>2, <1>3, <1>4

(***************************************************************************)
(* The page.                                                               *)
(***************************************************************************)
\* The page speaks: what it said last is on its way.
LEMMA PageSpeaks ==
    ASSUME KeysInv, NEW q \in PageEvents, NEW n \in Nat, NEW b \in BOOLEAN,
           ~NoMark(q), LastMark(q, b), page' = b, wires' = [wires EXCEPT !.chords = n, !.page = q],
           UNCHANGED <<hook, down, call, hotkeys, over, did>>
    PROVE  KeysInv'
<1> USE DEF KeysInv
<1> DEFINE w == [wires EXCEPT !.chords = n]
<1>1. /\ w \in [hook : HookEvents, page : PageEvents, chords : Nat]
      /\ wires' = [w EXCEPT !.page = q]
  BY DEF KeysTypes
<1> HIDE DEF w
<1>2. wires' \in [hook : HookEvents, page : PageEvents, chords : Nat] /\ wires'.page = q
  BY <1>1
<1>3. KeysTypes'
  BY <1>2 DEF KeysTypes
<1>4. RecorderFits'
  BY <1>2 DEF RecorderFits
<1> QED
  BY <1>3, <1>4 DEF CallFits, OffIsEmpty, HeldAlive, Alive, ServedHeld

LEMMA PageKeeps ==
    ASSUME KeysInv, K!StartRecording \/ K!CancelRecording \/ K!Chorded
    PROVE  KeysInv'
<1> USE DEF KeysInv
<1> DEFINE q == wires.page
<1>1. wires \in [hook : HookEvents, page : PageEvents, chords : Nat] /\ q \in PageEvents /\ wires.chords \in Nat
  BY DEF KeysTypes
<1>2. CASE K!StartRecording
  <2> DEFINE r == Append(q, "start")
  <2>1. r \in PageEvents /\ ~NoMark(r) /\ LastMark(r, TRUE)
    BY <1>1, MarkAdded
  <2>2. wires' = [wires EXCEPT !.chords = wires.chords, !.page = r] /\ page' = TRUE
    BY <1>1, <1>2 DEF K!StartRecording
  <2> HIDE DEF r
  <2> QED
    BY <1>1, <1>2, <2>1, <2>2, PageSpeaks DEF K!StartRecording
<1>3. CASE K!CancelRecording
  <2> DEFINE r == Append(q, "stop")
  <2>1. r \in PageEvents /\ ~NoMark(r) /\ LastMark(r, FALSE)
    BY <1>1, MarkAdded
  <2>2. wires' = [wires EXCEPT !.chords = wires.chords, !.page = r] /\ page' = FALSE
    BY <1>1, <1>3 DEF K!CancelRecording
  <2> HIDE DEF r
  <2> QED
    BY <1>1, <1>3, <2>1, <2>2, PageSpeaks DEF K!CancelRecording
<1>4. CASE K!Chorded /\ page
  <2> DEFINE r == q \o <<"stop", "saved">>
             n == wires.chords - 1
  <2>1. r \in PageEvents /\ ~NoMark(r) /\ LastMark(r, FALSE)
    BY <1>1, StopAdded
  <2>2. n \in Nat /\ page' = FALSE
    BY <1>1, <1>4 DEF K!Chorded
  <2>3. wires' = [wires EXCEPT !.chords = n, !.page = r]
    BY <1>4 DEF K!Chorded
  <2> HIDE DEF r, n
  <2> QED
    BY <1>4, <2>1, <2>2, <2>3, PageSpeaks DEF K!Chorded
<1>5. CASE K!Chorded /\ ~page
  <2> DEFINE n == wires.chords - 1
  <2>1. n \in Nat /\ page' = page /\ q \o <<>> = q
    <3>1. n \in Nat
      BY <1>1, <1>5 DEF K!Chorded
    <3>2. page' = page
      BY <1>5 DEF K!Chorded, KeysTypes
    <3>3. q \o <<>> = q
      BY <1>1, ConcatEmptySeq DEF PageEvents
    <3> QED
      BY <3>1, <3>2, <3>3
  <2>2. wires' = [wires EXCEPT !.chords = n]
    BY <1>1, <1>5, <2>1 DEF K!Chorded
  <2> HIDE DEF n
  <2>3. /\ wires' \in [hook : HookEvents, page : PageEvents, chords : Nat]
        /\ wires'.page = wires.page /\ wires'.hook = wires.hook
    BY <1>1, <2>1, <2>2
  <2>4. UNCHANGED <<hook, down, call, hotkeys, over, did>>
    BY <1>5 DEF K!Chorded
  <2>5. KeysTypes'
    BY <2>1, <2>3, <2>4 DEF KeysTypes
  <2>6. RecorderFits'
    BY <1>5, <2>1, <2>3, <2>4 DEF RecorderFits
  <2> QED
    BY <2>4, <2>5, <2>6 DEF CallFits, OffIsEmpty, HeldAlive, Alive, ServedHeld
<1> QED
  BY <1>2, <1>3, <1>4, <1>5

(***************************************************************************)
(* The overview and the daemon.                                            *)
(***************************************************************************)
\* The hook holds no more than it did, or is empty.
LEMMA HookSmaller ==
    ASSUME KeysInv, hook' \in HookType, hook'.held \subseteq hook.held, hook'.fn => hook.fn,
           hook'.recfn => hook.recfn, hook'.pending \subseteq hook.pending,
           hook'.owned \subseteq hook.owned, UNCHANGED <<down, call>>,
           call = {} \/ hook'.on = hook.on,
           ~hook.on => ~hook'.on \/ hook'.held = {},
           ~hook'.on => /\ hook'.held = {} /\ ~hook'.fn /\ ~hook'.recfn /\ hook'.pending = {} /\ hook'.owned = {},
           hotkeys'.at = "dropped" => ~hook'.on
    PROVE  CallFits' /\ OffIsEmpty' /\ HeldAlive'
<1> USE DEF KeysInv
<1>1. \A x : Alive(x)' <=> Alive(x)
  BY DEF Alive
<1>2. HeldAlive'
  BY <1>1 DEF HeldAlive
<1>3. CallFits'
  BY DEF CallFits
<1>4. OffIsEmpty'
  BY DEF OffIsEmpty, CallFits
<1> QED
  BY <1>2, <1>3, <1>4

LEMMA ToggleKeeps == ASSUME KeysInv, K!ToggleOverview PROVE KeysInv'
<1> USE DEF KeysInv
<1>1. /\ hook \in HookType /\ over' \in BOOLEAN
      /\ hook' = IF over THEN [hook EXCEPT !.owned = {}] ELSE hook
      /\ UNCHANGED <<down, call, hotkeys, page, wires, did>>
  BY DEF K!ToggleOverview, KeysTypes
<1>2. /\ hook' \in HookType /\ hook'.on = hook.on /\ hook'.rec = hook.rec /\ hook'.held = hook.held
      /\ hook'.fn = hook.fn /\ hook'.recfn = hook.recfn /\ hook'.pending = hook.pending
      /\ hook'.owned \subseteq hook.owned
  BY <1>1 DEF HookType
<1>3. CallFits' /\ OffIsEmpty' /\ HeldAlive'
  <2>1. hotkeys'.at = "dropped" => ~hook'.on
    BY <1>1, <1>2 DEF OffIsEmpty
  <2>2. ~hook'.on => /\ hook'.held = {} /\ ~hook'.fn /\ ~hook'.recfn /\ hook'.pending = {} /\ hook'.owned = {}
    BY <1>2 DEF OffIsEmpty
  <2> QED
    BY <1>1, <1>2, <2>1, <2>2, HookSmaller
<1>4. RecorderFits'
  BY <1>1, <1>2, RecorderKept
<1>5. KeysTypes'
  BY <1>1, <1>2 DEF KeysTypes
<1> QED
  BY <1>1, <1>2, <1>3, <1>4, <1>5 DEF ServedHeld

LEMMA TakePageKeeps == ASSUME KeysInv, K!TakePage PROVE KeysInv'
<1> USE DEF KeysInv
<1> DEFINE q == wires.page
           r == Tail(q)
           m == Head(q)
<1>1. /\ hook \in HookType /\ page \in BOOLEAN /\ q \in PageEvents /\ LastMark(q, page)
      /\ wires \in [hook : HookEvents, page : PageEvents, chords : Nat]
      /\ hotkeys \in [recording : BOOLEAN, was : BOOLEAN, at : {"idle", "reload", "dropped", "installed"}]
      /\ q # <<>> /\ hotkeys.at = "idle" /\ ~hotkeys.was
      /\ wires' = [wires EXCEPT !.page = r]
      /\ UNCHANGED <<down, call, page, over, did>>
  BY DEF K!TakePage, KeysTypes, RecorderFits
<1>2. /\ r \in PageEvents /\ m \in {"start", "stop", "saved"} /\ LastMark(r, page)
      /\ ~Mark(m) => (NoMark(r) <=> NoMark(q))
      /\ Mark(m) /\ NoMark(r) => (m = "start" <=> page)
  BY <1>1, MarkTaken
<1>3. \/ m = "start" /\ hook' = K!SetRecording(hook, TRUE) /\ hotkeys' = [hotkeys EXCEPT !.recording = TRUE]
      \/ m = "stop" /\ hook' = K!SetRecording(hook, FALSE) /\ hotkeys' = [hotkeys EXCEPT !.recording = FALSE]
      \/ m = "saved" /\ hotkeys' = [hotkeys EXCEPT !.at = "reload"] /\ UNCHANGED hook
  BY <1>2 DEF K!TakePage
<1> HIDE DEF r, m
<1>4. /\ wires' \in [hook : HookEvents, page : PageEvents, chords : Nat]
      /\ wires'.page = r /\ wires'.hook = wires.hook /\ wires'.chords = wires.chords
  BY <1>1, <1>2
<1>5. /\ hook' \in HookType /\ hook'.on = hook.on /\ hook'.held = hook.held /\ hook'.fn = hook.fn
      /\ hook'.owned = hook.owned /\ (hook'.recfn => hook.recfn) /\ hook'.pending \subseteq hook.pending
      /\ m = "start" => hook'.rec
      /\ m = "stop" => ~hook'.rec
      /\ m = "saved" => hook'.rec = hook.rec
  <2>1. CASE m = "saved" /\ UNCHANGED hook
    BY <1>1, <2>1
  <2>2. CASE m = "start" /\ hook' = K!SetRecording(hook, TRUE)
    BY <1>1, <2>2, RecordingSet
  <2>3. CASE m = "stop" /\ hook' = K!SetRecording(hook, FALSE)
    BY <1>1, <2>3, RecordingSet
  <2> QED
    BY <1>3, <2>1, <2>2, <2>3
<1>6. /\ hotkeys' \in [recording : BOOLEAN, was : BOOLEAN, at : {"idle", "reload", "dropped", "installed"}]
      /\ ~hotkeys'.was /\ hotkeys'.at \in {"idle", "reload"}
      /\ m = "start" => hotkeys'.recording
      /\ m = "stop" => ~hotkeys'.recording
      /\ m = "saved" => hotkeys'.recording = hotkeys.recording
  BY <1>1, <1>3
<1>7. CallFits' /\ OffIsEmpty' /\ HeldAlive'
  <2>1. ~hook'.on => /\ hook'.held = {} /\ ~hook'.fn /\ ~hook'.recfn /\ hook'.pending = {} /\ hook'.owned = {}
    BY <1>5 DEF OffIsEmpty
  <2> QED
    BY <1>1, <1>5, <1>6, <2>1, HookSmaller
<1>8. RecorderFits'
  <2>1. NoMark(r) /\ ~page => ~hook'.rec /\ ~hotkeys'.recording
    BY <1>2, <1>5, <1>6 DEF Mark, RecorderFits
  <2>2. NoMark(r) /\ page =>
           \/ wires.chords > 0
           \/ /\ hotkeys'.recording
              /\ hook'.rec \/ ~hook'.on \/ Heard(wires.hook)
    <3>1. CASE m = "saved"
      BY <1>1, <1>2, <1>5, <1>6, <3>1 DEF Mark, RecorderFits, WillRecord
    <3>2. CASE m # "saved"
      BY <1>2, <1>5, <1>6, <3>2 DEF Mark
    <3> QED
      BY <3>1, <3>2
  <2> QED
    BY <1>1, <1>2, <1>4, <1>6, <2>1, <2>2 DEF RecorderFits, WillRecord
<1>9. KeysTypes'
  BY <1>1, <1>4, <1>5, <1>6 DEF KeysTypes
<1>10. ServedHeld'
  BY <1>1, <1>5 DEF ServedHeld
<1> QED
  BY <1>7, <1>8, <1>9, <1>10

LEMMA TakeHookKeeps == ASSUME KeysInv, K!TakeHook PROVE KeysInv'
<1> USE DEF KeysInv
<1> DEFINE q == wires.hook
           r == Tail(q)
           heard == Head(q).event = "recorded" /\ hotkeys.recording
           n == IF heard THEN wires.chords + 1 ELSE wires.chords
           rec == hotkeys.recording /\ ~heard
<1>1. /\ q \in HookEvents /\ q # <<>> /\ wires.chords \in Nat /\ hotkeys.at = "idle" /\ ~hotkeys.was
      /\ wires \in [hook : HookEvents, page : PageEvents, chords : Nat]
      /\ hotkeys \in [recording : BOOLEAN, was : BOOLEAN, at : {"idle", "reload", "dropped", "installed"}]
      /\ UNCHANGED <<hook, down, call, page, over, did>>
  BY DEF K!TakeHook, KeysTypes, RecorderFits
<1>2. /\ wires' = [wires EXCEPT !.hook = r, !.chords = n]
      /\ hotkeys' = [hotkeys EXCEPT !.recording = rec]
  BY <1>1 DEF K!TakeHook
<1>3. r \in HookEvents /\ (Heard(q) /\ Head(q).event # "recorded" => Heard(r))
  BY <1>1, HookTaken
<1>4. n \in Nat /\ (heard => n > 0) /\ (~heard => n = wires.chords) /\ rec \in BOOLEAN
      /\ (rec => hotkeys.recording) /\ (~heard => rec = hotkeys.recording)
      /\ (~heard => Head(q).event # "recorded" \/ ~hotkeys.recording)
  BY <1>1
<1> HIDE DEF r, heard, n, rec
<1>5. /\ wires' \in [hook : HookEvents, page : PageEvents, chords : Nat]
      /\ wires'.page = wires.page /\ wires'.hook = r /\ wires'.chords = n
  <2> DEFINE w == [wires EXCEPT !.hook = r]
  <2>1. /\ w \in [hook : HookEvents, page : PageEvents, chords : Nat] /\ w.page = wires.page /\ w.hook = r
        /\ wires' = [w EXCEPT !.chords = n]
    BY <1>1, <1>2, <1>3
  <2> HIDE DEF w
  <2> QED
    BY <1>4, <2>1
<1>6. /\ hotkeys' \in [recording : BOOLEAN, was : BOOLEAN, at : {"idle", "reload", "dropped", "installed"}]
      /\ hotkeys'.at = "idle" /\ ~hotkeys'.was /\ hotkeys'.recording = rec
  BY <1>1, <1>2, <1>4
<1>7. RecorderFits'
  <2>1. CASE heard
    BY <1>1, <1>4, <1>5, <1>6, <2>1 DEF RecorderFits
  <2>2. CASE ~heard
    BY <1>1, <1>3, <1>4, <1>5, <1>6, <2>2 DEF RecorderFits, WillRecord
  <2> QED
    BY <2>1, <2>2
<1>8. KeysTypes'
  BY <1>1, <1>5, <1>6 DEF KeysTypes
<1>9. CallFits' /\ OffIsEmpty' /\ HeldAlive' /\ ServedHeld'
  BY <1>1, <1>6 DEF CallFits, OffIsEmpty, HeldAlive, Alive, ServedHeld
<1> QED
  BY <1>7, <1>8, <1>9

LEMMA ReloadKeeps ==
    ASSUME KeysInv, K!DropHook \/ K!InstallHook \/ K!RestoreRecording
    PROVE  KeysInv'
<1> USE DEF KeysInv
<1> DEFINE HotkeysType == [recording : BOOLEAN, was : BOOLEAN, at : {"idle", "reload", "dropped", "installed"}]
<1>1. hook \in HookType /\ hotkeys \in HotkeysType /\ did \in DidType
  BY DEF KeysTypes, DidType
<1>2. CASE K!DropHook
  <2>1. /\ hotkeys.at = "reload" /\ call = {} /\ hook' = K!Removed
        /\ UNCHANGED <<down, call, page, wires, over, did>>
    BY <1>2 DEF K!DropHook
  <2>2. /\ hotkeys' \in HotkeysType /\ hotkeys'.at = "dropped" /\ hotkeys'.was = hotkeys.recording
        /\ hotkeys'.recording = hotkeys.recording
    <3> DEFINE h == [hotkeys EXCEPT !.at = "dropped"]
    <3>1. h \in HotkeysType /\ h.at = "dropped" /\ h.recording = hotkeys.recording
      BY <1>1
    <3>2. hotkeys' = [h EXCEPT !.was = hotkeys.recording]
      BY <1>2 DEF K!DropHook
    <3> HIDE DEF h
    <3> QED
      BY <1>1, <3>1, <3>2
  <2>3. CallFits' /\ OffIsEmpty' /\ HeldAlive'
    BY <2>1, <2>2, RemovedType DEF CallFits, OffIsEmpty, HeldAlive
  <2>4. RecorderFits'
    BY <2>1, <2>2, RemovedType DEF RecorderFits, WillRecord
  <2>5. KeysTypes'
    BY <2>1, <2>2, RemovedType DEF KeysTypes
  <2> QED
    BY <2>1, <2>2, <2>3, <2>4, <2>5 DEF ServedHeld
<1>3. CASE K!InstallHook
  <2>1. /\ hotkeys.at = "dropped" /\ call = {} /\ did' = [did EXCEPT !.served = {}]
        /\ UNCHANGED <<down, call, page, wires, over>>
    BY <1>3 DEF K!InstallHook, OffIsEmpty
  <2>2. /\ hook' \in HookType /\ ~hook'.rec /\ hook'.held = {} /\ ~hook'.fn /\ ~hook'.recfn
        /\ hook'.pending = {} /\ hook'.owned = {}
    BY <1>3, InstalledType, RemovedType DEF K!InstallHook
  <2>3. /\ hotkeys' \in HotkeysType /\ hotkeys'.at = "installed" /\ hotkeys'.was = hotkeys.was
        /\ hotkeys'.recording = FALSE
    <3> DEFINE h == [hotkeys EXCEPT !.at = "installed"]
    <3>1. h \in HotkeysType /\ h.at = "installed" /\ h.was = hotkeys.was
      BY <1>1
    <3>2. hotkeys' = [h EXCEPT !.recording = FALSE]
      BY <1>3 DEF K!InstallHook
    <3> HIDE DEF h
    <3> QED
      BY <1>1, <3>1, <3>2
  <2>4. CallFits' /\ OffIsEmpty' /\ HeldAlive'
    BY <2>1, <2>2, <2>3 DEF CallFits, OffIsEmpty, HeldAlive
  <2>5. RecorderFits'
    BY <2>1, <2>2, <2>3 DEF RecorderFits, WillRecord
  <2>6. did' \in DidType /\ did'.served = {} /\ did'.twice = did.twice
    BY <1>1, <2>1 DEF DidType
  <2>7. KeysTypes'
    BY <2>1, <2>2, <2>3, <2>6 DEF KeysTypes, DidType
  <2> QED
    BY <2>4, <2>5, <2>6, <2>7 DEF ServedHeld
<1>4. CASE K!RestoreRecording
  <2>1. /\ hotkeys.at = "installed" /\ UNCHANGED <<down, call, page, wires, over, did>>
        /\ hook' = IF hotkeys.was THEN K!SetRecording(hook, TRUE) ELSE hook
    BY <1>4 DEF K!RestoreRecording
  <2>2. /\ hook' \in HookType /\ hook'.on = hook.on /\ hook'.held = hook.held /\ hook'.fn = hook.fn
        /\ hook'.owned = hook.owned /\ (hook'.recfn => hook.recfn) /\ hook'.pending \subseteq hook.pending
        /\ hotkeys.was => hook'.rec
        /\ ~hotkeys.was => hook'.rec = hook.rec
    BY <1>1, <2>1, RecordingSet
  <2>3. /\ hotkeys' \in HotkeysType /\ hotkeys'.at = "idle" /\ ~hotkeys'.was
        /\ hotkeys'.recording = hotkeys.was
    <3> DEFINE h == [hotkeys EXCEPT !.at = "idle"]
               g == [h EXCEPT !.was = FALSE]
    <3>1. h \in HotkeysType /\ h.at = "idle" /\ hotkeys.was \in BOOLEAN
      BY <1>1
    <3>2. hotkeys' = [g EXCEPT !.recording = hotkeys.was]
      BY <1>4 DEF K!RestoreRecording
    <3> HIDE DEF h
    <3>3. g \in HotkeysType /\ g.at = "idle" /\ ~g.was
      BY <3>1
    <3> HIDE DEF g
    <3> QED
      BY <3>1, <3>2, <3>3
  <2>4. CallFits' /\ OffIsEmpty' /\ HeldAlive'
    <3>1. ~hook'.on => /\ hook'.held = {} /\ ~hook'.fn /\ ~hook'.recfn /\ hook'.pending = {} /\ hook'.owned = {}
      BY <2>2 DEF OffIsEmpty
    <3> QED
      BY <2>1, <2>2, <2>3, <3>1, HookSmaller
  <2>5. RecorderFits'
    BY <2>1, <2>2, <2>3 DEF RecorderFits, WillRecord
  <2>6. KeysTypes'
    BY <2>1, <2>2, <2>3 DEF KeysTypes
  <2> QED
    BY <2>1, <2>2, <2>4, <2>5, <2>6 DEF ServedHeld
<1> QED
  BY <1>2, <1>3, <1>4

LEMMA KeysStep == KeysInv /\ [EdgesNext]_edgeVars => KeysInv'
<1> SUFFICES ASSUME KeysInv, [EdgesNext]_edgeVars PROVE KeysInv'
  OBVIOUS
<1>1. CASE UNCHANGED keysVars
  BY <1>1 DEF keysVars, KeysInv, KeysTypes, CallFits, OffIsEmpty, HeldAlive, Alive, ServedHeld,
              RecorderFits, WillRecord
<1>2. CASE K!Next
  <2>1. K!Finish => KeysInv'
    BY FinishDownKeeps, FinishUpKeeps DEF K!Finish
  <2> QED
    BY <1>2, <2>1, PressKeeps, ReleaseKeeps, PageKeeps, ToggleKeeps, TakePageKeeps, TakeHookKeeps,
       ReloadKeeps DEF K!Next
<1> QED
  BY <1>1, <1>2 DEF EdgesNext, edgeVars

(***************************************************************************)
(* Gestures.                                                               *)
(***************************************************************************)
Phases == {"unborn", "running", "told", "ended"}
FaultKinds == {"early", "against", "late"}
Ways == {"ScrollUp", "ScrollDown", "SwipeRight", "SwipeLeft", "SwipeUp", "SwipeDown"}
Gestures == [what : Ways, from : T!Ids, faults : SUBSET FaultKinds]
IsEngine(e) ==
    /\ e = [since |-> e.since, accum |-> e.accum, cool |-> e.cool, swipe |-> e.swipe,
            swipeSince |-> e.swipeSince]
    /\ e.accum \in Int /\ e.cool \in Nat
PadOf(f, i, o, s, x, b) ==
    [frame |-> f, ids |-> i, origin |-> o, since |-> s, fired |-> x, blocked |-> b]
IsPad(x) ==
    /\ x = PadOf(x.frame, x.ids, x.origin, x.since, x.fired, x.blocked)
    /\ x.fired \in BOOLEAN /\ x.origin \in Int \X Int

DaemonTypes ==
    /\ gestures \in [enabled : BOOLEAN, handle : SUBSET T!Ids, retired : SUBSET T!Ids, retry : BOOLEAN]
    /\ threads \in [T!Ids -> [phase : Phases, native : BOOLEAN, cancelled : BOOLEAN]]
SharedTypes ==
    /\ shared = [sender |-> shared.sender, engine |-> shared.engine, native |-> shared.native]
    /\ shared.sender \subseteq T!Ids /\ \A e \in shared.engine : IsEngine(e)
CarriedTypes ==
    /\ carried = [channel |-> carried.channel, hand |-> carried.hand, queue |-> carried.queue]
    /\ carried.channel \in Seq(Gestures) /\ carried.hand \subseteq Gestures
    /\ carried.queue \in Seq(Gestures)
FeltTypes ==
    /\ felt = [swipes |-> felt.swipes, nav |-> felt.nav]
    /\ felt.swipes \in Nat /\ felt.nav \subseteq Nat
    /\ used \in [touches : Nat, toggles : Nat]
TouchTypes == DaemonTypes /\ SharedTypes /\ IsPad(pad) /\ CarriedTypes /\ FeltTypes

\* The daemon holds one thread at most, and lets no second start while the
\* first may still be hooked.
OneThread ==
    /\ \A i, j \in gestures.handle \cup gestures.retired : i = j
    /\ gestures.handle = {} \/ gestures.retired = {}
    /\ gestures.handle # {} => shared.sender = gestures.handle
    /\ \A i \in gestures.handle : threads[i].phase = "running"
    /\ T!Hooked \subseteq gestures.handle \cup gestures.retired
    /\ \A i \in shared.sender : threads[i].phase # "unborn"

\* A scroll of a stream keeps the engine cool until 150 ms have passed.
Cooling(engines, nav) == \A e \in engines, t \in nav : t < 150 => e.cool >= 150 - t
Remainders(engines) == \A e \in engines : -120 < e.accum /\ e.accum < 120
Paced == Cooling(shared.engine, felt.nav) /\ Remainders(shared.engine)

\* Fingers that have not swiped yet leave nothing to count.
SwipeOnce ==
    /\ felt.swipes <= 1
    /\ pad.ids = {} \/ ~pad.fired => felt.swipes = 0

\* What is late comes from a thread whose forwarder has been cancelled.
Punctual(event) ==
    /\ event.faults \subseteq {"late"} /\ threads[event.from].phase # "unborn"
    /\ "late" \in event.faults => threads[event.from].cancelled
Prompt ==
    /\ \A event \in Range(carried.channel) \cup carried.hand : Punctual(event)
    /\ \A event \in Range(carried.queue) : event.faults = {}

TouchInv == TouchTypes /\ OneThread /\ Paced /\ SwipeOnce /\ Prompt

LEMMA TouchBounds ==
    /\ MaxThreads \in Nat \ {0} /\ MaxTouches \in Nat /\ MaxToggles \in Nat /\ Gaps \subseteq Nat
    /\ Points \subseteq (0..100) \X (0..100)
BY EdgesAssumption DEF T!TouchAssumption

LEMMA TouchStart == EdgesInit => TouchInv
<1> SUFFICES ASSUME T!TouchInit PROVE TouchInv
  BY DEF EdgesInit
<1> USE DEF T!TouchInit
<1>1. TouchTypes
  BY DEF TouchTypes, DaemonTypes, SharedTypes, CarriedTypes, FeltTypes, Phases, T!NewPad, IsPad, PadOf
<1>2. OneThread
  BY DEF OneThread, T!Hooked
<1>3. Paced /\ SwipeOnce
  BY DEF Paced, Cooling, Remainders, SwipeOnce, T!NewPad
<1>4. Range(carried.channel) = {} /\ Range(carried.queue) = {} /\ carried.hand = {}
  BY DEF Range
<1> QED
  BY <1>1, <1>2, <1>3, <1>4 DEF TouchInv, Prompt

\* What the invariants say is what the runs check.
LEMMA TouchIsSound == TouchInv => T!TouchSound
<1> SUFFICES ASSUME TouchInv PROVE T!TouchSound
  OBVIOUS
<1> USE DEF TouchInv
<1>1. T!OneHook
  <2>1. gestures.handle # {} => T!Hooked = gestures.handle
    BY DEF OneThread, T!Hooked, TouchTypes, DaemonTypes, SharedTypes, CarriedTypes, FeltTypes
  <2>2. \A i, j \in T!Hooked : i = j
    BY DEF OneThread
  <2>3. T!Hooked = {} \/ \E i \in T!Hooked : T!Hooked = {i}
    BY <2>2
  <2>4. T!Cardinality(T!Hooked) <= 1
    <3>0. T!Cardinality(T!Hooked) = Cardinality(T!Hooked)
      BY DEF Cardinality, T!Cardinality
    <3>1. CASE T!Hooked = {}
      BY <3>0, <3>1, FS_EmptySet
    <3>2. ASSUME NEW i \in T!Hooked, T!Hooked = {i}
          PROVE  T!Cardinality(T!Hooked) <= 1
      BY <3>0, <3>2, FS_Singleton
    <3> QED
      BY <2>3, <3>1, <3>2
  <2> QED
    BY <2>1, <2>4 DEF T!OneHook, OneThread
<1>2. T!OneSwipePerTouch
  BY DEF SwipeOnce, T!OneSwipePerTouch
<1>3. T!ScrollsPaced /\ T!NothingAfterStop
  BY DEF Prompt, Punctual, Range, T!ToSet, T!ScrollsPaced, T!NothingAfterStop
<1> QED
  BY <1>1, <1>2, <1>3 DEF T!TouchSound

\* The daemon holds no hooked thread once the retired one is over.
LEMMA NoneHooked ==
    ASSUME TouchInv, gestures.handle = {}, T!RetiredOver
    PROVE  T!Hooked = {}
BY DEF TouchInv, OneThread, T!RetiredOver, T!Hooked

\* Every gesture under way has its thread.
LEMMA GesturesFrom ==
    ASSUME TouchTypes
    PROVE  \A event \in Range(carried.channel) \cup carried.hand : event.from \in T!Ids
<1>1. Range(carried.channel) \subseteq Gestures
  BY RangeOfSeq DEF TouchTypes, DaemonTypes, SharedTypes, CarriedTypes, FeltTypes
<1> QED
  BY <1>1 DEF Gestures, TouchTypes, DaemonTypes, SharedTypes, CarriedTypes, FeltTypes

LEMMA InstallTouches == ASSUME TouchInv, NEW i \in T!Ids, T!Install(i) PROVE TouchInv'
<1> USE DEF TouchInv
<1>1. /\ gestures.handle = {} /\ T!Hooked = {} /\ threads[i].phase = "unborn"
      /\ UNCHANGED <<carried, used>> /\ felt' = [swipes |-> 0, nav |-> {}]
  BY NoneHooked DEF T!Install, T!MayRegister
<1>2. CASE /\ threads' = [threads EXCEPT ![i].phase = "ended"]
           /\ shared' = [sender |-> {}, engine |-> {}, native |-> FALSE]
           /\ gestures' = [gestures EXCEPT !.retired = {}, !.retry = FALSE]
           /\ UNCHANGED pad
  <2>1. TouchTypes'
    BY <1>1, <1>2 DEF TouchTypes, DaemonTypes, SharedTypes, CarriedTypes, FeltTypes, Phases
  <2>2. OneThread'
    BY <1>1, <1>2 DEF OneThread, T!Hooked, TouchTypes, DaemonTypes, SharedTypes, CarriedTypes, FeltTypes
  <2>3. Paced' /\ SwipeOnce'
    BY <1>1, <1>2 DEF Paced, Cooling, Remainders, SwipeOnce
  <2>4. Prompt'
    BY <1>1, <1>2 DEF Prompt, Punctual, TouchTypes, DaemonTypes, SharedTypes, CarriedTypes, FeltTypes
  <2> QED
    BY <2>1, <2>2, <2>3, <2>4
<1>3. ASSUME NEW native \in BOOLEAN,
             threads' = [threads EXCEPT ![i] = [phase |-> "running", native |-> native, cancelled |-> FALSE]],
             shared' = [sender |-> {i}, engine |-> {T!NewEngine}, native |-> native],
             gestures' = [gestures EXCEPT !.handle = {i}, !.retired = {}, !.retry = FALSE],
             pad' = T!NewPad
      PROVE  TouchInv'
  <2>1. TouchTypes'
    <3>1. gestures' \in [enabled : BOOLEAN, handle : SUBSET T!Ids, retired : SUBSET T!Ids, retry : BOOLEAN]
      BY <1>1, <1>3 DEF TouchTypes, DaemonTypes, SharedTypes, CarriedTypes, FeltTypes
    <3>2. threads' \in [T!Ids -> [phase : Phases, native : BOOLEAN, cancelled : BOOLEAN]]
      BY <1>1, <1>3 DEF TouchTypes, DaemonTypes, SharedTypes, CarriedTypes, FeltTypes, Phases
    <3>3. IsPad(pad') /\ \A e \in shared'.engine : IsEngine(e)
      BY <1>3 DEF IsPad, PadOf, IsEngine, T!NewPad, T!NewEngine
    <3> QED
      BY <1>1, <1>3, <3>1, <3>2, <3>3 DEF TouchTypes, DaemonTypes, SharedTypes, CarriedTypes, FeltTypes
  <2>2. OneThread'
    BY <1>1, <1>3 DEF OneThread, T!Hooked, TouchTypes, DaemonTypes, SharedTypes, CarriedTypes, FeltTypes
  <2>3. Paced' /\ SwipeOnce'
    BY <1>1, <1>3 DEF Paced, Cooling, Remainders, SwipeOnce, T!NewEngine
  <2>4. Prompt'
    <3>1. \A j \in T!Ids : threads[j].phase # "unborn" => threads'[j] = threads[j]
      BY <1>1, <1>3 DEF TouchTypes, DaemonTypes, SharedTypes, CarriedTypes, FeltTypes
    <3>2. \A event \in Range(carried.channel) \cup carried.hand : event.from \in T!Ids
      BY GesturesFrom
    <3> QED
      BY <1>1, <3>1, <3>2 DEF Prompt, Punctual
  <2> QED
    BY <2>1, <2>2, <2>3, <2>4
<1> QED
  BY <1>2, <1>3 DEF T!Install

LEMMA LetGoTouches == ASSUME TouchInv, T!LetGo PROVE TouchInv'
<1> USE DEF TouchInv
<1>1. /\ gestures.handle = {} /\ T!Hooked = {}
  BY NoneHooked DEF T!LetGo, OneThread
<1>2. TouchTypes'
  <2>1. gestures' \in [enabled : BOOLEAN, handle : SUBSET T!Ids, retired : SUBSET T!Ids, retry : BOOLEAN]
    BY DEF TouchTypes, DaemonTypes, SharedTypes, CarriedTypes, FeltTypes, T!LetGo
  <2>2. /\ shared' = [sender |-> shared'.sender, engine |-> shared'.engine, native |-> shared'.native]
        /\ shared'.sender \subseteq T!Ids /\ \A e \in shared'.engine : IsEngine(e)
    BY DEF TouchTypes, DaemonTypes, SharedTypes, CarriedTypes, FeltTypes, T!LetGo, T!Cleared
  <2>3. DaemonTypes' /\ SharedTypes'
    BY <2>1, <2>2 DEF TouchTypes, DaemonTypes, SharedTypes, T!LetGo
  <2> QED
    BY <2>3 DEF TouchTypes, CarriedTypes, FeltTypes, T!LetGo
<1>3. OneThread'
  BY <1>1 DEF OneThread, T!Hooked, TouchTypes, DaemonTypes, SharedTypes, CarriedTypes, FeltTypes, T!LetGo, T!Cleared
<1>4. Paced' /\ SwipeOnce'
  BY DEF Paced, Cooling, Remainders, SwipeOnce, T!LetGo, T!Cleared, TouchTypes, DaemonTypes, SharedTypes, CarriedTypes, FeltTypes
<1> QED
  BY <1>2, <1>3, <1>4 DEF Prompt, Punctual, T!LetGo

LEMMA EnableTouches == ASSUME TouchInv, T!Enable PROVE TouchInv'
<1> USE DEF TouchInv
<1>1. TouchTypes'
  <2>1. DaemonTypes'
    BY DEF TouchTypes, DaemonTypes, T!Enable
  <2>2. FeltTypes'
    BY DEF TouchTypes, FeltTypes, T!Enable
  <2> QED
    BY <2>1, <2>2 DEF TouchTypes, SharedTypes, CarriedTypes, T!Enable
<1>2. OneThread'
  BY DEF OneThread, T!Hooked, TouchTypes, DaemonTypes, SharedTypes, CarriedTypes, FeltTypes, T!Enable
<1> QED
  BY <1>1, <1>2 DEF Paced, Cooling, Remainders, SwipeOnce, Prompt, Punctual, T!Enable

LEMMA DisableTouches == ASSUME TouchInv, T!Disable PROVE TouchInv'
<1> USE DEF TouchInv
<1>1. PICK inTime \in BOOLEAN :
         /\ threads' = [i \in T!Ids |-> IF i \in gestures.handle
               THEN [threads[i] EXCEPT !.phase = IF inTime THEN "ended" ELSE "told", !.cancelled = TRUE]
               ELSE threads[i]]
         /\ gestures' = [enabled |-> FALSE, retry |-> TRUE, handle |-> {},
                         retired |-> IF inTime THEN gestures.retired ELSE gestures.retired \cup gestures.handle]
         /\ shared' = IF inTime /\ gestures.handle # {} THEN [T!Cleared(shared) EXCEPT !.native = FALSE] ELSE shared
  BY DEF T!Disable
<1>2. UNCHANGED <<pad, carried, felt>> /\ used' = [used EXCEPT !.toggles = @ + 1]
  BY DEF T!Disable
<1>3. TouchTypes'
  <2>1. threads' \in [T!Ids -> [phase : Phases, native : BOOLEAN, cancelled : BOOLEAN]]
    BY <1>1 DEF TouchTypes, DaemonTypes, SharedTypes, CarriedTypes, FeltTypes, Phases
  <2>2. gestures' \in [enabled : BOOLEAN, handle : SUBSET T!Ids, retired : SUBSET T!Ids, retry : BOOLEAN]
    BY <1>1 DEF TouchTypes, DaemonTypes, SharedTypes, CarriedTypes, FeltTypes
  <2>3. /\ shared' = [sender |-> shared'.sender, engine |-> shared'.engine, native |-> shared'.native]
        /\ shared'.sender \subseteq T!Ids /\ \A e \in shared'.engine : IsEngine(e)
    BY <1>1 DEF TouchTypes, DaemonTypes, SharedTypes, CarriedTypes, FeltTypes, T!Cleared
  <2>4. used' \in [touches : Nat, toggles : Nat]
    BY <1>2 DEF TouchTypes, DaemonTypes, SharedTypes, CarriedTypes, FeltTypes
  <2> QED
    BY <1>2, <2>1, <2>2, <2>3, <2>4 DEF TouchTypes, DaemonTypes, SharedTypes, CarriedTypes, FeltTypes
<1>4. \A i \in T!Ids : /\ threads'[i].phase # "unborn" <=> threads[i].phase # "unborn"
                       /\ threads[i].cancelled => threads'[i].cancelled
                       /\ i \in gestures.handle => threads'[i].phase = IF inTime THEN "ended" ELSE "told"
                       /\ i \notin gestures.handle => threads'[i] = threads[i]
  BY <1>1 DEF TouchTypes, DaemonTypes, SharedTypes, CarriedTypes, FeltTypes, OneThread
<1>5. OneThread'
  <2>1. \A i, j \in gestures'.retired : i = j
    BY <1>1 DEF OneThread
  <2>2. gestures'.handle = {}
    BY <1>1
  <2>3. T!Hooked' \subseteq gestures'.retired
    <3>1. gestures'.retired = IF inTime THEN gestures.retired ELSE gestures.retired \cup gestures.handle
      BY <1>1
    <3>2. ASSUME NEW i \in T!Ids, threads'[i].phase \in {"running", "told"}
          PROVE  i \in gestures'.retired
      <4>1. CASE i \in gestures.handle
        BY <1>4, <3>1, <3>2, <4>1
      <4>2. CASE i \notin gestures.handle
        BY <1>4, <3>1, <3>2, <4>2 DEF OneThread, T!Hooked
      <4> QED
        BY <4>1, <4>2
    <3> QED
      BY <3>2 DEF T!Hooked
  <2>4. shared'.sender \subseteq shared.sender
    BY <1>1 DEF TouchTypes, DaemonTypes, SharedTypes, CarriedTypes, FeltTypes, T!Cleared
  <2>5. \A i \in shared'.sender : threads'[i].phase # "unborn"
    BY <2>4, <1>4 DEF OneThread, TouchTypes, DaemonTypes, SharedTypes, CarriedTypes, FeltTypes
  <2> QED
    BY <2>1, <2>2, <2>3, <2>5 DEF OneThread
<1>6. Paced' /\ SwipeOnce'
  <2>1. shared'.engine \subseteq shared.engine
    BY <1>1 DEF TouchTypes, DaemonTypes, SharedTypes, CarriedTypes, FeltTypes, T!Cleared
  <2> QED
    BY <1>2, <2>1 DEF Paced, Cooling, Remainders, SwipeOnce
<1>7. Prompt'
  <2>1. \A event \in Range(carried.channel) \cup carried.hand : event.from \in T!Ids
    BY GesturesFrom
  <2> QED
    BY <1>2, <1>4, <2>1 DEF Prompt, Punctual
<1> QED
  BY <1>3, <1>5, <1>6, <1>7

LEMMA ThreadEndsTouches == ASSUME TouchInv, NEW i \in T!Ids, T!ThreadEnds(i) PROVE TouchInv'
<1> USE DEF TouchInv
<1>1. TouchTypes'
  BY DEF TouchTypes, DaemonTypes, SharedTypes, CarriedTypes, FeltTypes, T!ThreadEnds, Phases
<1>2. \A j \in T!Ids : /\ threads'[j].phase # "unborn" <=> threads[j].phase # "unborn"
                       /\ threads'[j].cancelled = threads[j].cancelled
                       /\ j # i => threads'[j] = threads[j]
                       /\ j = i => threads[j].phase = "told" /\ threads'[j].phase = "ended"
  BY DEF TouchTypes, DaemonTypes, SharedTypes, CarriedTypes, FeltTypes, T!ThreadEnds
<1>3. OneThread'
  BY <1>2 DEF OneThread, T!Hooked, TouchTypes, DaemonTypes, SharedTypes, CarriedTypes, FeltTypes, T!ThreadEnds
<1>4. Paced' /\ SwipeOnce'
  BY DEF Paced, Cooling, Remainders, SwipeOnce, T!ThreadEnds, TouchTypes, DaemonTypes, SharedTypes, CarriedTypes, FeltTypes
<1>5. Prompt'
  <2>1. \A event \in Range(carried.channel) \cup carried.hand : event.from \in T!Ids
    BY GesturesFrom
  <2> QED
    BY <1>2, <2>1 DEF Prompt, Punctual, T!ThreadEnds
<1> QED
  BY <1>1, <1>3, <1>4, <1>5

\* What a thread recognises: at most one gesture, told with its faults.
LEMMA SentAppends ==
    ASSUME TouchInv, NEW events \in SUBSET Ways, IsFiniteSet(events), NEW faults \in SUBSET FaultKinds
    PROVE  \E w \in Seq(Gestures) :
             /\ T!Sent(events, faults) = [carried EXCEPT !.channel = @ \o w]
             /\ \A event \in Range(w) :
                  \E i \in shared.sender :
                    /\ event.from = i
                    /\ event.faults = faults \cup (IF threads[i].cancelled THEN {"late"} ELSE {})
<1> USE DEF TouchInv
<1> DEFINE gesture(what, i) ==
             [what |-> what, from |-> i,
              faults |-> faults \cup (IF threads[i].cancelled THEN {"late"} ELSE {})]
           all == {gesture(what, i) : what \in events, i \in shared.sender}
           pairs == events \X shared.sender
           of == [x \in pairs |-> gesture(x[1], x[2])]
<1>1. IsFiniteSet(T!Ids) /\ shared.sender \in SUBSET T!Ids
  <2>1. MaxThreads \in Int
    BY TouchBounds
  <2>2. IsFiniteSet(T!Ids)
    BY <2>1, FS_Interval DEF T!Ids
  <2> QED
    BY <2>2 DEF TouchTypes, DaemonTypes, SharedTypes, CarriedTypes, FeltTypes
<1>2. IsFiniteSet(pairs)
  <2>1. IsFiniteSet(shared.sender)
    BY <1>1, FS_Subset
  <2> QED
    BY <2>1, FS_Product
<1>3. of \in Surjection(pairs, all)
  <2> HIDE DEF gesture
  <2>1. \A x \in pairs : x[1] \in events /\ x[2] \in shared.sender
    OBVIOUS
  <2>2. of \in [pairs -> all]
    BY <2>1
  <2>3. \A what \in events, i \in shared.sender :
           <<what, i>> \in pairs /\ of[<<what, i>>] = gesture(what, i)
    OBVIOUS
  <2>4. \A event \in all : \E what \in events, i \in shared.sender : event = gesture(what, i)
    OBVIOUS
  <2> HIDE DEF pairs, of, all
  <2>5. ASSUME NEW event \in all  PROVE  \E x \in pairs : of[x] = event
    <3>1. PICK what \in events, i \in shared.sender : event = gesture(what, i)
      BY <2>4
    <3>2. <<what, i>> \in pairs /\ of[<<what, i>>] = event
      BY <2>3, <3>1
    <3> QED
      BY <3>2
  <2> QED
    BY <2>2, <2>5 DEF Surjection
<1>4. IsFiniteSet(all)
  BY <1>2, <1>3, FS_Surjection
<1>5. all \subseteq Gestures
  <2>1. \A what \in events, i \in shared.sender : gesture(what, i) \in Gestures
    BY <1>1 DEF Gestures, FaultKinds
  <2> HIDE DEF gesture
  <2> QED
    BY <2>1
<1>6. T!Sent(events, faults) = [carried EXCEPT !.channel = @ \o T!SetToSeq(all)]
  BY DEF T!Sent
<1>7. \A event \in all : \E i \in shared.sender :
        /\ event.from = i
        /\ event.faults = faults \cup (IF threads[i].cancelled THEN {"late"} ELSE {})
  OBVIOUS
<1> HIDE DEF all
<1>8. T!SetToSeq(all) \in Seq(all) /\ Range(T!SetToSeq(all)) = all
  <2>1. T!SetToSeq(all) = R!SetToSeq(all)
    BY DEF T!SetToSeq, R!SetToSeq, T!IsInjective, R!IsInjective, T!Cardinality, R!Cardinality
  <2> QED
    BY <1>4, <2>1, SetToSeqProperties
<1>9. T!SetToSeq(all) \in Seq(Gestures)
  BY <1>5, <1>8, SeqMonotonic
<1> QED
  BY <1>6, <1>7, <1>8, <1>9

\* A thread that recognises something keeps what is under way punctual.
LEMMA SentPrompt ==
    ASSUME TouchInv, NEW events \in SUBSET Ways, IsFiniteSet(events),
           carried' = T!Sent(events, {}), UNCHANGED threads
    PROVE  /\ carried' = [channel |-> carried'.channel, hand |-> carried'.hand, queue |-> carried'.queue]
           /\ carried'.channel \in Seq(Gestures) /\ carried'.hand = carried.hand
           /\ carried'.queue = carried.queue
           /\ Prompt'
<1> USE DEF TouchInv
<1>1. PICK w \in Seq(Gestures) :
             /\ carried' = [carried EXCEPT !.channel = @ \o w]
             /\ \A event \in Range(w) :
                  \E i \in shared.sender :
                    /\ event.from = i
                    /\ event.faults = {} \cup (IF threads[i].cancelled THEN {"late"} ELSE {})
  BY SentAppends DEF FaultKinds
<1>2. /\ carried' = [channel |-> carried'.channel, hand |-> carried'.hand, queue |-> carried'.queue]
      /\ carried'.channel = carried.channel \o w /\ carried'.hand = carried.hand
      /\ carried'.queue = carried.queue
  BY <1>1 DEF TouchTypes, DaemonTypes, SharedTypes, CarriedTypes, FeltTypes
<1>3. /\ carried'.channel \in Seq(Gestures)
      /\ Range(carried'.channel) = Range(carried.channel) \cup Range(w)
  <2> DEFINE q == carried.channel
  <2>1. q \in Seq(Gestures)
    BY DEF TouchTypes, DaemonTypes, SharedTypes, CarriedTypes, FeltTypes
  <2>2. q \o w \in Seq(Gestures) /\ Range(q \o w) = Range(q) \cup Range(w)
    <3> HIDE DEF q
    <3>1. w \in Seq(Gestures)
      OBVIOUS
    <3> QED
      BY <2>1, <3>1, ConcatProperties, RangeConcatenation
  <2> QED
    BY <1>2, <2>2
<1>4. \A event \in Range(w) : Punctual(event)
  BY <1>1 DEF Punctual, OneThread
<1>5. Prompt'
  BY <1>2, <1>3, <1>4 DEF Prompt, Punctual
<1> QED
  BY <1>2, <1>3, <1>5

LEMMA ReceiveTouches == ASSUME TouchInv, T!Receive PROVE TouchInv'
<1> USE DEF TouchInv
<1> DEFINE q == carried.channel
<1>1. /\ q \in Seq(Gestures) /\ q # <<>> /\ carried.hand = {}
      /\ carried' = [carried EXCEPT !.channel = Tail(q), !.hand = {Head(q)}]
      /\ UNCHANGED <<gestures, threads, shared, pad, felt, used>>
  BY DEF T!Receive, TouchTypes, DaemonTypes, SharedTypes, CarriedTypes, FeltTypes
<1>2. Tail(q) \in Seq(Gestures) /\ Head(q) \in Gestures /\ Range(q) = {Head(q)} \cup Range(Tail(q))
  BY <1>1, TailProperties
<1>3. /\ carried' = [channel |-> Tail(q), hand |-> {Head(q)}, queue |-> carried.queue]
  BY <1>1 DEF TouchTypes, DaemonTypes, SharedTypes, CarriedTypes, FeltTypes
<1>4. TouchTypes'
  <2> DEFINE r == Tail(q)
             h == {Head(q)}
  <2>1. carried.queue \in Seq(Gestures) /\ h \subseteq Gestures /\ r \in Seq(Gestures)
    BY <1>2 DEF TouchTypes, DaemonTypes, SharedTypes, CarriedTypes, FeltTypes
  <2>2. carried' = [channel |-> r, hand |-> h, queue |-> carried.queue]
    BY <1>3
  <2> HIDE DEF q, r, h
  <2>3. CarriedTypes'
    BY <2>1, <2>2 DEF CarriedTypes
  <2> QED
    BY <1>1, <2>3 DEF TouchTypes, DaemonTypes, SharedTypes, FeltTypes
<1> HIDE DEF q
<1>5. Prompt'
  BY <1>1, <1>2, <1>3 DEF Prompt, Punctual, q
<1> QED
  BY <1>1, <1>4, <1>5 DEF OneThread, T!Hooked, Paced, SwipeOnce

LEMMA ForwardTouches == ASSUME TouchInv, T!Forward PROVE TouchInv'
<1> USE DEF TouchInv
<1>1. PICK event \in carried.hand :
         carried' = IF threads[event.from].cancelled
                    THEN [carried EXCEPT !.hand = {},
                            !.channel = T!Retained(@, {e \in T!ToSet(@) : e.from # event.from})]
                    ELSE [carried EXCEPT !.hand = {}, !.queue = Append(@, event)]
  BY DEF T!Forward
<1>2. UNCHANGED <<gestures, threads, shared, pad, felt, used>>
  BY DEF T!Forward
<1>3. event \in Gestures /\ Punctual(event)
  BY DEF TouchTypes, DaemonTypes, SharedTypes, CarriedTypes, FeltTypes, Prompt
<1>4. CASE threads[event.from].cancelled
  <2> DEFINE keep == {e \in T!ToSet(carried.channel) : e.from # event.from}
             rest == Retained(carried.channel, keep)
  <2>1. T!Retained(carried.channel, keep) = rest
    BY DEF T!Retained, Retained, T!Kept, Kept
  <2>2. rest \in Seq(Gestures) /\ Range(rest) \subseteq Range(carried.channel)
    BY RetainedProperties DEF TouchTypes, DaemonTypes, SharedTypes, CarriedTypes, FeltTypes
  <2>3. carried' = [channel |-> rest, hand |-> {}, queue |-> carried.queue]
    BY <1>1, <1>4, <2>1 DEF TouchTypes, DaemonTypes, SharedTypes, CarriedTypes, FeltTypes
  <2> HIDE DEF rest
  <2>4. TouchTypes'
    BY <1>2, <2>2, <2>3 DEF TouchTypes, DaemonTypes, SharedTypes, CarriedTypes, FeltTypes
  <2>5. Prompt'
    BY <1>2, <2>2, <2>3 DEF Prompt, Punctual
  <2> QED
    BY <1>2, <2>4, <2>5 DEF OneThread, T!Hooked, Paced, SwipeOnce
<1>5. CASE ~threads[event.from].cancelled
  <2>1. carried' = [channel |-> carried.channel, hand |-> {}, queue |-> Append(carried.queue, event)]
    BY <1>1, <1>5 DEF TouchTypes, DaemonTypes, SharedTypes, CarriedTypes, FeltTypes
  <2>2. /\ Append(carried.queue, event) \in Seq(Gestures)
        /\ Range(Append(carried.queue, event)) = Range(carried.queue) \cup {event}
    <3>1. carried.queue \in Seq(Gestures)
      BY DEF TouchTypes, DaemonTypes, SharedTypes, CarriedTypes, FeltTypes
    <3> QED
      BY <1>3, <3>1, AppendRange
  <2>3. event.faults = {}
    BY <1>3, <1>5 DEF Punctual
  <2>4. TouchTypes'
    BY <1>2, <2>1, <2>2 DEF TouchTypes, DaemonTypes, SharedTypes, CarriedTypes, FeltTypes
  <2>5. Prompt'
    BY <1>2, <2>1, <2>2, <2>3 DEF Prompt, Punctual
  <2> QED
    BY <1>2, <2>4, <2>5 DEF OneThread, T!Hooked, Paced, SwipeOnce
<1> QED
  BY <1>4, <1>5

LEMMA HandleTouches == ASSUME TouchInv, T!Handle PROVE TouchInv'
<1> USE DEF TouchInv
<1> DEFINE q == carried.queue
<1>1. /\ q \in Seq(Gestures) /\ q # <<>>
      /\ carried' = [channel |-> carried.channel, hand |-> carried.hand, queue |-> Tail(q)]
      /\ UNCHANGED <<gestures, threads, shared, pad, felt, used>>
  BY DEF T!Handle, TouchTypes, DaemonTypes, SharedTypes, CarriedTypes, FeltTypes
<1>2. Tail(q) \in Seq(Gestures) /\ Range(Tail(q)) \subseteq Range(q)
  BY <1>1 DEF Range
<1> HIDE DEF q
<1>3. TouchTypes'
  BY <1>1, <1>2 DEF TouchTypes, DaemonTypes, SharedTypes, CarriedTypes, FeltTypes
<1>4. Prompt'
  BY <1>1, <1>2 DEF Prompt, Punctual, q
<1> QED
  BY <1>1, <1>3, <1>4 DEF OneThread, T!Hooked, Paced, SwipeOnce

(***************************************************************************)
(* The wheel.                                                              *)
(***************************************************************************)
LEMMA LaterTimes ==
    ASSUME NEW nav \in SUBSET Nat, NEW gap \in Nat
    PROVE  /\ T!Later(nav, gap) \subseteq Nat
           /\ \A t \in T!Later(nav, gap) : t < 150 => \E s \in nav : t = s + gap
<1>1. ASSUME NEW s \in nav
      PROVE  /\ (IF s + gap > 300 THEN 301 ELSE s + gap) \in Nat
             /\ (IF s + gap > 300 THEN 301 ELSE s + gap) < 150 =>
                  (IF s + gap > 300 THEN 301 ELSE s + gap) = s + gap
  OBVIOUS
<1> QED
  BY <1>1 DEF T!Later

\* Time passes for the engine as it does for the user.
LEMMA AgedEngine ==
    ASSUME NEW e, IsEngine(e), NEW nav \in SUBSET Nat, NEW gap \in Nat
    PROVE  /\ IsEngine(T!Aged(e, gap)) /\ T!Aged(e, gap).accum = e.accum
           /\ (\A t \in nav : t < 150 => e.cool >= 150 - t) =>
                 \A t \in T!Later(nav, gap) : t < 150 => T!Aged(e, gap).cool >= 150 - t
<1> DEFINE a == T!Aged(e, gap)
           c == IF e.cool > gap THEN e.cool - gap ELSE 0
<1>1. a = [since |-> T!Later(e.since, gap), accum |-> e.accum, cool |-> c, swipe |-> e.swipe,
           swipeSince |-> T!Later(e.swipeSince, gap)]
  <2> DEFINE b == [e EXCEPT !.since = T!Later(e.since, gap)]
             d == [b EXCEPT !.swipeSince = T!Later(e.swipeSince, gap)]
  <2>1. b = [since |-> T!Later(e.since, gap), accum |-> e.accum, cool |-> e.cool, swipe |-> e.swipe,
             swipeSince |-> e.swipeSince]
    BY DEF IsEngine
  <2>2. a = [d EXCEPT !.cool = c]
    BY <2>1 DEF T!Aged
  <2> HIDE DEF b
  <2>3. d = [since |-> T!Later(e.since, gap), accum |-> e.accum, cool |-> e.cool, swipe |-> e.swipe,
             swipeSince |-> T!Later(e.swipeSince, gap)]
    BY <2>1
  <2> HIDE DEF d
  <2> QED
    BY <2>2, <2>3
<1>2. IsEngine(a) /\ a.accum = e.accum /\ a.cool = c
  BY <1>1 DEF IsEngine
<1>3. ASSUME \A t \in nav : t < 150 => e.cool >= 150 - t,
             NEW t \in T!Later(nav, gap), t < 150
      PROVE  c >= 150 - t
  <2>1. PICK s \in nav : t = s + gap
    BY <1>3, LaterTimes
  <2>2. s \in Nat /\ s < 150
    BY <1>3, <2>1
  <2>3. e.cool >= 150 - s
    BY <1>3, <2>2
  <2> QED
    BY <2>1, <2>2, <2>3 DEF IsEngine
<1> QED
  BY <1>2, <1>3

LEMMA RestBound == \A n \in Int : T!Rest(n) \in Int /\ -120 < T!Rest(n) /\ T!Rest(n) < 120
BY DEF T!Rest

\* A modified tick: what the engine becomes, and a scroll that is neither too
\* soon nor against it.
LEMMA NavigateProperties ==
    ASSUME NEW e, IsEngine(e), NEW delta \in T!Ticks, NEW nav \in SUBSET Nat,
           -120 < e.accum, e.accum < 120,
           \A t \in nav : t < 150 => e.cool >= 150 - t
    PROVE  LET done == T!Navigate(e, delta)
               now == IF T!StreamEnded(e) THEN {} ELSE nav
           IN  /\ IsEngine(done.engine)
               /\ -120 < done.engine.accum /\ done.engine.accum < 120
               /\ done.events \in SUBSET Ways /\ IsFiniteSet(done.events)
               /\ T!Faults(delta, now, done.events) = {}
               /\ done.events = {} => \A t \in now : t < 150 => done.engine.cool >= 150 - t
               /\ done.events # {} => done.engine.cool = 150
<1> DEFINE done == T!Navigate(e, delta)
           now == IF T!StreamEnded(e) THEN {} ELSE nav
           f == [T!Fresh(e) EXCEPT !.since = {0}]
           sum == f.accum + delta
<1>1. /\ IsEngine(f) /\ -120 < f.accum /\ f.accum < 120
      /\ \A t \in now : t < 150 => f.cool >= 150 - t
  <2>1. CASE T!StreamEnded(e)
    <3>1. f = [since |-> {0}, accum |-> 0, cool |-> 0, swipe |-> e.swipe, swipeSince |-> e.swipeSince]
      <4> DEFINE b == [e EXCEPT !.accum = 0]
                 d == [b EXCEPT !.cool = 0]
      <4>1. f = [d EXCEPT !.since = {0}]
        BY <2>1 DEF T!Fresh
      <4>2. b = [since |-> e.since, accum |-> 0, cool |-> e.cool, swipe |-> e.swipe, swipeSince |-> e.swipeSince]
        BY DEF IsEngine
      <4> HIDE DEF b
      <4>3. d = [since |-> e.since, accum |-> 0, cool |-> 0, swipe |-> e.swipe, swipeSince |-> e.swipeSince]
        BY <4>2
      <4> HIDE DEF d
      <4> QED
        BY <4>1, <4>3
    <3> QED
      BY <2>1, <3>1 DEF IsEngine
  <2>2. CASE ~T!StreamEnded(e)
    <3>1. f = [since |-> {0}, accum |-> e.accum, cool |-> e.cool, swipe |-> e.swipe, swipeSince |-> e.swipeSince]
      BY <2>2 DEF T!Fresh, IsEngine
    <3> QED
      BY <2>2, <3>1 DEF IsEngine
  <2> QED
    BY <2>1, <2>2
<1>2. done = IF f.cool > 0 THEN T!Reply(f, {}, TRUE)
             ELSE IF T!Abs(sum) < 120 THEN T!Reply([f EXCEPT !.accum = sum], {}, TRUE)
             ELSE T!Reply([f EXCEPT !.accum = T!Rest(sum), !.cool = 150],
                          {IF sum > 0 THEN "ScrollUp" ELSE "ScrollDown"}, TRUE)
  BY DEF T!Navigate
<1> HIDE DEF f, done
<1>3. f.accum \in Int /\ f.cool \in Nat /\ delta \in {-120, 70, 120} /\ sum \in Int
  BY <1>1 DEF IsEngine, T!Ticks
<1>4. CASE f.cool > 0
  <2>1. done.engine = f /\ done.events = {}
    BY <1>2, <1>4 DEF T!Reply
  <2>2. T!Faults(delta, now, {}) = {}
    BY DEF T!Faults
  <2> QED
    BY <1>1, <2>1, <2>2, FS_EmptySet DEF done
<1>5. CASE ~(f.cool > 0) /\ T!Abs(sum) < 120
  <2>1. done.engine = [f EXCEPT !.accum = sum] /\ done.events = {}
    BY <1>2, <1>5 DEF T!Reply
  <2>2. -120 < sum /\ sum < 120
    BY <1>3, <1>5 DEF T!Abs
  <2>3. IsEngine(done.engine) /\ done.engine.accum = sum /\ done.engine.cool = f.cool
    BY <1>1, <1>3, <2>1 DEF IsEngine
  <2>4. T!Faults(delta, now, {}) = {}
    BY DEF T!Faults
  <2> QED
    BY <1>1, <2>1, <2>2, <2>3, <2>4, FS_EmptySet DEF done
<1>6. CASE ~(f.cool > 0) /\ ~(T!Abs(sum) < 120)
  <2> DEFINE way == IF sum > 0 THEN "ScrollUp" ELSE "ScrollDown"
  <2>1. done.engine = [f EXCEPT !.accum = T!Rest(sum), !.cool = 150] /\ done.events = {way}
    BY <1>2, <1>6 DEF T!Reply
  <2>2. /\ IsEngine(done.engine) /\ done.engine.accum = T!Rest(sum) /\ done.engine.cool = 150
    <3> DEFINE b == [f EXCEPT !.accum = T!Rest(sum)]
    <3>1. b = [since |-> f.since, accum |-> T!Rest(sum), cool |-> f.cool, swipe |-> f.swipe,
               swipeSince |-> f.swipeSince]
      BY <1>1 DEF IsEngine
    <3>2. done.engine = [b EXCEPT !.cool = 150]
      BY <2>1
    <3> HIDE DEF b
    <3>3. done.engine = [since |-> f.since, accum |-> T!Rest(sum), cool |-> 150, swipe |-> f.swipe,
                         swipeSince |-> f.swipeSince]
      BY <3>1, <3>2
    <3> QED
      BY <1>3, <3>3, RestBound DEF IsEngine
  <2>3. way = IF delta > 0 THEN "ScrollUp" ELSE "ScrollDown"
    BY <1>1, <1>3, <1>6 DEF T!Abs
  <2>4. \A t \in now : ~(t < 150)
    <3>1. now \subseteq Nat
      OBVIOUS
    <3> HIDE DEF now
    <3>2. f.cool = 0
      BY <1>3, <1>6
    <3>3. ASSUME NEW t \in now, t < 150  PROVE FALSE
      BY <1>1, <3>1, <3>2, <3>3
    <3> QED
      BY <3>3
  <2>5. T!Faults(delta, now, {way}) = {}
    BY <2>3, <2>4 DEF T!Faults
  <2>6. IsFiniteSet({way}) /\ {way} \in SUBSET Ways
    <3>1. way \in Ways
      BY DEF Ways
    <3> HIDE DEF way
    <3> QED
      BY <3>1, FS_Singleton
  <2>7. -120 < T!Rest(sum) /\ T!Rest(sum) < 120
    BY <1>3, RestBound
  <2> HIDE DEF way, now
  <2>8. done.events # {}
    BY <2>1
  <2>9. T!Faults(delta, now, done.events) = {} /\ done.events \in SUBSET Ways /\ IsFiniteSet(done.events)
    BY <2>1, <2>5, <2>6
  <2>10. -120 < done.engine.accum /\ done.engine.accum < 120
    BY <2>2, <2>7
  <2> QED
    BY ONLY <2>2, <2>8, <2>9, <2>10 DEF done, now
<1> QED
  BY <1>3, <1>4, <1>5, <1>6

\* An injected tick leaves the scrolling as it is.
LEMMA WheelSwipeProperties ==
    ASSUME NEW e, IsEngine(e), NEW delta \in T!Ticks
    PROVE  LET done == T!WheelSwipe(e, delta)
           IN  /\ IsEngine(done.engine)
               /\ done.engine.accum = e.accum /\ done.engine.cool = e.cool
               /\ done.events \in SUBSET Ways /\ IsFiniteSet(done.events)
<1> DEFINE done == T!WheelSwipe(e, delta)
           stale == \E s \in e.swipeSince : s > 300
           sum == (IF stale THEN 0 ELSE e.swipe) + delta
<1> HIDE DEF stale
<1>1. ASSUME NEW x, NEW events, done = T!Reply([e EXCEPT !.swipe = x, !.swipeSince = {0}], events, FALSE)
      PROVE  /\ done.events = events /\ IsEngine(done.engine)
             /\ done.engine.accum = e.accum /\ done.engine.cool = e.cool
  <2> DEFINE b == [e EXCEPT !.swipe = x]
  <2>1. b = [since |-> e.since, accum |-> e.accum, cool |-> e.cool, swipe |-> x, swipeSince |-> e.swipeSince]
    BY DEF IsEngine
  <2>2. done.engine = [b EXCEPT !.swipeSince = {0}] /\ done.events = events
    BY <1>1 DEF T!Reply
  <2> HIDE DEF b, done
  <2>3. done.engine = [since |-> e.since, accum |-> e.accum, cool |-> e.cool, swipe |-> x, swipeSince |-> {0}]
    BY <2>1, <2>2
  <2> QED
    BY <2>2, <2>3 DEF IsEngine
<1>2. \/ done = T!Reply([e EXCEPT !.swipe = sum, !.swipeSince = {0}], {}, FALSE)
      \/ done = T!Reply([e EXCEPT !.swipe = 0, !.swipeSince = {0}], {"SwipeRight"}, FALSE)
      \/ done = T!Reply([e EXCEPT !.swipe = 0, !.swipeSince = {0}], {"SwipeLeft"}, FALSE)
  BY DEF T!WheelSwipe, stale
<1>3. IsFiniteSet({}) /\ IsFiniteSet({"SwipeRight"}) /\ IsFiniteSet({"SwipeLeft"})
  BY FS_EmptySet, FS_Singleton
<1> HIDE DEF done, sum
<1>4. /\ IsEngine(done.engine) /\ done.engine.accum = e.accum /\ done.engine.cool = e.cool
      /\ done.events \in {{}, {"SwipeRight"}, {"SwipeLeft"}}
  BY <1>1, <1>2
<1>5. done.events \in SUBSET Ways /\ IsFiniteSet(done.events)
  BY <1>3, <1>4 DEF Ways
<1> QED
  BY ONLY <1>4, <1>5 DEF done

LEMMA WheelTouches ==
    ASSUME TouchInv, NEW i \in T!Ids, NEW delta \in T!Ticks, NEW gap \in Gaps, NEW modified \in BOOLEAN,
           T!Wheel(i, delta, gap, modified)
    PROVE  TouchInv'
<1> USE DEF TouchInv
<1>1. PICK old \in shared.engine :
        LET aged == T!Aged(old, gap)
            done == IF modified THEN T!Navigate(aged, delta) ELSE T!WheelSwipe(aged, delta)
            scrolls == IF modified THEN done.events ELSE {}
            nav == IF modified /\ T!StreamEnded(aged) THEN {} ELSE T!Later(felt.nav, gap)
        IN /\ shared' = [shared EXCEPT !.engine = {done.engine}]
           /\ carried' = T!Sent(done.events, T!Faults(delta, nav, scrolls))
           /\ felt' = [felt EXCEPT !.nav = IF scrolls # {} THEN {0} ELSE nav]
  BY DEF T!Wheel
<1> DEFINE aged == T!Aged(old, gap)
           passed == T!Later(felt.nav, gap)
           done == IF modified THEN T!Navigate(aged, delta) ELSE T!WheelSwipe(aged, delta)
           scrolls == IF modified THEN done.events ELSE {}
           nav == IF modified /\ T!StreamEnded(aged) THEN {} ELSE passed
<1>2. gap \in Nat /\ felt.nav \in SUBSET Nat /\ IsEngine(old) /\ -120 < old.accum /\ old.accum < 120
      /\ \A t \in felt.nav : t < 150 => old.cool >= 150 - t
  BY TouchBounds DEF TouchTypes, FeltTypes, SharedTypes, Paced, Cooling, Remainders
<1>3. /\ IsEngine(aged) /\ aged.accum = old.accum /\ passed \in SUBSET Nat
      /\ \A t \in passed : t < 150 => aged.cool >= 150 - t
  BY <1>2, AgedEngine, LaterTimes
<1>4. /\ shared' = [shared EXCEPT !.engine = {done.engine}]
      /\ carried' = T!Sent(done.events, T!Faults(delta, nav, scrolls))
      /\ felt' = [felt EXCEPT !.nav = IF scrolls # {} THEN {0} ELSE nav]
      /\ used' = [used EXCEPT !.touches = @ + 1]
      /\ pad' = [pad EXCEPT !.since = T!Later(@, gap)]
      /\ UNCHANGED <<gestures, threads>>
  BY <1>1 DEF T!Wheel
<1> HIDE DEF aged, passed
<1>5. /\ IsEngine(done.engine) /\ -120 < done.engine.accum /\ done.engine.accum < 120
      /\ done.events \in SUBSET Ways /\ IsFiniteSet(done.events)
      /\ T!Faults(delta, nav, scrolls) = {}
      /\ scrolls = {} => \A t \in nav : t < 150 => done.engine.cool >= 150 - t
      /\ scrolls # {} => done.engine.cool = 150
  <2>1. CASE modified
    BY <1>2, <1>3, <2>1, NavigateProperties
  <2>2. CASE ~modified
    <3>1. T!Faults(delta, nav, {}) = {}
      BY DEF T!Faults
    <3> QED
      BY <1>2, <1>3, <2>2, <3>1, WheelSwipeProperties
  <2> QED
    BY <2>1, <2>2
<1>6. nav \in SUBSET Nat
  BY <1>3
<1> HIDE DEF done, scrolls, nav
<1>7. /\ carried' = [channel |-> carried'.channel, hand |-> carried'.hand, queue |-> carried'.queue]
      /\ carried'.channel \in Seq(Gestures) /\ carried'.hand = carried.hand
      /\ carried'.queue = carried.queue
      /\ Prompt'
  <2>1. carried' = T!Sent(done.events, {}) /\ UNCHANGED threads
    BY <1>4, <1>5
  <2> QED
    BY <1>5, <2>1, SentPrompt
<1>8. /\ shared' = [sender |-> shared.sender, engine |-> {done.engine}, native |-> shared.native]
      /\ felt' = [swipes |-> felt.swipes, nav |-> IF scrolls # {} THEN {0} ELSE nav]
  BY <1>4 DEF TouchTypes, SharedTypes, FeltTypes
<1>9. pad' = [frame |-> pad.frame, ids |-> pad.ids, origin |-> pad.origin, since |-> T!Later(pad.since, gap),
              fired |-> pad.fired, blocked |-> pad.blocked]
  BY <1>4 DEF TouchTypes, IsPad, PadOf
<1>10. TouchTypes'
  <2>1. DaemonTypes' /\ SharedTypes'
    <3>1. DaemonTypes'
      BY <1>4 DEF TouchTypes, DaemonTypes
    <3>2. shared'.sender \subseteq T!Ids /\ \A e \in shared'.engine : IsEngine(e)
      BY <1>5, <1>8 DEF TouchTypes, SharedTypes
    <3> QED
      BY <1>8, <3>1, <3>2 DEF SharedTypes
  <2>2. IsPad(pad')
    BY <1>9 DEF IsPad, PadOf, TouchTypes
  <2>3. CarriedTypes'
    BY <1>7 DEF TouchTypes, CarriedTypes
  <2>4. FeltTypes'
    <3>1. used' \in [touches : Nat, toggles : Nat]
      BY <1>4 DEF TouchTypes, FeltTypes
    <3>2. felt'.swipes = felt.swipes /\ felt'.nav \subseteq Nat
      BY <1>6, <1>8
    <3> QED
      BY <1>8, <3>1, <3>2 DEF TouchTypes, FeltTypes
  <2> QED
    BY <2>1, <2>2, <2>3, <2>4 DEF TouchTypes
<1>11. OneThread'
  BY <1>4, <1>8 DEF OneThread, T!Hooked
<1>12. Paced'
  <2>1. \A t \in felt'.nav : t < 150 => done.engine.cool >= 150 - t
    BY <1>5, <1>8
  <2> QED
    BY <1>5, <1>8, <2>1 DEF Paced, Cooling, Remainders
<1>13. SwipeOnce'
  BY <1>8, <1>9 DEF SwipeOnce
<1> QED
  BY <1>7, <1>10, <1>11, <1>12, <1>13

(***************************************************************************)
(* The pad.                                                                *)
(***************************************************************************)
\* No movement goes two ways at once.
LEMMA OneDirection ==
    ASSUME NEW from \in Int \X Int, NEW to \in Int \X Int
    PROVE  LET ways == T!Direction(from, to)
           IN  ways \in SUBSET Ways /\ (ways = {} \/ \E way \in Ways : ways = {way})
<1> DEFINE dx == to[1] - from[1]
           dy == to[2] - from[2]
           ways == T!Direction(from, to)
<1>1. dx \in Int /\ dy \in Int
  OBVIOUS
<1>2. ways = {way \in {"SwipeRight", "SwipeLeft"} : T!Travel(dx, dy) /\ ((way = "SwipeRight") = (dx > 0))}
             \cup {way \in {"SwipeDown", "SwipeUp"} : T!Travel(dy, dx) /\ ((way = "SwipeDown") = (dy > 0))}
  BY DEF T!Direction
<1> HIDE DEF dx, dy, ways
<1>3. ~(T!Travel(dx, dy) /\ T!Travel(dy, dx))
  BY <1>1 DEF T!Travel, T!Abs
<1>4. \A x, y \in ways : x = y
  BY <1>2, <1>3
<1>5. ways \in SUBSET Ways
  BY <1>2 DEF Ways
<1>6. ways = {} \/ \E way \in Ways : ways = {way}
  BY <1>4, <1>5
<1> QED
  BY <1>5, <1>6 DEF ways

\* What a report leaves: a swipe is recognised, and there is nothing to count,
\* only while no swipe counts or the touch is a new one.
Counts(e, done) ==
    LET new == \/ done.engine.ids = {} \/ e.ids = {} \/ ~e.fired
               \/ \E s \in e.since : s > 300
    IN  /\ IsPad(done.engine)
        /\ done.events \in SUBSET Ways
        /\ done.events = {} \/ \E way \in Ways : done.events = {way}
        /\ done.events # {} => new /\ done.engine.ids # {} /\ done.engine.fired
        /\ ~done.engine.fired => new

\* The fingers are gone, or there are others: the touch is over.
LEMMA TouchOver ==
    ASSUME NEW e, IsPad(e), NEW done, done.events = {}, done.engine.ids = {}, IsPad(done.engine)
    PROVE  Counts(e, done)
BY DEF Counts

LEMMA SwipedCounts ==
    ASSUME NEW e, IsPad(e), NEW ids, NEW centre \in Int \X Int
    PROVE  Counts(e, T!Swiped(e, ids, centre))
<1> DEFINE timed == \E s \in e.since : s > 300
           new == e.ids = {} \/ timed
           origin == IF new THEN centre ELSE e.origin
           fired == e.fired /\ ~new
           start == [e EXCEPT !.ids = {ids}, !.origin = IF new THEN centre ELSE @,
                              !.fired = @ /\ ~new, !.since = {0}]
           way == IF start.fired THEN {} ELSE T!Direction(start.origin, centre)
           gone == [e EXCEPT !.ids = {}, !.fired = FALSE, !.blocked = T!Cardinality(ids) > 3]
           other == [e EXCEPT !.ids = {}, !.blocked = TRUE]
           swiping == [start EXCEPT !.fired = @ \/ way # {}]
           done == T!Swiped(e, ids, centre)
<1>1. done = IF T!Cardinality(ids) # 3 THEN T!Seen(gone, {})
             ELSE IF e.blocked THEN T!Seen(e, {})
             ELSE IF e.ids \notin {{}, {ids}} THEN T!Seen(other, {})
             ELSE T!Seen(swiping, way)
  BY DEF T!Swiped
<1>2. IsPad(gone) /\ gone.ids = {}
  <2> DEFINE a == [e EXCEPT !.ids = {}]
             no == FALSE
             b == [a EXCEPT !.fired = no]
             x == T!Cardinality(ids) > 3
  <2>1. a = PadOf(e.frame, {}, e.origin, e.since, e.fired, e.blocked)
    BY DEF IsPad, PadOf
  <2>2. gone = [b EXCEPT !.blocked = x]
    OBVIOUS
  <2>3. no \in BOOLEAN
    OBVIOUS
  <2> HIDE DEF a, no, gone, x
  <2>4. b = PadOf(e.frame, {}, e.origin, e.since, no, e.blocked)
    BY <2>1 DEF PadOf
  <2> HIDE DEF b
  <2>5. gone = PadOf(e.frame, {}, e.origin, e.since, no, x)
    BY <2>2, <2>4 DEF PadOf
  <2> QED
    BY <2>3, <2>5 DEF IsPad, PadOf
<1>3. IsPad(other) /\ other.ids = {}
  <2> DEFINE a == [e EXCEPT !.ids = {}]
  <2>1. a = PadOf(e.frame, {}, e.origin, e.since, e.fired, e.blocked)
    BY DEF IsPad, PadOf
  <2>2. other = [a EXCEPT !.blocked = TRUE]
    OBVIOUS
  <2> HIDE DEF a, other
  <2>3. other = PadOf(e.frame, {}, e.origin, e.since, e.fired, TRUE)
    BY <2>1, <2>2 DEF PadOf
  <2> QED
    BY <2>3 DEF IsPad, PadOf
<1>4. origin \in Int \X Int /\ fired \in BOOLEAN
  BY DEF IsPad
<1>5. start = PadOf(e.frame, {ids}, origin, {0}, fired, e.blocked)
  <2> DEFINE a == [e EXCEPT !.ids = {ids}]
             b == [a EXCEPT !.origin = origin]
             c == [b EXCEPT !.fired = fired]
  <2>1. a = PadOf(e.frame, {ids}, e.origin, e.since, e.fired, e.blocked)
    BY DEF IsPad, PadOf
  <2>2. start = [c EXCEPT !.since = {0}]
    BY <2>1 DEF PadOf
  <2> HIDE DEF a, start, origin, fired
  <2>3. b = PadOf(e.frame, {ids}, origin, e.since, e.fired, e.blocked)
    BY <2>1 DEF PadOf
  <2> HIDE DEF b
  <2>4. c = PadOf(e.frame, {ids}, origin, e.since, fired, e.blocked)
    BY <2>3 DEF PadOf
  <2> HIDE DEF c
  <2> QED
    BY <2>2, <2>4 DEF PadOf
<1> HIDE DEF done, gone, other, timed, origin, fired, start
<1>6. way \in SUBSET Ways /\ (way = {} \/ \E x \in Ways : way = {x}) /\ (way # {} => ~fired)
  <2>1. start.origin = origin /\ start.fired = fired
    BY <1>5 DEF PadOf
  <2> QED
    BY <1>4, <2>1, OneDirection
<1> HIDE DEF way
<1>7. IsPad(swiping) /\ swiping.ids = {ids} /\ swiping.fired = (fired \/ way # {})
  <2> DEFINE x == fired \/ way # {}
  <2>1. swiping = [start EXCEPT !.fired = x] /\ x \in BOOLEAN
    BY <1>5 DEF PadOf
  <2> HIDE DEF x, swiping
  <2>2. swiping = PadOf(e.frame, {ids}, origin, {0}, x, e.blocked)
    BY <1>5, <2>1 DEF PadOf
  <2>3. swiping.ids = {ids} /\ swiping.fired = x /\ swiping.origin = origin
    BY <2>2 DEF PadOf
  <2>4. swiping = PadOf(swiping.frame, swiping.ids, swiping.origin, swiping.since, swiping.fired,
                        swiping.blocked)
    BY <2>2 DEF PadOf
  <2>5. IsPad(swiping)
    BY <1>4, <2>1, <2>3, <2>4 DEF IsPad
  <2> QED
    BY <2>3, <2>5 DEF x
<1> HIDE DEF swiping
<1>8. CASE done = T!Seen(gone, {}) \/ done = T!Seen(other, {})
  BY <1>2, <1>3, <1>8, TouchOver DEF T!Seen, done
<1>9. CASE done = T!Seen(e, {})
  BY <1>9 DEF T!Seen, Counts, done
<1>10. CASE done = T!Seen(swiping, way)
  <2>1. done.engine = swiping /\ done.events = way
    BY <1>10 DEF T!Seen
  <2>2. ~fired => e.ids = {} \/ ~e.fired \/ timed
    BY DEF fired
  <2> QED
    BY <1>6, <1>7, <2>1, <2>2 DEF Counts, done, timed
<1> QED
  BY <1>1, <1>8, <1>9, <1>10

LEMMA ProcessedCounts ==
    ASSUME NEW e, IsPad(e), NEW report, NEW centre \in Int \X Int
    PROVE  Counts(e, T!Processed(e, report, centre))
<1> DEFINE pushed == T!Pushed(e.frame, report)
           framed == [e EXCEPT !.frame = pushed.frame]
           six == [e EXCEPT !.frame = T!NoFrame, !.ids = {}, !.blocked = TRUE]
           fingers == CHOOSE ids \in pushed.whole : TRUE
           done == T!Processed(e, report, centre)
<1>1. \/ done = T!Seen(six, {}) \/ done = T!Seen(framed, {})
      \/ done = T!Swiped(framed, fingers, centre)
  BY DEF T!Processed
<1>2. IsPad(six) /\ six.ids = {}
  <2> DEFINE a == [e EXCEPT !.frame = T!NoFrame]
             b == [a EXCEPT !.ids = {}]
  <2>1. a = PadOf(T!NoFrame, e.ids, e.origin, e.since, e.fired, e.blocked)
    BY DEF IsPad, PadOf
  <2>2. six = [b EXCEPT !.blocked = TRUE]
    OBVIOUS
  <2> HIDE DEF a, six
  <2>3. b = PadOf(T!NoFrame, {}, e.origin, e.since, e.fired, e.blocked)
    BY <2>1 DEF PadOf
  <2> HIDE DEF b
  <2>4. six = PadOf(T!NoFrame, {}, e.origin, e.since, e.fired, TRUE)
    BY <2>2, <2>3 DEF PadOf
  <2> QED
    BY <2>4 DEF IsPad, PadOf
<1> HIDE DEF pushed
<1>3. IsPad(framed) /\ framed.ids = e.ids /\ framed.fired = e.fired /\ framed.since = e.since
  <2>1. framed = PadOf(pushed.frame, e.ids, e.origin, e.since, e.fired, e.blocked)
    BY DEF IsPad, PadOf
  <2> QED
    BY <2>1 DEF IsPad, PadOf
<1> HIDE DEF six, framed, fingers, done
<1>4. CASE done = T!Seen(six, {})
  BY <1>2, <1>4, TouchOver DEF T!Seen, done
<1>5. CASE done = T!Seen(framed, {})
  BY <1>3, <1>5 DEF T!Seen, Counts, done
<1>6. CASE done = T!Swiped(framed, fingers, centre)
  <2>1. Counts(framed, done)
    BY <1>3, <1>6, SwipedCounts
  <2> QED
    BY <1>3, <2>1 DEF Counts, done
<1> QED
  BY <1>1, <1>4, <1>5, <1>6

LEMMA PaddedTouches ==
    ASSUME TouchInv, NEW i \in T!Ids, NEW report \in T!Sends, NEW centre \in Points, NEW gap \in Gaps,
           T!Padded(i, report, centre, gap)
    PROVE  TouchInv'
<1> USE DEF TouchInv
<1> DEFINE aged == [pad EXCEPT !.since = T!Later(@, gap)]
           done == T!Processed(aged, report, centre)
           timed == \E s \in aged.since : s > 300
           fresh == done.engine.ids = {} \/ timed
<1>1. /\ pad' = done.engine /\ carried' = T!Sent(done.events, {})
      /\ felt' = [felt EXCEPT !.nav = T!Later(@, gap),
                     !.swipes = (IF fresh THEN 0 ELSE @) + T!Cardinality(done.events)]
      /\ shared' = [shared EXCEPT !.engine = {T!Aged(e, gap) : e \in @}]
      /\ used' = [used EXCEPT !.touches = @ + 1]
      /\ UNCHANGED <<gestures, threads>>
  BY DEF T!Padded
<1>2. /\ IsPad(aged) /\ aged.ids = pad.ids /\ aged.fired = pad.fired
  BY DEF TouchTypes, IsPad, PadOf
<1>3. centre \in Int \X Int /\ gap \in Nat
  BY TouchBounds
<1>4. Counts(aged, done)
  BY <1>2, <1>3, ProcessedCounts
<1> HIDE DEF aged, done, timed
<1>5. /\ IsPad(done.engine) /\ done.events \in SUBSET Ways /\ IsFiniteSet(done.events)
      /\ T!Cardinality(done.events) = IF done.events = {} THEN 0 ELSE 1
  <2>1. T!Cardinality(done.events) = Cardinality(done.events)
    BY DEF T!Cardinality, Cardinality
  <2> QED
    BY <1>4, <2>1, FS_EmptySet, FS_Singleton DEF Counts
<1>6. felt'.swipes = (IF fresh THEN 0 ELSE felt.swipes) + (IF done.events = {} THEN 0 ELSE 1)
      /\ felt'.nav = T!Later(felt.nav, gap) /\ felt' = [swipes |-> felt'.swipes, nav |-> felt'.nav]
  BY <1>1, <1>5 DEF TouchTypes, FeltTypes
<1>7. SwipeOnce'
  <2>1. fresh \/ pad.ids = {} \/ ~pad.fired => (IF fresh THEN 0 ELSE felt.swipes) = 0
    BY DEF SwipeOnce
  <2> DEFINE before == IF fresh THEN 0 ELSE felt.swipes
  <2>2. before \in Nat /\ before <= 1
    BY DEF SwipeOnce, TouchTypes, FeltTypes
  <2>3. done.events # {} => before = 0 /\ done.engine.ids # {} /\ done.engine.fired
    BY <1>2, <1>4, <2>1 DEF Counts, timed
  <2>4. done.engine.ids = {} \/ ~done.engine.fired => before = 0
    BY <1>2, <1>4, <2>1 DEF Counts, timed
  <2>5. felt'.swipes = before + (IF done.events = {} THEN 0 ELSE 1)
    BY <1>6
  <2> HIDE DEF before
  <2> QED
    BY <1>1, <2>2, <2>3, <2>4, <2>5 DEF SwipeOnce
<1>8. /\ carried' = [channel |-> carried'.channel, hand |-> carried'.hand, queue |-> carried'.queue]
      /\ carried'.channel \in Seq(Gestures) /\ carried'.hand = carried.hand
      /\ carried'.queue = carried.queue
      /\ Prompt'
  BY <1>1, <1>5, SentPrompt
<1>9. shared' = [sender |-> shared.sender, engine |-> {T!Aged(e, gap) : e \in shared.engine},
                 native |-> shared.native]
  BY <1>1 DEF TouchTypes, SharedTypes
<1>10. felt.nav \in SUBSET Nat
  BY DEF TouchTypes, FeltTypes
<1>11. \A e \in shared.engine :
         /\ IsEngine(T!Aged(e, gap)) /\ T!Aged(e, gap).accum = e.accum
         /\ \A t \in T!Later(felt.nav, gap) : t < 150 => T!Aged(e, gap).cool >= 150 - t
  <2> TAKE e \in shared.engine
  <2>1. IsEngine(e) /\ \A t \in felt.nav : t < 150 => e.cool >= 150 - t
    BY DEF TouchTypes, SharedTypes, Paced, Cooling
  <2> QED
    BY <1>3, <1>10, <2>1, AgedEngine
<1>12. T!Later(felt.nav, gap) \subseteq Nat
  BY <1>3, <1>10, LaterTimes
<1>13. TouchTypes'
  <2>1. DaemonTypes' /\ SharedTypes'
    <3>1. DaemonTypes'
      BY <1>1 DEF TouchTypes, DaemonTypes
    <3>2. shared'.sender \subseteq T!Ids /\ \A e \in shared'.engine : IsEngine(e)
      BY <1>9, <1>11 DEF TouchTypes, SharedTypes
    <3> QED
      BY <1>9, <3>1, <3>2 DEF SharedTypes
  <2>2. CarriedTypes'
    BY <1>8 DEF TouchTypes, CarriedTypes
  <2>3. FeltTypes'
    <3>1. used' \in [touches : Nat, toggles : Nat]
      BY <1>1 DEF TouchTypes, FeltTypes
    <3>2. felt'.swipes \in Nat
      BY <1>6 DEF TouchTypes, FeltTypes
    <3> QED
      BY <1>6, <1>12, <3>1, <3>2 DEF FeltTypes
  <2> QED
    BY <1>1, <1>5, <2>1, <2>2, <2>3 DEF TouchTypes
<1>14. OneThread'
  BY <1>1, <1>9 DEF OneThread, T!Hooked
<1>15. Paced'
  BY <1>6, <1>9, <1>11 DEF Paced, Cooling, Remainders
<1> QED
  BY <1>7, <1>8, <1>13, <1>14, <1>15

LEMMA TouchStep == TouchInv /\ [EdgesNext]_edgeVars => TouchInv'
<1> SUFFICES ASSUME TouchInv, [EdgesNext]_edgeVars PROVE TouchInv'
  OBVIOUS
<1>1. CASE UNCHANGED touchVars
  BY <1>1 DEF touchVars, TouchInv, TouchTypes, DaemonTypes, SharedTypes, CarriedTypes, FeltTypes,
              OneThread, T!Hooked, Paced, SwipeOnce, Prompt, Punctual
<1>2. CASE T!TouchNext
  BY <1>2, InstallTouches, LetGoTouches, EnableTouches, DisableTouches, ThreadEndsTouches,
     ReceiveTouches, ForwardTouches, HandleTouches, WheelTouches, PaddedTouches DEF T!TouchNext
<1> QED
  BY <1>1, <1>2 DEF EdgesNext, edgeVars

\* Keys and Touch: however often the configuration is reloaded and the feature
\* turned off and on, a press acts once, nothing is held that is up, the hook
\* records exactly while the page does, one gesture hook lives, a touch swipes
\* once, scrolls are paced, and nothing is heard of a thread that was stopped.
THEOREM InputSoundHolds == EdgesSpec => []InputSound
<1>1. EdgesInit => KeysInv /\ TouchInv
  BY KeysStart, TouchStart
<1>2. KeysInv /\ TouchInv /\ [EdgesNext]_edgeVars => (KeysInv /\ TouchInv)'
  BY KeysStep, TouchStep
<1>3. KeysInv /\ TouchInv => InputSound
  BY KeysAreSound, TouchIsSound DEF InputSound
<1> QED
  BY <1>1, <1>2, <1>3, PTL DEF EdgesSpec
=============================================================================
