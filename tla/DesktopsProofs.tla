---------------------------- MODULE DesktopsProofs ----------------------------
(***************************************************************************)
(* Proofs about the workspaces of all monitors: whatever commands, events  *)
(* and displays carry windows about, each is accounted for, for any number *)
(* of windows, monitors and workspaces.                                    *)
(***************************************************************************)
EXTENDS MCDesktops, FiniteSetTheorems, WellFoundedInduction, TLAPS

\* Workspaces in which no window is twice, none of them on a monitor that is
\* not connected.
OneEach(d) == \A w \in Windows : \A p, q \in Places(d, w) : p = q
DeskFits(d, present) ==
    /\ d \in [Monitors -> Desks]
    /\ \A m \in Monitors \ present : d[m] = BlankDesk
    /\ OneEach(d)

\* No window is twice in a stash either: it comes back as it was.
StashFits(l) ==
    \A w \in Windows, i, j \in Slot, a, b \in Modes :
       w \in l.desk[i][a] /\ w \in l.desk[j][b] => i = j /\ a = b
StashesFit == \A m \in Monitors : \A l \in stash[m] : StashFits(l)

DesktopsInv == Accounted /\ StashesFit

(***************************************************************************)
(* Workspaces and places.                                                  *)
(***************************************************************************)
LEMMA PlacesAre ==
    ASSUME NEW d, NEW w, NEW m \in Monitors, NEW i \in Slot, NEW a \in Modes
    PROVE  <<m, i, a>> \in Places(d, w) <=> w \in d[m][i][a]
BY DEF Places

LEMMA PlaceTypes ==
    ASSUME NEW d, NEW w, NEW p \in Places(d, w)
    PROVE  /\ p[1] \in Monitors /\ p[2] \in Slot /\ p[3] \in Modes
           /\ p = <<p[1], p[2], p[3]>> /\ w \in d[p[1]][p[2]][p[3]]
BY DEF Places

\* The same windows in the same workspaces are the same places.
LEMMA SamePlaces ==
    ASSUME NEW d, NEW e, NEW w,
           \A m \in Monitors, i \in Slot, a \in Modes : w \in d[m][i][a] <=> w \in e[m][i][a]
    PROVE  Places(d, w) = Places(e, w)
BY DEF Places

LEMMA BlankTypes ==
    /\ Blank \in Workspaces /\ BlankDesk \in Desks
    /\ \A i \in Slot : BlankDesk[i] = Blank
    /\ \A a \in Modes : Blank[a] = {}
BY DEF Blank, BlankDesk, Workspaces, Desks, Modes

\* No place is on a monitor that is not connected.
LEMMA PlacesConnected ==
    ASSUME NEW d, NEW present, DeskFits(d, present), NEW w, NEW p \in Places(d, w)
    PROVE  p[1] \in present
BY PlaceTypes, BlankTypes DEF DeskFits

LEMMA IdsAre ==
    ASSUME NEW ws \in Workspaces, NEW v
    PROVE  v \in Ids(ws) <=> \E a \in Modes : v \in ws[a]
BY DEF Ids, Modes

LEMMA DetachIs ==
    ASSUME NEW ws \in Workspaces, NEW W
    PROVE  /\ Detach(ws, W) \in Workspaces
           /\ Detach(ws, W).tiled = ws.tiled \ W
           /\ Detach(ws, W).floating = ws.floating \ W
           /\ Detach(ws, W).minimized = ws.minimized \ (W \cap ws.tiled)
BY DEF Detach, Workspaces

LEMMA DetachModes ==
    ASSUME NEW ws \in Workspaces, NEW W, NEW a \in Modes
    PROVE  Detach(ws, W)[a] = ws[a] \ W
BY DetachIs DEF Modes

LEMMA DetachBlank == ASSUME NEW W PROVE Detach(Blank, W) = Blank
<1>1. Blank \in Workspaces /\ Detach(Blank, W) \in Workspaces
  BY BlankTypes, DetachIs
<1>2. /\ Detach(Blank, W).tiled = Blank.tiled /\ Detach(Blank, W).floating = Blank.floating
      /\ Detach(Blank, W).minimized = Blank.minimized
  BY <1>1, DetachIs DEF Blank
<1> QED
  BY <1>1, <1>2 DEF Workspaces

LEMMA PutIs ==
    ASSUME NEW ws \in Workspaces, NEW w \in Windows, NEW mode \in Modes
    PROVE  /\ Put(ws, w, mode) \in Workspaces
           /\ w \notin Ids(ws) =>
                \A a \in Modes : \A v :
                   v \in Put(ws, w, mode)[a] <=> v \in ws[a] \/ (v = w /\ a = mode)
<1>1. CASE mode = "tiled"
  BY <1>1 DEF Put, Workspaces, Modes
<1>2. CASE mode = "floating"
  BY <1>2 DEF Put, Workspaces, Modes
<1> QED
  BY <1>1, <1>2 DEF Modes

\* Windows leave every workspace.
LEMMA DetachAllFits ==
    ASSUME NEW d, NEW present, DeskFits(d, present), NEW W
    PROVE  /\ DeskFits(DetachAll(d, W), present)
           /\ \A v \in Windows :
                Places(DetachAll(d, W), v) = IF v \in W THEN {} ELSE Places(d, v)
<1> DEFINE e == DetachAll(d, W)
<1>1. \A m \in Monitors, i \in Slot : d[m][i] \in Workspaces /\ e[m][i] = Detach(d[m][i], W)
  BY DEF DetachAll, DeskFits, Desks
<1>2. e \in [Monitors -> Desks]
  BY <1>1, DetachIs DEF DetachAll, Desks
<1>3. \A m \in Monitors \ present : e[m] = BlankDesk
  <2> SUFFICES ASSUME NEW m \in Monitors \ present PROVE e[m] = BlankDesk
    OBVIOUS
  <2>1. \A i \in Slot : e[m][i] = Blank
    BY <1>1, BlankTypes, DetachBlank DEF DeskFits
  <2> QED
    BY <2>1 DEF DetachAll, BlankDesk
<1>4. \A m \in Monitors, i \in Slot, a \in Modes : e[m][i][a] = d[m][i][a] \ W
  BY <1>1, DetachModes
<1>5. \A v \in Windows : Places(e, v) = IF v \in W THEN {} ELSE Places(d, v)
  <2> HIDE DEF e
  <2> SUFFICES ASSUME NEW v \in Windows
               PROVE  Places(e, v) = IF v \in W THEN {} ELSE Places(d, v)
    OBVIOUS
  <2>1. CASE v \in W
    BY <2>1, <1>4, PlaceTypes
  <2>2. CASE v \notin W
    BY <2>2, <1>4, SamePlaces
  <2> QED
    BY <2>1, <2>2
<1> QED
  BY <1>2, <1>3, <1>5 DEF DeskFits, OneEach

\* A window that is in no workspace goes to one.
LEMMA PutAtFits ==
    ASSUME NEW d, NEW present, DeskFits(d, present), NEW w \in Windows, Places(d, w) = {},
           NEW m \in Monitors \cap present, NEW i \in Slot, NEW mode \in Modes
    PROVE  /\ DeskFits(PutAt(d, m, i, w, mode), present)
           /\ \A v \in Windows :
                Places(PutAt(d, m, i, w, mode), v) =
                  IF v = w THEN {<<m, i, mode>>} ELSE Places(d, v)
<1> DEFINE e == PutAt(d, m, i, w, mode)
<1>1. \A n \in Monitors, j \in Slot : d[n][j] \in Workspaces /\ d[n] \in [Slot -> Workspaces]
  BY DEF DeskFits, Desks
<1>2. \A n \in Monitors, j \in Slot :
         e[n][j] = IF n = m /\ j = i THEN Put(d[n][j], w, mode) ELSE d[n][j]
  BY <1>1 DEF PutAt, DeskFits
<1>3. Put(d[m][i], w, mode) \in Workspaces
  BY <1>1, PutIs
<1>4. e \in [Monitors -> Desks]
  BY <1>1, <1>3 DEF PutAt, DeskFits, Desks
<1>5. \A n \in Monitors \ present : e[n] = BlankDesk
  BY DEF PutAt, DeskFits
<1>6. w \notin Ids(d[m][i])
  BY PlacesAre DEF Ids, Modes
<1>7. ASSUME NEW n \in Monitors, NEW j \in Slot, NEW a \in Modes, NEW v
      PROVE  v \in e[n][j][a] <=> v \in d[n][j][a] \/ (v = w /\ n = m /\ j = i /\ a = mode)
  <2> HIDE DEF e
  <2>1. d[m][i] \in Workspaces
    BY <1>1
  <2> DEFINE ws == d[m][i]
  <2>2. \A b \in Modes : \A u : u \in Put(ws, w, mode)[b] <=> u \in ws[b] \/ (u = w /\ b = mode)
    <3>1. ws \in Workspaces /\ w \notin Ids(ws)
      BY <2>1, <1>6
    <3> HIDE DEF ws
    <3> QED
      BY <3>1, PutIs
  <2>3. CASE n = m /\ j = i
    <3>1. e[n][j] = Put(d[m][i], w, mode)
      BY <1>2, <2>3
    <3> QED
      BY <2>2, <2>3, <3>1
  <2>4. CASE ~(n = m /\ j = i)
    <3>1. e[n][j] = d[n][j]
      BY <1>2, <2>4
    <3> QED
      BY <2>4, <3>1
  <2> QED
    BY <2>3, <2>4
<1>8. \A v \in Windows : Places(e, v) = IF v = w THEN {<<m, i, mode>>} ELSE Places(d, v)
  <2> HIDE DEF e
  <2> SUFFICES ASSUME NEW v \in Windows
               PROVE  Places(e, v) = IF v = w THEN {<<m, i, mode>>} ELSE Places(d, v)
    OBVIOUS
  <2>1. CASE v = w
    <3>1. \A n \in Monitors, j \in Slot, a \in Modes :
             w \in e[n][j][a] <=> n = m /\ j = i /\ a = mode
      <4>1. \A n \in Monitors, j \in Slot, a \in Modes : w \notin d[n][j][a]
        BY PlacesAre
      <4> QED
        BY <1>7, <4>1
    <3> QED
      BY <2>1, <3>1 DEF Places
  <2>2. CASE v # w
    <3>1. \A n \in Monitors, j \in Slot, a \in Modes : v \in d[n][j][a] <=> v \in e[n][j][a]
      BY <2>2, <1>7
    <3> QED
      BY <2>2, <3>1, SamePlaces
  <2> QED
    BY <2>1, <2>2
<1> QED
  BY <1>4, <1>5, <1>8 DEF DeskFits, OneEach

\* From wherever it was to one place.
LEMMA MovedFits ==
    ASSUME NEW d, NEW present, DeskFits(d, present), NEW w \in Windows,
           NEW m \in Monitors \cap present, NEW i \in Slot, NEW mode \in Modes,
           NEW f, f = PutAt(DetachAll(d, {w}), m, i, w, mode)
    PROVE  /\ DeskFits(f, present) /\ Places(f, w) # {}
           /\ \A v \in Windows \ {w} : Places(f, v) = Places(d, v)
<1> DEFINE e == DetachAll(d, {w})
<1>1. DeskFits(e, present) /\ \A v \in Windows : Places(e, v) = IF v = w THEN {} ELSE Places(d, v)
  BY DetachAllFits
<1> HIDE DEF e
<1>2. Places(e, w) = {}
  BY <1>1
<1>3. f = PutAt(e, m, i, w, mode)
  BY DEF e
<1>4. /\ DeskFits(PutAt(e, m, i, w, mode), present)
      /\ \A v \in Windows : Places(PutAt(e, m, i, w, mode), v) =
                               IF v = w THEN {<<m, i, mode>>} ELSE Places(e, v)
  BY <1>1, <1>2, PutAtFits
<1>5. DeskFits(f, present) /\ \A v \in Windows : Places(f, v) =
                               IF v = w THEN {<<m, i, mode>>} ELSE Places(e, v)
  BY <1>3, <1>4
<1> QED
  BY <1>1, <1>5

LEMMA CarryFits ==
    ASSUME NEW d, NEW present, DeskFits(d, present), NEW w \in Windows, Places(d, w) # {},
           NEW m \in Monitors \cap present, NEW i \in Slot
    PROVE  /\ DeskFits(Carry(d, w, m, i), present)
           /\ Places(Carry(d, w, m, i), w) # {}
           /\ \A v \in Windows \ {w} : Places(Carry(d, w, m, i), v) = Places(d, v)
<1> DEFINE mode == (CHOOSE p \in Places(d, w) : TRUE)[3]
<1>1. mode \in Modes
  BY PlaceTypes
<1> DEFINE e == Carry(d, w, m, i)
<1>2. e = PutAt(DetachAll(d, {w}), m, i, w, mode)
  BY DEF Carry
<1> HIDE DEF mode, e
<1>3. /\ DeskFits(e, present) /\ Places(e, w) # {}
      /\ \A v \in Windows \ {w} : Places(e, v) = Places(d, v)
  BY <1>1, <1>2, MovedFits
<1> QED
  BY <1>3 DEF e

\* Workspaces with windows taken out of them, or none.
LEMMA FewerFits ==
    ASSUME NEW d, NEW present, DeskFits(d, present),
           NEW e \in [Monitors -> Desks], \A m \in Monitors \ present : e[m] = BlankDesk,
           \A v \in Windows, m \in Monitors, i \in Slot, a \in Modes :
              v \in e[m][i][a] => v \in d[m][i][a]
    PROVE  DeskFits(e, present)
<1>1. \A v \in Windows : Places(e, v) \subseteq Places(d, v)
  BY DEF Places
<1> QED
  BY <1>1 DEF DeskFits, OneEach

\* Marks move no window.
LEMMA MarkFits ==
    ASSUME NEW d, NEW present, DeskFits(d, present), NEW S \in SUBSET Windows
    PROVE  /\ DeskFits(Mark(d, S), present)
           /\ \A v \in Windows : Places(Mark(d, S), v) = Places(d, v)
<1> DEFINE e == Mark(d, S)
<1>1. ASSUME NEW m \in Monitors, NEW i \in Slot
      PROVE  /\ d[m][i] \in Workspaces /\ e[m][i] \in Workspaces
             /\ e[m][i].tiled = d[m][i].tiled /\ e[m][i].floating = d[m][i].floating
             /\ e[m][i].minimized = d[m][i].minimized \cup (S \cap Ids(d[m][i]))
  <2>1. d[m][i] \in Workspaces
    BY DEF DeskFits, Desks
  <2>2. e[m][i] = [d[m][i] EXCEPT !.minimized = @ \cup (S \cap Ids(d[m][i]))]
    BY DEF Mark
  <2> QED
    BY <2>1, <2>2 DEF Workspaces
<1>2. e \in [Monitors -> Desks]
  BY <1>1 DEF Mark, Desks
<1>3. \A m \in Monitors \ present : e[m] = BlankDesk
  <2> SUFFICES ASSUME NEW m \in Monitors \ present PROVE e[m] = BlankDesk
    OBVIOUS
  <2>1. \A i \in Slot : d[m][i] = Blank
    BY BlankTypes DEF DeskFits
  <2>2. \A i \in Slot : e[m][i] \in Workspaces /\ e[m][i].tiled = {}
                        /\ e[m][i].floating = {} /\ e[m][i].minimized = {}
    BY <1>1, <2>1 DEF Blank, Ids
  <2>3. \A i \in Slot : e[m][i] = Blank
    BY <2>2 DEF Workspaces, Blank
  <2> QED
    BY <2>3 DEF Mark, BlankDesk
<1>4. \A m \in Monitors, i \in Slot, a \in Modes : e[m][i][a] = d[m][i][a]
  BY <1>1 DEF Modes
<1> HIDE DEF e
<1>5. \A v \in Windows : Places(e, v) = Places(d, v)
  BY <1>4, SamePlaces
<1>6. DeskFits(e, present)
  BY <1>2, <1>3, <1>4, FewerFits
<1> QED
  BY <1>5, <1>6 DEF e

\* Pruning takes out windows that Windows says are hidden.
LEMMA PruneFits ==
    ASSUME NEW d, NEW present, DeskFits(d, present)
    PROVE  /\ DeskFits(Prune(d), present)
           /\ \A v \in Windows \ Stale : Places(Prune(d), v) = Places(d, v)
           /\ \A v \in Windows : Places(Prune(d), v) \subseteq Places(d, v)
<1> DEFINE e == Prune(d)
<1>1. ASSUME NEW m \in Monitors, NEW i \in Slot
      PROVE  /\ d[m][i] \in Workspaces /\ e[m][i] \in Workspaces
             /\ e[m][i].tiled = d[m][i].tiled \ Stale /\ e[m][i].floating = d[m][i].floating \ Stale
             /\ e[m][i].minimized = d[m][i].minimized
  <2>1. d[m][i] \in Workspaces
    BY DEF DeskFits, Desks
  <2>2. e[m][i] = [d[m][i] EXCEPT !.tiled = @ \ Stale, !.floating = @ \ Stale]
    BY DEF Prune
  <2> QED
    BY <2>1, <2>2 DEF Workspaces
<1>2. e \in [Monitors -> Desks]
  BY <1>1 DEF Prune, Desks
<1>3. \A m \in Monitors \ present : e[m] = BlankDesk
  <2> SUFFICES ASSUME NEW m \in Monitors \ present PROVE e[m] = BlankDesk
    OBVIOUS
  <2>1. \A i \in Slot : d[m][i] = Blank
    BY BlankTypes DEF DeskFits
  <2>2. \A i \in Slot : e[m][i] \in Workspaces /\ e[m][i].tiled = {}
                        /\ e[m][i].floating = {} /\ e[m][i].minimized = {}
    BY <1>1, <2>1 DEF Blank
  <2>3. \A i \in Slot : e[m][i] = Blank
    BY <2>2 DEF Workspaces, Blank
  <2> QED
    BY <2>3 DEF Prune, BlankDesk
<1>4. \A m \in Monitors, i \in Slot, a \in Modes : e[m][i][a] = d[m][i][a] \ Stale
  BY <1>1 DEF Modes
<1> HIDE DEF e
<1>5. \A v \in Windows \ Stale : Places(e, v) = Places(d, v)
  <2> SUFFICES ASSUME NEW v \in Windows \ Stale PROVE Places(e, v) = Places(d, v)
    OBVIOUS
  <2> QED
    BY <1>4, SamePlaces
<1>6. DeskFits(e, present)
  BY <1>2, <1>3, <1>4, FewerFits
<1>7. \A v \in Windows : Places(e, v) \subseteq Places(d, v)
  BY <1>4 DEF Places
<1> QED
  BY <1>5, <1>6, <1>7 DEF e

LEMMA ResyncedFits ==
    ASSUME NEW d, NEW present, DeskFits(d, present)
    PROVE  /\ DeskFits(Resynced(d), present)
           /\ \A v \in Windows : Places(Resynced(d), v) = Places(d, v)
<1> DEFINE e == Resynced(d)
<1>1. ASSUME NEW m \in Monitors, NEW i \in Slot
      PROVE  /\ d[m][i] \in Workspaces /\ e[m][i] \in Workspaces
             /\ e[m][i].tiled = d[m][i].tiled /\ e[m][i].floating = d[m][i].floating
             /\ e[m][i].minimized = {w \in d[m][i].minimized : w \notin Ids(d[m][i])}
                                      \cup {w \in Ids(d[m][i]) : os[w] = "iconic"}
  <2>1. d[m][i] \in Workspaces
    BY DEF DeskFits, Desks
  <2>2. e[m][i] = [d[m][i] EXCEPT !.minimized =
                      {w \in @ : w \notin Ids(d[m][i])} \cup {w \in Ids(d[m][i]) : os[w] = "iconic"}]
    BY DEF Resynced
  <2>3. Ids(d[m][i]) \subseteq Windows
    BY <2>1 DEF Ids, Workspaces
  <2> QED
    BY <2>1, <2>2, <2>3 DEF Workspaces
<1>2. e \in [Monitors -> Desks]
  BY <1>1 DEF Resynced, Desks
<1>3. \A m \in Monitors \ present : e[m] = BlankDesk
  <2> SUFFICES ASSUME NEW m \in Monitors \ present PROVE e[m] = BlankDesk
    OBVIOUS
  <2>1. \A i \in Slot : d[m][i] = Blank
    BY BlankTypes DEF DeskFits
  <2>2. \A i \in Slot : e[m][i] \in Workspaces /\ e[m][i].tiled = {}
                        /\ e[m][i].floating = {} /\ e[m][i].minimized = {}
    BY <1>1, <2>1 DEF Blank, Ids
  <2>3. \A i \in Slot : e[m][i] = Blank
    BY <2>2 DEF Workspaces, Blank
  <2> QED
    BY <2>3 DEF Resynced, BlankDesk
<1>4. \A m \in Monitors, i \in Slot, a \in Modes : e[m][i][a] = d[m][i][a]
  BY <1>1 DEF Modes
<1> HIDE DEF e
<1>5. \A v \in Windows : Places(e, v) = Places(d, v)
  BY <1>4, SamePlaces
<1>6. DeskFits(e, present)
  BY <1>2, <1>3, <1>4, FewerFits
<1> QED
  BY <1>5, <1>6 DEF e

\* The pinned windows of a monitor come along to its new workspace.
LEMMA RehomedFits ==
    ASSUME NEW d, NEW present, DeskFits(d, present), sticky \subseteq Windows,
           NEW m \in Monitors \cap present, NEW i \in Slot
    PROVE  /\ DeskFits(Rehomed(d, m, i), present)
           /\ \A v \in Windows : Places(Rehomed(d, m, i), v) = {} <=> Places(d, v) = {}
<1> DEFINE movers == {w \in sticky : \E p \in Places(d, w) : p[1] = m /\ p[2] # i}
           Moving(mode) == {w \in movers : \E p \in Places(d, w) : p[3] = mode}
           e == DetachAll(d, movers)
           g == [e EXCEPT ![m][i].tiled = @ \cup Moving("tiled"),
                          ![m][i].floating = @ \cup Moving("floating")]
<1>1. Rehomed(d, m, i) = g
  BY DEF Rehomed
<1>2. /\ DeskFits(e, present)
      /\ \A v \in Windows : Places(e, v) = IF v \in movers THEN {} ELSE Places(d, v)
  BY DetachAllFits
<1>3. movers \subseteq Windows /\ \A a \in Modes : Moving(a) \subseteq movers
  OBVIOUS
<1>4. \A v \in movers : \E a \in Modes : \A b \in Modes : v \in Moving(b) <=> b = a
  <2> SUFFICES ASSUME NEW v \in movers
               PROVE  \E a \in Modes : \A b \in Modes : v \in Moving(b) <=> b = a
    OBVIOUS
  <2>1. PICK p \in Places(d, v) : TRUE
    OBVIOUS
  <2>2. \A q \in Places(d, v) : q = p
    BY <1>3 DEF DeskFits, OneEach
  <2>3. p[3] \in Modes
    BY PlaceTypes
  <2> QED
    BY <2>2, <2>3
<1> HIDE DEF e, movers, Moving
<1>5. ASSUME NEW n \in Monitors, NEW j \in Slot
      PROVE  /\ e[n][j] \in Workspaces /\ g[n][j] \in Workspaces
             /\ \A a \in Modes : \A v :
                  v \in g[n][j][a] <=> v \in e[n][j][a] \/ (n = m /\ j = i /\ v \in Moving(a))
  <2>1. e[n][j] \in Workspaces /\ e \in [Monitors -> [Slot -> Workspaces]]
    BY <1>2 DEF DeskFits, Desks
  <2>2. Moving("tiled") \subseteq Windows /\ Moving("floating") \subseteq Windows
    BY <1>3 DEF Modes
  <2>3. CASE n = m /\ j = i
    <3>1. g[n][j] = [e[n][j] EXCEPT !.tiled = @ \cup Moving("tiled"),
                                    !.floating = @ \cup Moving("floating")]
      BY <2>1, <2>3
    <3> DEFINE old == e[n][j]
               new == g[n][j]
               T   == Moving("tiled")
               F   == Moving("floating")
    <3>2. /\ new = [old EXCEPT !.tiled = @ \cup T, !.floating = @ \cup F]
          /\ old \in Workspaces /\ T \subseteq Windows /\ F \subseteq Windows
      BY <2>1, <2>2, <3>1
    <3>3. new \in Workspaces /\ new.tiled = old.tiled \cup T /\ new.floating = old.floating \cup F
      <4> HIDE DEF old, new, T, F
      <4> QED
        BY ONLY <3>2 DEF Workspaces
    <3> QED
      BY <2>1, <2>3, <3>3 DEF Modes
  <2>4. CASE ~(n = m /\ j = i)
    <3>1. g[n][j] = e[n][j]
      BY <2>1, <2>4
    <3> QED
      BY <2>1, <2>4, <3>1
  <2> QED
    BY <2>3, <2>4
<1>6. g \in [Monitors -> Desks] /\ \A n \in Monitors \ present : g[n] = BlankDesk
  <2>1. \A n \in Monitors : g[n] = IF n = m THEN [e[m] EXCEPT ![i] = g[m][i]] ELSE e[n]
    BY <1>2 DEF DeskFits, Desks
  <2>2. \A n \in Monitors : g[n] \in Desks
    BY <1>2, <1>5, <2>1 DEF DeskFits, Desks
  <2>3. DOMAIN g = Monitors /\ g = [n \in Monitors |-> g[n]]
    BY <1>2 DEF DeskFits
  <2> QED
    BY <1>2, <2>1, <2>2, <2>3 DEF DeskFits
<1> HIDE DEF g
<1>7. \A v \in Windows \ movers : Places(g, v) = Places(d, v)
  <2> SUFFICES ASSUME NEW v \in Windows \ movers PROVE Places(g, v) = Places(d, v)
    OBVIOUS
  <2>1. \A n \in Monitors, j \in Slot, a \in Modes : v \in g[n][j][a] <=> v \in e[n][j][a]
    BY <1>3, <1>5
  <2>2. Places(g, v) = Places(e, v)
    BY <2>1, SamePlaces
  <2> QED
    BY <1>2, <2>2
<1>8. \A v \in movers : \E a \in Modes : Places(g, v) = {<<m, i, a>>}
  <2> SUFFICES ASSUME NEW v \in movers PROVE \E a \in Modes : Places(g, v) = {<<m, i, a>>}
    OBVIOUS
  <2>1. PICK a \in Modes : \A b \in Modes : v \in Moving(b) <=> b = a
    BY <1>4
  <2>2. \A n \in Monitors, j \in Slot, b \in Modes : v \notin e[n][j][b]
    BY <1>2, <1>3, PlacesAre
  <2>3. \A n \in Monitors, j \in Slot, b \in Modes : v \in g[n][j][b] <=> n = m /\ j = i /\ b = a
    BY <1>5, <2>1, <2>2
  <2> QED
    BY <2>3 DEF Places
<1>9. DeskFits(g, present)
  BY <1>6, <1>7, <1>8 DEF DeskFits, OneEach
<1>10. \A v \in movers : Places(d, v) # {}
  BY DEF movers
<1> QED
  BY <1>1, <1>7, <1>8, <1>9, <1>10

(***************************************************************************)
(* Monitors come and go.                                                   *)
(***************************************************************************)
LEMMA OrderIs ==
    ASSUME NEW came \in SUBSET Monitors, NEW order \in SetToSeqs(came)
    PROVE  /\ DOMAIN order \subseteq Nat /\ \E n \in Nat : \A j \in DOMAIN order : j <= n
           /\ \A j \in DOMAIN order : order[j] \in came
           /\ \A j, k \in DOMAIN order : order[j] = order[k] => j = k
<1>1. IsFiniteSet(came)
  BY DesktopsAssumption, FS_Subset
<1>2. Cardinality(came) \in Nat
  BY <1>1, FS_CardinalityType
<1> DEFINE n == Cardinality(came)
<1>3. /\ order \in [1..n -> came]
      /\ \A j, k \in 1..n : j # k => order[j] # order[k]
  BY DEF SetToSeqs
<1> HIDE DEF n
<1>4. DOMAIN order = 1..n /\ n \in Nat
  BY <1>2, <1>3 DEF n
<1>5. \A j \in DOMAIN order : j \in Nat /\ j <= n
  BY <1>4
<1> QED
  BY <1>3, <1>4, <1>5

LEMMA ReturningIs ==
    ASSUME TypeOK, StashesFit, NEW m \in Monitors
    PROVE  /\ Returning(m).desk \in Desks /\ Returning(m).active \in Slot
           /\ StashFits(Returning(m))
           /\ \A v : v \in StashedIds(stash[m]) <=>
                       \E i \in Slot, a \in Modes : v \in Returning(m).desk[i][a]
<1>1. 1 \in Slot
  BY DesktopsAssumption DEF Slot
<1>2. CASE stash[m] = {}
  <2>1. Returning(m).desk = BlankDesk /\ Returning(m).active = 1
    BY <1>2 DEF Returning
  <2>2. \A i \in Slot, a \in Modes : \A v : v \notin Returning(m).desk[i][a]
    BY <2>1, BlankTypes
  <2>3. StashedIds(stash[m]) = {}
    BY <1>2 DEF StashedIds
  <2> QED
    BY <1>1, <2>1, <2>2, <2>3, BlankTypes DEF StashFits
<1>3. CASE stash[m] # {}
  <2>1. PICK l \in stash[m] : TRUE
    BY <1>3
  <2>2. stash[m] = {l} /\ l \in [desk : Desks, active : Slot]
    BY <2>1 DEF TypeOK
  <2>3. Returning(m) = l
    BY <2>2 DEF Returning
  <2>4. \A v : v \in StashedIds({l}) <=> \E i \in Slot, a \in Modes : v \in l.desk[i][a]
    <3>1. \A v : v \in StashedIds({l}) <=> \E i \in Slot : v \in Ids(l.desk[i])
      BY DEF StashedIds
    <3>2. \A i \in Slot : l.desk[i] \in Workspaces
      BY <2>2 DEF Desks
    <3> QED
      BY <3>1, <3>2, IdsAre
  <2> QED
    BY <2>2, <2>3, <2>4 DEF StashesFit
<1> QED
  BY <1>2, <1>3

\* A window of a stash leaves the workspaces that were there before.
LEMMA Pulled ==
    ASSUME NEW order, NEW m, NEW j \in DOMAIN order,
           \A i \in DOMAIN order : i >= j => order[i] # m,
           NEW v \in StashedIds(stash[order[j]])
    PROVE  v \in PulledAfter(order, m)
BY DEF PulledAfter

\* Who is pulled, is in the stash of a monitor that came later.
LEMMA PulledIs ==
    ASSUME NEW order, NEW m, NEW v \in PulledAfter(order, m)
    PROVE  \E j \in DOMAIN order : /\ \A i \in DOMAIN order : i >= j => order[i] # m
                                   /\ v \in StashedIds(stash[order[j]])
BY DEF PulledAfter

\* The last of several positions.
LEMMA GreatestNumber ==
    ASSUME NEW N \in SUBSET Nat, N # {}, NEW top \in Nat, \A k \in N : k <= top
    PROVE  \E j \in N : \A k \in N : k <= j
<1> DEFINE Left == {top - k : k \in N}
<1>1. Left \in SUBSET Nat /\ Left # {}
  <2>1. \A k \in N : top - k \in Nat
    OBVIOUS
  <2>2. PICK k \in N : TRUE
    OBVIOUS
  <2> QED
    BY <2>1, <2>2
<1>2. PICK m \in Left : \A k \in Left : ~(<<k, m>> \in OpToRel(<, Nat))
  <2> HIDE DEF Left
  <2> QED
    BY <1>1, NatLessThanWellFounded, WFMin, Zenon
<1>3. \A k \in Left : ~(k < m)
  <2> HIDE DEF Left
  <2> QED
    BY <1>1, <1>2, Zenon DEF OpToRel
<1>4. PICK j \in N : m = top - j
  OBVIOUS
<1>5. \A k \in N : ~(top - k < top - j)
  BY <1>3, <1>4
<1>6. \A k \in N : k <= j
  BY <1>5
<1> QED
  BY <1>6

\* Windows are where they were, or where a stash has them.
LEMMA ArrivedFits ==
    ASSUME DesktopsInv, NEW new \in SUBSET Monitors,
           NEW order \in SetToSeqs(new \ connected)
    PROVE  /\ DeskFits(Arrived(order).desk, connected \cup new)
           /\ Arrived(order).active \in [Monitors -> Slot]
           /\ \A v \in Windows :
                /\ Places(desk, v) # {} => Places(Arrived(order).desk, v) # {}
                /\ Places(Arrived(order).desk, v) # {} =>
                     Places(desk, v) # {} \/ \E m \in Monitors : v \in StashedIds(stash[m])
<1> DEFINE before == [m \in Monitors |->
                        IF m \in Range(order) THEN Returning(m).desk ELSE desk[m]]
           e == Arrived(order).desk
<1>1. /\ TypeOK /\ OnePlace /\ StashesFit /\ connected \subseteq Monitors
      /\ DeskFits(desk, connected)
  BY DEF DesktopsInv, Accounted, TypeOK, DeskFits, OnePlace, OneEach
<1>2. /\ DOMAIN order \subseteq Nat
      /\ \A j \in DOMAIN order : order[j] \in new \ connected
      /\ \A j, k \in DOMAIN order : order[j] = order[k] => j = k
  BY OrderIs
<1>3. \A m \in Range(order) : m \in new \ connected /\ \E j \in DOMAIN order : m = order[j]
  BY <1>2 DEF Range
<1>4. \A j \in DOMAIN order : order[j] \in Range(order)
  BY DEF Range
<1>5. before \in [Monitors -> Desks]
  BY <1>1, ReturningIs DEF DeskFits
<1>6. Arrived(order).active \in [Monitors -> Slot]
  BY <1>1, ReturningIs DEF Arrived, TypeOK
<1>7. ASSUME NEW m \in Monitors, NEW i \in Slot
      PROVE  /\ before[m][i] \in Workspaces
             /\ e[m][i] = Detach(before[m][i], PulledAfter(order, m))
             /\ e[m] \in [Slot -> Workspaces]
  <2>1. \A j \in Slot : before[m][j] \in Workspaces
    BY <1>5 DEF Desks
  <2>2. e[m] = [j \in Slot |-> Detach(before[m][j], PulledAfter(order, m))]
    BY DEF Arrived
  <2> HIDE DEF before
  <2> QED
    BY <2>1, <2>2, DetachIs
<1>8. e \in [Monitors -> Desks]
  <2>1. 1 \in Slot
    BY DesktopsAssumption DEF Slot
  <2>2. \A m \in Monitors : e[m] \in Desks
    BY <1>7, <2>1 DEF Desks
  <2>3. e = [m \in Monitors |-> e[m]]
    BY DEF Arrived
  <2> QED
    BY <2>2, <2>3
<1>9. ASSUME NEW m \in Monitors, NEW i \in Slot, NEW a \in Modes, NEW v
      PROVE  v \in e[m][i][a] <=> v \in before[m][i][a] /\ v \notin PulledAfter(order, m)
  BY <1>7, DetachModes
<1>10. /\ \A m \in Range(order) : before[m] = Returning(m).desk
       /\ \A m \in Monitors \ Range(order) : before[m] = desk[m]
  BY <1>3
<1>11. \A m \in Monitors \ (connected \cup new) : e[m] = BlankDesk
  <2> SUFFICES ASSUME NEW m \in Monitors \ (connected \cup new) PROVE e[m] = BlankDesk
    OBVIOUS
  <2>1. \A i \in Slot : before[m][i] = Blank
    BY <1>1, <1>3, <1>10, BlankTypes DEF DeskFits
  <2>2. \A i \in Slot : e[m][i] = Blank
    BY <1>7, <2>1, DetachBlank
  <2>3. e[m] = [i \in Slot |-> e[m][i]]
    BY <1>8 DEF Desks
  <2> QED
    BY <2>2, <2>3 DEF BlankDesk
<1> HIDE DEF before, e
<1>12. ASSUME NEW m \in Range(order), NEW i \in Slot, NEW a \in Modes, NEW v, v \in e[m][i][a]
       PROVE  v \in StashedIds(stash[m])
  BY <1>1, <1>3, <1>9, <1>10, <1>12, ReturningIs
<1>13. ASSUME NEW m \in Range(order), NEW n \in Monitors, m # n,
              NEW i \in Slot, NEW a \in Modes, NEW h \in Slot, NEW b \in Modes,
              NEW v, v \in e[m][i][a], v \in e[n][h][b]
       PROVE  FALSE
  <2>1. PICK j \in DOMAIN order : m = order[j]
    BY <1>3
  <2>2. v \in StashedIds(stash[m]) /\ v \notin PulledAfter(order, n) /\ v \notin PulledAfter(order, m)
    BY <1>3, <1>9, <1>12, <1>13
  <2>3. PICK k \in DOMAIN order : k >= j /\ order[k] = n
    BY <2>1, <2>2, Pulled
  <2>4. n \in Range(order) /\ v \in StashedIds(stash[n])
    BY <1>4, <1>12, <1>13, <2>3
  <2>5. \A l \in DOMAIN order : l >= k => order[l] # m
    BY <1>2, <1>13, <2>1, <2>3
  <2> QED
    BY <2>2, <2>3, <2>4, <2>5, Pulled
<1>14. OneEach(e)
  <2> SUFFICES ASSUME NEW v \in Windows, NEW p \in Places(e, v), NEW q \in Places(e, v)
               PROVE  p = q
    BY DEF OneEach
  <2>1. /\ p[1] \in Monitors /\ p[2] \in Slot /\ p[3] \in Modes /\ v \in e[p[1]][p[2]][p[3]]
        /\ q[1] \in Monitors /\ q[2] \in Slot /\ q[3] \in Modes /\ v \in e[q[1]][q[2]][q[3]]
        /\ p = <<p[1], p[2], p[3]>> /\ q = <<q[1], q[2], q[3]>>
    BY PlaceTypes
  <2>2. v \in before[p[1]][p[2]][p[3]] /\ v \in before[q[1]][q[2]][q[3]]
    BY <1>9, <2>1
  <2>3. CASE p[1] # q[1] /\ (p[1] \in Range(order) \/ q[1] \in Range(order))
    BY <1>13, <2>1, <2>3
  <2>4. CASE p[1] \notin Range(order) /\ q[1] \notin Range(order)
    <3>1. v \in desk[p[1]][p[2]][p[3]] /\ v \in desk[q[1]][q[2]][q[3]]
      BY <1>10, <2>1, <2>2, <2>4
    <3>2. p \in Places(desk, v) /\ q \in Places(desk, v)
      BY <2>1, <3>1, PlacesAre
    <3> QED
      BY <1>1, <3>2 DEF OnePlace
  <2>5. CASE p[1] = q[1] /\ p[1] \in Range(order)
    <3>1. v \in Returning(p[1]).desk[p[2]][p[3]] /\ v \in Returning(p[1]).desk[q[2]][q[3]]
      BY <1>10, <2>2, <2>5
    <3>2. StashFits(Returning(p[1]))
      BY <1>1, <2>1, ReturningIs
    <3>3. p[2] = q[2] /\ p[3] = q[3]
      BY <2>1, <3>1, <3>2 DEF StashFits
    <3> QED
      BY <2>1, <2>5, <3>3
  <2> QED
    BY <2>3, <2>4, <2>5
<1>15. ASSUME NEW v \in Windows, Places(desk, v) # {} PROVE Places(e, v) # {}
  <2>1. PICK p \in Places(desk, v) : TRUE
    BY <1>15
  <2>2. /\ p[1] \in connected /\ p[2] \in Slot /\ p[3] \in Modes
        /\ v \in desk[p[1]][p[2]][p[3]]
    BY <1>1, <2>1, PlaceTypes, PlacesConnected
  <2> DEFINE Holders == {j \in DOMAIN order : v \in StashedIds(stash[order[j]])}
  <2>3. CASE Holders = {}
    <3>1. v \notin PulledAfter(order, p[1])
      BY <2>3, PulledIs
    <3>2. p[1] \notin Range(order)
      BY <1>3, <2>2
    <3>3. v \in e[p[1]][p[2]][p[3]]
      BY <1>1, <1>9, <1>10, <2>2, <3>1, <3>2
    <3> QED
      BY <1>1, <2>2, <3>3, PlacesAre
  <2>4. CASE Holders # {}
    <3>1. PICK j \in Holders : \A k \in Holders : k <= j
      <4>1. Holders \in SUBSET Nat /\ \E n \in Nat : \A k \in Holders : k <= n
        BY <1>2, OrderIs
      <4> HIDE DEF Holders
      <4> QED
        BY <2>4, <4>1, GreatestNumber
    <3> DEFINE m == order[j]
    <3>2. m \in Range(order) /\ m \in Monitors /\ v \in StashedIds(stash[m])
      BY <1>2, <1>4
    <3>3. v \notin PulledAfter(order, m)
      <4> SUFFICES ASSUME v \in PulledAfter(order, m) PROVE FALSE
        OBVIOUS
      <4>1. PICK k \in DOMAIN order : /\ \A i \in DOMAIN order : i >= k => order[i] # m
                                      /\ v \in StashedIds(stash[order[k]])
        BY PulledIs
      <4>2. k <= j /\ j \in DOMAIN order /\ k \in Nat /\ j \in Nat
        BY <1>2, <3>1, <4>1
      <4> QED
        BY <4>1, <4>2
    <3> HIDE DEF m
    <3>4. PICK i \in Slot, a \in Modes : v \in Returning(m).desk[i][a]
      BY <1>1, <3>2, ReturningIs
    <3>5. v \in e[m][i][a]
      BY <1>9, <1>10, <3>2, <3>3, <3>4
    <3> QED
      BY <3>2, <3>5, PlacesAre
  <2> QED
    BY <2>3, <2>4
<1>16. ASSUME NEW v \in Windows, Places(e, v) # {}
       PROVE  Places(desk, v) # {} \/ \E m \in Monitors : v \in StashedIds(stash[m])
  <2>1. PICK p \in Places(e, v) : TRUE
    BY <1>16
  <2>2. /\ p[1] \in Monitors /\ p[2] \in Slot /\ p[3] \in Modes /\ v \in e[p[1]][p[2]][p[3]]
    BY <2>1, PlaceTypes
  <2>3. CASE p[1] \in Range(order)
    BY <1>12, <2>2, <2>3
  <2>4. CASE p[1] \notin Range(order)
    <3>1. v \in desk[p[1]][p[2]][p[3]]
      BY <1>9, <1>10, <2>2, <2>4
    <3> QED
      BY <2>2, <3>1, PlacesAre
  <2> QED
    BY <2>3, <2>4
<1> QED
  BY <1>6, <1>8, <1>11, <1>14, <1>15, <1>16 DEF DeskFits, e

\* The windows of the monitors that left go to one workspace of another.
LEMMA MigratedFits ==
    ASSUME NEW d, NEW present, DeskFits(d, present), present \subseteq Monitors,
           NEW gone \in SUBSET Monitors, NEW primary \in present \ gone, NEW i \in Slot,
           NEW e, e = [m \in Monitors |->
                         IF m \in gone THEN BlankDesk ELSE Migrate(d, gone, primary, i)[m]]
    PROVE  /\ DeskFits(e, present \ gone)
           /\ \A v \in Windows : Places(e, v) = {} <=> Places(d, v) = {}
<1> DEFINE g == Migrate(d, gone, primary, i)
           from == {d[n][j] : n \in gone, j \in Slot}
           Taken(a) == UNION {ws[a] : ws \in from}
           marks == UNION {ws.minimized \cap Ids(ws) : ws \in from}
           taken == [tiled |-> d[primary][i].tiled \cup Taken("tiled"),
                     floating |-> d[primary][i].floating \cup Taken("floating"),
                     minimized |-> d[primary][i].minimized \cup marks]
<1>1. d \in [Monitors -> [Slot -> Workspaces]]
  BY DEF DeskFits, Desks
<1>2. \A ws \in from : ws \in Workspaces
  BY <1>1
<1>3. g = [d EXCEPT ![primary][i] = taken]
  BY DEF Migrate
<1>4. taken \in Workspaces
  <2>1. marks \subseteq Windows /\ Taken("tiled") \subseteq Windows /\ Taken("floating") \subseteq Windows
    BY <1>2 DEF Workspaces
  <2>2. d[primary][i] \in Workspaces
    BY <1>1
  <2> HIDE DEF marks, Taken
  <2> QED
    BY <2>1, <2>2 DEF Workspaces
<1>5. \A a \in Modes : \A v : v \in taken[a] <=> v \in d[primary][i][a] \/ v \in Taken(a)
  <2> HIDE DEF Taken
  <2>1. \A v : v \in taken["tiled"] <=> v \in d[primary][i].tiled \/ v \in Taken("tiled")
    OBVIOUS
  <2>2. \A v : v \in taken["floating"] <=> v \in d[primary][i].floating \/ v \in Taken("floating")
    OBVIOUS
  <2>3. d[primary][i] \in Workspaces
    BY <1>1
  <2> HIDE DEF taken
  <2> QED
    BY <2>1, <2>2, <2>3 DEF Modes
<1>6. \A a \in Modes : \A v :
         v \in Taken(a) <=> \E n \in gone, j \in Slot : v \in d[n][j][a]
  OBVIOUS
<1> HIDE DEF taken, Taken, marks, from
<1>7. \A n \in Monitors, j \in Slot :
         e[n][j] = IF n \in gone THEN Blank
                   ELSE IF n = primary /\ j = i THEN taken ELSE d[n][j]
  BY <1>1, <1>3, BlankTypes
<1>8. e \in [Monitors -> Desks]
  <2>1. g \in [Monitors -> [Slot -> Workspaces]]
    <3> HIDE DEF g
    <3> QED
      BY <1>1, <1>3, <1>4
  <2> HIDE DEF g
  <2> QED
    BY <2>1, BlankTypes DEF Desks, g
<1>9. \A n \in Monitors \ (present \ gone) : e[n] = BlankDesk
  <2>1. \A n \in Monitors \ gone : n # primary => g[n] = d[n]
    <3> HIDE DEF g
    <3> QED
      BY <1>1, <1>3
  <2> HIDE DEF g
  <2> QED
    BY <2>1 DEF DeskFits, g
<1>10. ASSUME NEW n \in Monitors, NEW j \in Slot, NEW a \in Modes, NEW v
       PROVE  v \in e[n][j][a] <=>
                /\ n \notin gone
                /\ \/ v \in d[n][j][a]
                   \/ n = primary /\ j = i /\ \E o \in gone, k \in Slot : v \in d[o][k][a]
  BY <1>5, <1>6, <1>7, BlankTypes
<1> HIDE DEF g
<1>11. ASSUME NEW v \in Windows, NEW p \in Places(e, v)
       PROVE  \/ p \in Places(d, v) /\ p[1] \notin gone
              \/ /\ p[1] = primary /\ p[2] = i
                 /\ \E q \in Places(d, v) : q[1] \in gone /\ q[3] = p[3]
  <2>1. /\ p[1] \in Monitors /\ p[2] \in Slot /\ p[3] \in Modes
        /\ v \in e[p[1]][p[2]][p[3]] /\ p = <<p[1], p[2], p[3]>>
    BY PlaceTypes
  <2>2. CASE p[1] \notin gone /\ v \in d[p[1]][p[2]][p[3]]
    BY <2>1, <2>2, PlacesAre
  <2>3. CASE p[1] = primary /\ p[2] = i /\ \E o \in gone, k \in Slot : v \in d[o][k][p[3]]
    <3>1. PICK o \in gone, k \in Slot : v \in d[o][k][p[3]]
      BY <2>3
    <3>2. <<o, k, p[3]>> \in Places(d, v)
      BY <2>1, <3>1, PlacesAre
    <3> QED
      BY <2>3, <3>2
  <2> QED
    BY <1>10, <2>1, <2>2, <2>3
<1>12. OneEach(e)
  <2> SUFFICES ASSUME NEW v \in Windows, NEW p \in Places(e, v), NEW q \in Places(e, v)
               PROVE  p = q
    BY DEF OneEach
  <2>1. p = <<p[1], p[2], p[3]>> /\ q = <<q[1], q[2], q[3]>>
    BY PlaceTypes
  <2>2. \A r, s \in Places(d, v) : r = s
    BY DEF DeskFits, OneEach
  <2> QED
    BY <1>11, <2>1, <2>2
<1>13. ASSUME NEW v \in Windows, NEW p \in Places(d, v) PROVE Places(e, v) # {}
  <2>1. /\ p[1] \in Monitors /\ p[2] \in Slot /\ p[3] \in Modes /\ v \in d[p[1]][p[2]][p[3]]
    BY PlaceTypes
  <2>2. CASE p[1] \in gone
    <3>1. primary \in Monitors /\ v \in e[primary][i][p[3]]
      BY <1>10, <2>1, <2>2
    <3>2. <<primary, i, p[3]>> \in Places(e, v)
      BY <2>1, <3>1, PlacesAre
    <3> QED
      BY <3>2
  <2>3. CASE p[1] \notin gone
    <3>1. v \in e[p[1]][p[2]][p[3]]
      BY <1>10, <2>1, <2>3
    <3>2. <<p[1], p[2], p[3]>> \in Places(e, v)
      BY <2>1, <3>1, PlacesAre
    <3> QED
      BY <3>2
  <2> QED
    BY <2>2, <2>3
<1> QED
  BY <1>8, <1>9, <1>11, <1>12, <1>13 DEF DeskFits

(***************************************************************************)
(* The steps.                                                              *)
(***************************************************************************)
LEMMA InvFits ==
    ASSUME DesktopsInv
    PROVE  /\ DeskFits(desk, connected) /\ connected \subseteq Monitors
           /\ focused \in connected /\ focused \in Monitors \cap connected
           /\ active \in [Monitors -> Slot] /\ active[focused] \in Slot
           /\ \A w \in Windows : Places(desk, w) # {} => os[w] # "gone"
BY DEF DesktopsInv, Accounted, TypeOK, DeskFits, OnePlace, OneEach, NoGhosts

\* The focus and the active workspaces after a window was followed.
LEMMA FollowTypes ==
    ASSUME DesktopsInv, NEW d, DeskFits(d, connected), NEW w \in Windows,
           NEW p \in Places(d, w), Follow(p[1], p[2])
    PROVE  focused' \in connected /\ active' \in [Monitors -> Slot]
<1>1. p[1] \in connected /\ p[2] \in Slot
  BY PlaceTypes, PlacesConnected
<1> QED
  BY <1>1, InvFits DEF Follow

LEMMA ForegroundTypes ==
    ASSUME DesktopsInv, DeskFits(desk', connected), NEW candidates \in SUBSET Windows,
           FollowForeground(candidates)
    PROVE  focused' \in connected /\ active' \in [Monitors -> Slot]
<1>1. CASE UNCHANGED <<focused, active>>
  BY <1>1, InvFits
<1>2. CASE \E w \in candidates : \E p \in Places(desk', w) : Follow(p[1], p[2])
  BY <1>2, FollowTypes
<1> QED
  BY <1>1, <1>2 DEF FollowForeground

\* Steps that carry windows about: none goes, none comes.
LEMMA CarryingStep ==
    ASSUME DesktopsInv, UNCHANGED <<connected, stash, pad, os>>, DeskFits(desk', connected),
           focused' \in connected, active' \in [Monitors -> Slot],
           \A v \in Windows :
              /\ os[v] # "hidden" /\ Places(desk, v) # {} => Places(desk', v) # {}
              /\ Places(desk', v) # {} => Places(desk, v) # {},
           \A v \in sticky' : v \in sticky \/ (v \in Windows /\ Places(desk, v) # {})
    PROVE  DesktopsInv'
<1> USE DEF DesktopsInv, Accounted
<1>1. TypeOK'
  BY DEF TypeOK, DeskFits
<1>2. OnePlace'
  BY DEF OnePlace, DeskFits, OneEach
<1>3. NothingLost'
  BY DEF NothingLost, Managed
<1>4. NoGhosts'
  BY InvFits DEF NoGhosts, TypeOK
<1>5. StashesFit'
  BY DEF StashesFit, TypeOK
<1> QED
  BY <1>1, <1>2, <1>3, <1>4, <1>5

LEMMA AdmitFits ==
    ASSUME DesktopsInv, NEW w \in Windows, Admit(w)
    PROVE  /\ DeskFits(desk', connected) /\ focused' \in connected
           /\ sticky' \subseteq sticky \cup {w}
           /\ Places(desk', w) # {} \/ HiddenPad(w) \in pad
           /\ \A v \in Windows \ {w} : Places(desk', v) = Places(desk, v)
<1>1. CASE Managed(w)
  BY <1>1, InvFits DEF Admit, Managed
<1>2. CASE ~Managed(w)
  <2>1. PICK m \in connected, i \in Slot, mode \in Modes, ruleSticky \in BOOLEAN, takesFocus \in BOOLEAN :
           /\ desk' = PutAt(desk, m, i, w, mode)
           /\ sticky' = IF ruleSticky THEN sticky \cup {w} ELSE sticky
           /\ focused' = IF takesFocus /\ i = active[m] THEN m ELSE focused
    BY <1>2 DEF Admit
  <2>2. Places(desk, w) = {} /\ m \in Monitors \cap connected /\ DeskFits(desk, connected)
    BY <1>2, InvFits DEF Managed
  <2>3. /\ DeskFits(PutAt(desk, m, i, w, mode), connected)
        /\ \A v \in Windows : Places(PutAt(desk, m, i, w, mode), v) =
                                 IF v = w THEN {<<m, i, mode>>} ELSE Places(desk, v)
    BY <2>2, PutAtFits
  <2>4. focused' \in connected
    BY <2>1, InvFits
  <2> QED
    BY <2>1, <2>3, <2>4
<1> QED
  BY <1>1, <1>2

LEMMA ScrubFits ==
    ASSUME DesktopsInv, NEW w \in Windows, NEW m \in Monitors
    PROVE  /\ Scrub(stash, w)[m] \subseteq [desk : Desks, active : Slot]
           /\ \A k, l \in Scrub(stash, w)[m] : k = l
           /\ \A l \in Scrub(stash, w)[m] : StashFits(l)
           /\ StashedIds(Scrub(stash, w)[m]) \subseteq StashedIds(stash[m]) \ {w}
<1> DEFINE D(l) == [i \in Slot |-> Detach(l.desk[i], {w})]
           L(l) == [l EXCEPT !.desk = D(l)]
<1>1. Scrub(stash, w)[m] = {l \in {L(k) : k \in stash[m]} : StashedIds({l}) # {}}
  BY DEF Scrub
<1>2. stash[m] \subseteq [desk : Desks, active : Slot] /\ \A k, l \in stash[m] : k = l
  BY DEF DesktopsInv, Accounted, TypeOK
<1>3. ASSUME NEW l \in stash[m]
      PROVE  /\ L(l) \in [desk : Desks, active : Slot]
             /\ StashFits(L(l))
             /\ StashedIds({L(l)}) \subseteq StashedIds(stash[m]) \ {w}
  <2>1. \A i \in Slot : l.desk[i] \in Workspaces
    BY <1>2 DEF Desks
  <2>2. D(l) \in Desks
    BY <2>1, DetachIs DEF Desks
  <2>3. L(l) \in [desk : Desks, active : Slot] /\ L(l).desk = D(l)
    <3> HIDE DEF D
    <3> QED
      BY <1>2, <2>2
  <2> HIDE DEF L
  <2>4. \A i \in Slot, a \in Modes : L(l).desk[i][a] = l.desk[i][a] \ {w}
    BY <2>1, <2>3, DetachModes
  <2>5. StashFits(l)
    BY DEF DesktopsInv, StashesFit
  <2>6. StashFits(L(l))
    BY <2>4, <2>5 DEF StashFits
  <2>7. ASSUME NEW v \in StashedIds({L(l)}) PROVE v \in StashedIds(stash[m]) /\ v # w
    <3>1. PICK i \in Slot : v \in Ids(L(l).desk[i])
      BY <2>7 DEF StashedIds
    <3>2. L(l).desk[i] \in Workspaces
      BY <2>2, <2>3 DEF Desks
    <3>3. PICK a \in Modes : v \in L(l).desk[i][a]
      BY <3>1, <3>2, IdsAre
    <3>4. v \in l.desk[i][a] /\ v # w
      BY <2>4, <3>3
    <3>5. v \in Ids(l.desk[i])
      BY <2>1, <3>4, IdsAre
    <3> QED
      BY <3>4, <3>5 DEF StashedIds
  <2> QED
    BY <2>3, <2>6, <2>7
<1> HIDE DEF L
<1>4. \A k, l \in Scrub(stash, w)[m] : k = l
  BY <1>1, <1>2
<1>5. StashedIds(Scrub(stash, w)[m]) \subseteq StashedIds(stash[m]) \ {w}
  <2> SUFFICES ASSUME NEW v \in StashedIds(Scrub(stash, w)[m])
               PROVE  v \in StashedIds(stash[m]) \ {w}
    OBVIOUS
  <2>1. PICK l \in Scrub(stash, w)[m] : v \in StashedIds({l})
    BY DEF StashedIds
  <2>2. PICK k \in stash[m] : l = L(k)
    BY <1>1, <2>1
  <2> QED
    BY <1>3, <2>1, <2>2
<1>6. \A l \in Scrub(stash, w)[m] : \E k \in stash[m] : l = L(k)
  BY <1>1
<1>7. /\ Scrub(stash, w)[m] \subseteq [desk : Desks, active : Slot]
      /\ \A l \in Scrub(stash, w)[m] : StashFits(l)
  BY <1>3, <1>6
<1> QED
  BY <1>4, <1>5, <1>7

LEMMA CreatedStep == ASSUME DesktopsInv, NEW w \in Windows, Created(w) PROVE DesktopsInv'
<1> USE DEF DesktopsInv, Accounted
<1>1. /\ DeskFits(desk', connected) /\ focused' \in connected
      /\ sticky' \subseteq sticky \cup {w}
      /\ Places(desk', w) # {} \/ HiddenPad(w) \in pad
      /\ \A v \in Windows \ {w} : Places(desk', v) = Places(desk, v)
  BY AdmitFits DEF Created
<1>2. UNCHANGED <<connected, active, stash, pad>> /\ os' = [os EXCEPT ![w] = "shown"]
  BY DEF Created
<1>3. TypeOK'
  BY <1>1, <1>2 DEF TypeOK, DeskFits
<1>4. OnePlace'
  BY <1>1 DEF OnePlace, DeskFits, OneEach
<1>5. NothingLost'
  BY <1>1, <1>2 DEF NothingLost, Managed, TypeOK
<1>6. NoGhosts'
  BY <1>1, <1>2 DEF NoGhosts, TypeOK
<1>7. StashesFit'
  BY <1>2 DEF StashesFit
<1> QED
  BY <1>3, <1>4, <1>5, <1>6, <1>7

LEMMA DestroyedStep == ASSUME DesktopsInv, NEW w \in Windows, Destroyed(w) PROVE DesktopsInv'
<1> USE DEF DesktopsInv, Accounted
<1>1. /\ DeskFits(desk', connected)
      /\ \A v \in Windows : Places(desk', v) = IF v \in {w} THEN {} ELSE Places(desk, v)
  BY InvFits, DetachAllFits DEF Destroyed
<1>2. focused' \in connected /\ active' \in [Monitors -> Slot]
  BY <1>1, ForegroundTypes DEF Destroyed, Shown
<1>3. /\ connected' = connected /\ os' = [os EXCEPT ![w] = "gone"]
      /\ stash' = Scrub(stash, w) /\ sticky' = sticky \ {w}
      /\ pad' = {p \in pad : p.window # w}
  BY DEF Destroyed
<1>4. \A m \in Monitors :
         /\ stash'[m] \subseteq [desk : Desks, active : Slot]
         /\ \A k, l \in stash'[m] : k = l
         /\ \A l \in stash'[m] : StashFits(l)
         /\ StashedIds(stash'[m]) \subseteq StashedIds(stash[m]) \ {w}
  BY <1>3, ScrubFits
<1>5. TypeOK'
  BY <1>1, <1>2, <1>3, <1>4 DEF TypeOK, DeskFits
<1>6. OnePlace'
  BY <1>1 DEF OnePlace, DeskFits, OneEach
<1>7. NothingLost'
  BY <1>1, <1>3 DEF NothingLost, Managed, TypeOK, HiddenPad
<1>8. NoGhosts'
  <2> SUFFICES ASSUME NEW v \in Windows, os'[v] = "gone"
               PROVE  /\ Places(desk', v) = {} /\ v \notin sticky'
                      /\ \A m \in Monitors : v \notin StashedIds(stash'[m])
                      /\ \A p \in pad' : p.window # v
    BY DEF NoGhosts, StashedIds
  <2>1. CASE v = w
    BY <1>1, <1>3, <1>4, <2>1
  <2>2. CASE v # w
    <3>1. os[v] = "gone"
      BY <1>3, <2>2 DEF TypeOK
    <3> QED
      BY <1>1, <1>3, <1>4, <3>1 DEF NoGhosts
  <2> QED
    BY <2>1, <2>2
<1>9. StashesFit'
  BY <1>4 DEF StashesFit
<1> QED
  BY <1>5, <1>6, <1>7, <1>8, <1>9

LEMMA HiddenStep == ASSUME DesktopsInv, NEW w \in Windows, Hidden(w) PROVE DesktopsInv'
<1> USE DEF DesktopsInv, Accounted
<1>1. /\ DeskFits(desk', connected)
      /\ \A v \in Windows : Places(desk', v) = IF v \in {w} THEN {} ELSE Places(desk, v)
  BY InvFits, DetachAllFits DEF Hidden
<1>2. focused' \in connected /\ active' \in [Monitors -> Slot]
  BY <1>1, ForegroundTypes DEF Hidden, Shown
<1>3. UNCHANGED <<connected, stash, sticky, pad>> /\ os' = [os EXCEPT ![w] = "hidden"]
  BY DEF Hidden
<1>4. TypeOK'
  BY <1>1, <1>2, <1>3 DEF TypeOK, DeskFits
<1>5. OnePlace'
  BY <1>1 DEF OnePlace, DeskFits, OneEach
<1>6. NothingLost'
  BY <1>1, <1>3 DEF NothingLost, Managed, TypeOK
<1>7. NoGhosts'
  BY <1>1, <1>3 DEF NoGhosts, TypeOK
<1>8. StashesFit'
  BY <1>3 DEF StashesFit
<1> QED
  BY <1>4, <1>5, <1>6, <1>7, <1>8

LEMMA MinimizedStep == ASSUME DesktopsInv, NEW w \in Windows, Minimized(w) PROVE DesktopsInv'
<1> USE DEF DesktopsInv, Accounted
<1>1. /\ DeskFits(desk', connected)
      /\ \A v \in Windows : Places(desk', v) = Places(desk, v)
  BY InvFits, MarkFits DEF Minimized
<1>2. UNCHANGED <<connected, active, stash, sticky, pad>> /\ os' = [os EXCEPT ![w] = "iconic"]
  BY DEF Minimized
<1>3. focused' \in connected
  BY InvFits, PlacesConnected DEF Minimized
<1>4. TypeOK'
  BY <1>1, <1>2, <1>3 DEF TypeOK, DeskFits
<1>5. OnePlace'
  BY <1>1 DEF OnePlace, DeskFits, OneEach
<1>6. NothingLost' /\ NoGhosts'
  BY <1>1, <1>2 DEF NothingLost, NoGhosts, Managed, TypeOK, Minimized
<1>7. StashesFit'
  BY <1>2 DEF StashesFit
<1> QED
  BY <1>4, <1>5, <1>6, <1>7

\* A mark taken off moves no window.
Cleared(d, m, i, w) == [d EXCEPT ![m][i].minimized = @ \ {w}]
LEMMA UnmarkFits ==
    ASSUME NEW d, NEW present, DeskFits(d, present), NEW w,
           NEW m \in Monitors \cap present, NEW i \in Slot
    PROVE  /\ DeskFits(Cleared(d, m, i, w), present)
           /\ \A v \in Windows : Places(Cleared(d, m, i, w), v) = Places(d, v)
<1> DEFINE e == Cleared(d, m, i, w)
           ws == d[m][i]
           new == [ws EXCEPT !.minimized = @ \ {w}]
<1>1. d \in [Monitors -> [Slot -> Workspaces]]
  BY DEF DeskFits, Desks
<1>2. ws \in Workspaces
  BY <1>1
<1>3. new \in Workspaces /\ new.tiled = ws.tiled /\ new.floating = ws.floating
  <2> HIDE DEF ws
  <2> QED
    BY <1>2 DEF Workspaces
<1>4. e = [d EXCEPT ![m] = [d[m] EXCEPT ![i] = new]]
  BY <1>1 DEF Cleared
<1> HIDE DEF new, e
<1>5. e \in [Monitors -> Desks]
  BY <1>1, <1>3, <1>4 DEF Desks
<1>6. \A n \in Monitors, j \in Slot : e[n][j] = IF n = m /\ j = i THEN new ELSE d[n][j]
  BY <1>1, <1>4
<1>7. \A n \in Monitors, j \in Slot, a \in Modes : e[n][j][a] = d[n][j][a]
  BY <1>3, <1>6 DEF Modes
<1>8. \A n \in Monitors \ present : e[n] = BlankDesk
  BY <1>1, <1>4 DEF DeskFits
<1>9. \A v \in Windows : Places(e, v) = Places(d, v)
  BY <1>7, SamePlaces
<1>10. DeskFits(e, present)
  BY <1>5, <1>7, <1>8, FewerFits
<1> QED
  BY <1>9, <1>10 DEF e

LEMMA RestoredStep == ASSUME DesktopsInv, NEW w \in Windows, Restored(w) PROVE DesktopsInv'
<1> USE DEF DesktopsInv, Accounted
<1>1. UNCHANGED <<connected, active, stash, pad>> /\ os' = [os EXCEPT ![w] = "shown"]
  BY DEF Restored
<1>2. /\ DeskFits(desk', connected) /\ focused' \in connected
      /\ sticky' \subseteq sticky \cup {w}
      /\ Places(desk', w) # {} \/ HiddenPad(w) \in pad
      /\ \A v \in Windows \ {w} : Places(desk', v) = Places(desk, v)
  <2>1. CASE Places(desk, w) = {}
    BY <2>1, AdmitFits DEF Restored
  <2>2. CASE Places(desk, w) # {}
    <3>1. PICK p \in Places(desk, w) :
             /\ desk' = [desk EXCEPT ![p[1]][p[2]].minimized = @ \ {w}]
             /\ focused' \in {p[1], focused} /\ sticky' = sticky
      BY <2>2 DEF Restored
    <3>2. p[1] \in Monitors \cap connected /\ p[2] \in Slot /\ DeskFits(desk, connected)
      BY <3>1, InvFits, PlaceTypes, PlacesConnected
    <3>3. focused' \in connected
      BY <3>1, <3>2, InvFits
    <3>4. DeskFits(desk', connected) /\ \A v \in Windows : Places(desk', v) = Places(desk, v)
      <4> DEFINE m == p[1]
                 i == p[2]
      <4>1. m \in Monitors \cap connected /\ i \in Slot
        BY <3>2
      <4>2. desk' = Cleared(desk, m, i, w)
        BY <3>1 DEF Cleared
      <4> HIDE DEF m, i
      <4> QED
        BY <3>2, <4>1, <4>2, UnmarkFits
    <3> QED
      BY <2>2, <3>1, <3>3, <3>4
  <2> QED
    BY <2>1, <2>2
<1>3. TypeOK'
  BY <1>1, <1>2 DEF TypeOK, DeskFits
<1>4. OnePlace'
  BY <1>2 DEF OnePlace, DeskFits, OneEach
<1>5. NothingLost'
  BY <1>1, <1>2 DEF NothingLost, Managed, TypeOK
<1>6. NoGhosts'
  BY <1>1, <1>2 DEF NoGhosts, TypeOK
<1>7. StashesFit'
  BY <1>1 DEF StashesFit
<1> QED
  BY <1>3, <1>4, <1>5, <1>6, <1>7

LEMMA FocusedStep == ASSUME DesktopsInv, NEW w \in Windows, Focused(w) PROVE DesktopsInv'
<1>1. /\ DeskFits(desk, connected) /\ Stale \subseteq Windows /\ Iconic \subseteq Windows
      /\ \A v \in Stale : os[v] = "hidden"
  BY InvFits DEF Stale, Iconic, Unmarked
<1>2. ASSUME NEW d \in Reconciled
      PROVE  /\ DeskFits(d, connected)
             /\ \A v \in Windows : /\ os[v] # "hidden" => Places(d, v) = Places(desk, v)
                                   /\ Places(d, v) \subseteq Places(desk, v)
  <2>1. CASE d = Mark(Prune(desk), Iconic)
    <3> DEFINE e == Prune(desk)
    <3>1. /\ DeskFits(e, connected)
          /\ \A v \in Windows \ Stale : Places(e, v) = Places(desk, v)
          /\ \A v \in Windows : Places(e, v) \subseteq Places(desk, v)
      BY <1>1, PruneFits
    <3> HIDE DEF e
    <3>2. /\ DeskFits(Mark(e, Iconic), connected)
          /\ \A v \in Windows : Places(Mark(e, Iconic), v) = Places(e, v)
      BY <1>1, <3>1, MarkFits
    <3>3. d = Mark(e, Iconic)
      BY <2>1 DEF e
    <3> QED
      BY <1>1, <3>1, <3>2, <3>3
  <2>2. CASE \E S \in SUBSET Iconic : d = Mark(desk, S)
    BY <1>1, <2>2, MarkFits
  <2> QED
    BY <1>2, <2>1, <2>2 DEF Reconciled
<1>3. UNCHANGED <<connected, stash, sticky, pad, os>>
  BY DEF Focused
<1>4. PICK d \in Reconciled : \E p \in Places(d, w) :
        \/ desk' = d /\ UNCHANGED <<focused, active>>
        \/ desk' = d /\ Follow(p[1], p[2])
        \/ desk' = Carry(d, w, focused, active[focused]) /\ UNCHANGED <<focused, active>>
  BY DEF Focused
<1>5. PICK p \in Places(d, w) :
        \/ desk' = d /\ UNCHANGED <<focused, active>>
        \/ desk' = d /\ Follow(p[1], p[2])
        \/ desk' = Carry(d, w, focused, active[focused]) /\ UNCHANGED <<focused, active>>
  BY <1>4
<1>6. /\ DeskFits(d, connected)
      /\ \A v \in Windows : /\ os[v] # "hidden" => Places(d, v) = Places(desk, v)
                            /\ Places(d, v) \subseteq Places(desk, v)
  BY <1>2
<1>7. focused' \in connected /\ active' \in [Monitors -> Slot]
  BY <1>5, <1>6, InvFits, FollowTypes
<1>8. CASE desk' = d
  BY <1>3, <1>6, <1>7, <1>8, CarryingStep
<1>9. CASE desk' = Carry(d, w, focused, active[focused])
  <2>1. /\ DeskFits(desk', connected)
        /\ Places(desk', w) # {}
        /\ \A v \in Windows \ {w} : Places(desk', v) = Places(d, v)
    BY <1>5, <1>6, <1>9, InvFits, CarryFits
  <2>2. \A v \in Windows :
              /\ os[v] # "hidden" /\ Places(desk, v) # {} => Places(desk', v) # {}
              /\ Places(desk', v) # {} => Places(desk, v) # {}
    BY <1>5, <1>6, <2>1
  <2> QED
    BY <1>3, <1>7, <2>1, <2>2, CarryingStep
<1> QED
  BY <1>5, <1>8, <1>9

LEMMA SwitchStep ==
    ASSUME DesktopsInv, NEW m \in Monitors, NEW i \in Slot, SwitchWorkspace(m, i)
    PROVE  DesktopsInv'
<1>1. m \in connected /\ focused' = m /\ UNCHANGED <<connected, stash, pad, os>>
  BY DEF SwitchWorkspace
<1>2. CASE i = active[m]
  <2>1. UNCHANGED <<desk, active, sticky>>
    BY <1>2 DEF SwitchWorkspace
  <2> QED
    BY <1>1, <2>1, InvFits, CarryingStep
<1>3. CASE i # active[m]
  <2>1. /\ active' = [active EXCEPT ![m] = i] /\ desk' = Rehomed(desk, m, i)
        /\ sticky' = {w \in sticky : Places(desk, w) # {}}
    BY <1>3 DEF SwitchWorkspace
  <2>2. active' \in [Monitors -> Slot]
    BY <2>1, InvFits
  <2>3. /\ DeskFits(desk', connected)
        /\ \A v \in Windows : Places(desk', v) = {} <=> Places(desk, v) = {}
    <3> DEFINE e == Rehomed(desk, m, i)
    <3>1. sticky \subseteq Windows /\ DeskFits(desk, connected) /\ m \in Monitors \cap connected
      BY <1>1, InvFits DEF DesktopsInv, Accounted, TypeOK
    <3>2. /\ DeskFits(e, connected)
          /\ \A v \in Windows : Places(e, v) = {} <=> Places(desk, v) = {}
      BY <3>1, RehomedFits
    <3> QED
      BY <2>1, <3>2
  <2>4. \A v \in sticky' : v \in sticky
    BY <2>1
  <2> QED
    BY <1>1, <2>2, <2>3, <2>4, CarryingStep
<1> QED
  BY <1>2, <1>3

\* A window is carried to the active or another workspace of a monitor.
LEMMA CarryStep ==
    ASSUME DesktopsInv, NEW w \in Windows, Places(desk, w) # {}, NEW m \in connected,
           NEW i \in Slot, desk' = Carry(desk, w, m, i), focused' \in {focused, m},
           UNCHANGED <<connected, active, stash, sticky, pad, os>>
    PROVE  DesktopsInv'
<1>1. /\ DeskFits(desk', connected)
      /\ Places(desk', w) # {}
      /\ \A v \in Windows \ {w} : Places(desk', v) = Places(desk, v)
  BY InvFits, CarryFits
<1>2. \A v \in Windows :
        /\ os[v] # "hidden" /\ Places(desk, v) # {} => Places(desk', v) # {}
        /\ Places(desk', v) # {} => Places(desk, v) # {}
  BY <1>1
<1> QED
  BY <1>1, <1>2, InvFits, CarryingStep

LEMMA MoveToWorkspaceStep ==
    ASSUME DesktopsInv, NEW w \in Windows, NEW i \in Slot, MoveToWorkspace(w, i)
    PROVE  DesktopsInv'
<1>1. /\ Places(desk, w) # {} /\ desk' = Carry(desk, w, focused, i) /\ focused' = focused
      /\ UNCHANGED <<connected, active, stash, sticky, pad, os>>
  BY DEF MoveToWorkspace
<1> QED
  BY <1>1, InvFits, CarryStep

LEMMA MoveToMonitorStep ==
    ASSUME DesktopsInv, NEW w \in Windows, NEW m \in Monitors, MoveToMonitor(w, m)
    PROVE  DesktopsInv'
<1>1. /\ Places(desk, w) # {} /\ desk' = Carry(desk, w, m, active[m]) /\ focused' = m
      /\ m \in connected /\ UNCHANGED <<connected, active, stash, sticky, pad, os>>
  BY DEF MoveToMonitor, OnScreen
<1>2. active[m] \in Slot
  BY InvFits
<1> QED
  BY <1>1, <1>2, CarryStep

LEMMA FocusMonitorStep ==
    ASSUME DesktopsInv, NEW m \in Monitors, FocusMonitor(m) PROVE DesktopsInv'
BY InvFits, CarryingStep DEF FocusMonitor

LEMMA ToggleStickyStep ==
    ASSUME DesktopsInv, NEW w \in Windows, ToggleSticky(w) PROVE DesktopsInv'
<1>1. \A v \in sticky' : v \in sticky \/ (v \in Windows /\ Places(desk, v) # {})
  BY DEF ToggleSticky, OnScreen
<1> QED
  BY <1>1, InvFits, CarryingStep DEF ToggleSticky

LEMMA ToggleFloatingStep ==
    ASSUME DesktopsInv, NEW w \in Windows, ToggleFloating(w) PROVE DesktopsInv'
<1>1. PICK p \in Places(desk, w), mode \in Modes :
         desk' = PutAt(DetachAll(desk, {w}), p[1], p[2], w, mode)
  BY DEF ToggleFloating
<1>2. p[1] \in Monitors \cap connected /\ p[2] \in Slot
  BY InvFits, PlaceTypes, PlacesConnected
<1> DEFINE m == p[1]
           i == p[2]
<1>3. desk' = PutAt(DetachAll(desk, {w}), m, i, w, mode)
  BY <1>1
<1>4. m \in Monitors \cap connected /\ i \in Slot
  BY <1>2
<1> HIDE DEF m, i
<1>5. /\ DeskFits(desk', connected) /\ Places(desk', w) # {}
      /\ \A v \in Windows \ {w} : Places(desk', v) = Places(desk, v)
  <2>1. DeskFits(desk, connected)
    BY InvFits
  <2> QED
    BY <1>3, <1>4, <2>1, MovedFits
<1>6. \A v \in Windows :
        /\ os[v] # "hidden" /\ Places(desk, v) # {} => Places(desk', v) # {}
        /\ Places(desk', v) # {} => Places(desk, v) # {}
  BY <1>1, <1>5
<1> QED
  BY <1>5, <1>6, InvFits, CarryingStep DEF ToggleFloating

\* A window put on the active workspace of the focused monitor has that place.
LEMMA FocusedFits ==
    ASSUME DesktopsInv, NEW w \in Windows, NEW mode \in Modes, NEW e,
           e = PutAt(DetachAll(desk, {w}), focused, active[focused], w, mode)
    PROVE  /\ DeskFits(e, connected) /\ Places(e, w) # {}
           /\ \A v \in Windows \ {w} : Places(e, v) = Places(desk, v)
<1> DEFINE m == focused
           i == active[focused]
<1>1. /\ DeskFits(desk, connected) /\ m \in Monitors \cap connected /\ i \in Slot
      /\ e = PutAt(DetachAll(desk, {w}), m, i, w, mode) /\ w \in Windows /\ mode \in Modes
  BY InvFits
<1> HIDE DEF m, i
<1> QED
  BY ONLY <1>1, MovedFits

LEMMA ReleaseFits ==
    ASSUME DesktopsInv, NEW w \in Windows
    PROVE  /\ DeskFits(Release(desk, w), connected) /\ Places(Release(desk, w), w) # {}
           /\ \A v \in Windows \ {w} : Places(Release(desk, w), v) = Places(desk, v)
<1> DEFINE e == PutAt(DetachAll(desk, {w}), focused, active[focused], w, "tiled")
<1>1. Release(desk, w) = e /\ "tiled" \in Modes
  BY DEF Release, Modes
<1>2. /\ DeskFits(e, connected) /\ Places(e, w) # {}
      /\ \A v \in Windows \ {w} : Places(e, v) = Places(desk, v)
  BY <1>1, FocusedFits
<1> QED
  BY <1>1, <1>2

\* What is left to show of a step of the scratchpad: the window it is about
\* has a place or is the hidden scratchpad, and so has the one it was.
LEMMA PadStep ==
    ASSUME DesktopsInv, UNCHANGED <<connected, active, focused, stash, sticky, os>>,
           DeskFits(desk', connected),
           pad' \subseteq [window : Windows, shown : BOOLEAN], \A p, q \in pad' : p = q,
           \A v \in Windows : os[v] \in {"shown", "iconic"} =>
              Places(desk', v) # {} \/ HiddenPad(v) \in pad',
           \A v \in Windows : os[v] = "gone" =>
              Places(desk', v) = {} /\ \A p \in pad' : p.window # v
    PROVE  DesktopsInv'
<1> USE DEF DesktopsInv, Accounted
<1>1. TypeOK'
  BY DEF TypeOK, DeskFits
<1>2. OnePlace'
  BY DEF OnePlace, DeskFits, OneEach
<1>3. NothingLost' /\ NoGhosts'
  BY DEF NothingLost, NoGhosts, Managed
<1>4. StashesFit'
  BY DEF StashesFit
<1> QED
  BY <1>1, <1>2, <1>3, <1>4

LEMMA ScratchpadStashStep ==
    ASSUME DesktopsInv, NEW w \in Windows, ScratchpadStash(w) PROVE DesktopsInv'
<1>1. /\ UNCHANGED <<connected, active, focused, stash, sticky, os>>
      /\ Places(desk, w) # {}
  BY DEF ScratchpadStash, OnScreen
<1>2. /\ pad \subseteq [window : Windows, shown : BOOLEAN] /\ \A p, q \in pad : p = q
      /\ \A v \in Windows : os[v] = "gone" => Places(desk, v) = {} /\ \A p \in pad : p.window # v
      /\ \A v \in Windows : os[v] \in {"shown", "iconic"} =>
            Places(desk, v) # {} \/ HiddenPad(v) \in pad
      /\ os[w] # "gone"
  BY <1>1 DEF DesktopsInv, Accounted, TypeOK, NoGhosts, NothingLost, Managed
<1>3. CASE \E p \in pad : p.window = w
  <2>1. desk' = Release(desk, w) /\ pad' = {}
    BY <1>3 DEF ScratchpadStash
  <2>2. \A v \in Windows : HiddenPad(v) \in pad => v = w
    BY <1>2, <1>3 DEF HiddenPad
  <2> QED
    BY <1>1, <1>2, <2>1, <2>2, ReleaseFits, PadStep
<1>4. CASE ~\E p \in pad : p.window = w
  <2> DEFINE x == (CHOOSE p \in pad : TRUE).window
             d == IF pad = {} THEN desk ELSE Release(desk, x)
  <2>1. desk' = DetachAll(d, {w}) /\ pad' = {HiddenPad(w)}
    BY <1>4 DEF ScratchpadStash
  <2>2. pad # {} => x \in Windows /\ os[x] # "gone" /\ \A v \in Windows : HiddenPad(v) \in pad => v = x
    BY <1>2 DEF HiddenPad
  <2>3. /\ DeskFits(d, connected)
        /\ \A v \in Windows : os[v] = "gone" => Places(d, v) = {}
        /\ \A v \in Windows : os[v] \in {"shown", "iconic"} => Places(d, v) # {}
    <3>1. CASE pad = {}
      BY <1>2, <3>1, InvFits
    <3>2. CASE pad # {}
      <4> HIDE DEF x
      <4>1. /\ DeskFits(Release(desk, x), connected) /\ Places(Release(desk, x), x) # {}
            /\ \A v \in Windows \ {x} : Places(Release(desk, x), v) = Places(desk, v)
        BY <2>2, <3>2, ReleaseFits
      <4>2. d = Release(desk, x)
        BY <3>2
      <4> HIDE DEF d
      <4> QED
        BY <1>2, <2>2, <3>2, <4>1, <4>2
    <3> QED
      BY <3>1, <3>2
  <2> HIDE DEF d
  <2>4. /\ DeskFits(desk', connected)
        /\ \A v \in Windows : Places(desk', v) = IF v \in {w} THEN {} ELSE Places(d, v)
    BY <2>1, <2>3, DetachAllFits
  <2>5. /\ pad' \subseteq [window : Windows, shown : BOOLEAN] /\ \A p, q \in pad' : p = q
        /\ HiddenPad(w) \in pad' /\ \A p \in pad' : p.window = w
    BY <2>1 DEF HiddenPad
  <2> QED
    BY <1>1, <1>2, <2>3, <2>4, <2>5, PadStep
<1> QED
  BY <1>3, <1>4

LEMMA ScratchpadToggleStep ==
    ASSUME DesktopsInv, ScratchpadToggle PROVE DesktopsInv'
<1>1. UNCHANGED <<connected, active, focused, stash, sticky, os>>
  BY DEF ScratchpadToggle
<1>2. PICK p \in pad :
         /\ desk' = IF p.shown THEN DetachAll(desk, {p.window})
                    ELSE PutAt(DetachAll(desk, {p.window}), focused, active[focused],
                               p.window, "floating")
         /\ pad' = {[p EXCEPT !.shown = ~p.shown]}
  BY DEF ScratchpadToggle
<1>3. /\ pad \subseteq [window : Windows, shown : BOOLEAN] /\ \A q, r \in pad : q = r
      /\ \A v \in Windows : os[v] = "gone" => Places(desk, v) = {} /\ \A q \in pad : q.window # v
      /\ \A v \in Windows : os[v] \in {"shown", "iconic"} =>
            Places(desk, v) # {} \/ HiddenPad(v) \in pad
  BY DEF DesktopsInv, Accounted, TypeOK, NoGhosts, NothingLost, Managed
<1> DEFINE w == p.window
<1>4. w \in Windows /\ os[w] # "gone" /\ \A v \in Windows : HiddenPad(v) \in pad => v = w
  BY <1>3 DEF HiddenPad
<1>5. /\ pad' \subseteq [window : Windows, shown : BOOLEAN] /\ \A q, r \in pad' : q = r
      /\ \A q \in pad' : q.window = w
      /\ p.shown => HiddenPad(w) \in pad'
  <2> DEFINE q == [p EXCEPT !.shown = ~p.shown]
  <2>1. p \in [window : Windows, shown : BOOLEAN]
    BY <1>3
  <2>2. q = [window |-> w, shown |-> ~p.shown]
    BY <2>1
  <2>3. q \in [window : Windows, shown : BOOLEAN] /\ q.window = w /\ pad' = {q}
    BY <1>2, <2>1, <2>2
  <2>4. p.shown => q = HiddenPad(w)
    BY <2>1, <2>2 DEF HiddenPad
  <2> HIDE DEF q, w
  <2> QED
    BY <2>3, <2>4
<1>6. CASE p.shown
  <2>1. desk' = DetachAll(desk, {w})
    BY <1>2, <1>6
  <2> HIDE DEF w
  <2>2. /\ DeskFits(desk', connected)
        /\ \A v \in Windows : Places(desk', v) = IF v \in {w} THEN {} ELSE Places(desk, v)
    BY <2>1, InvFits, DetachAllFits
  <2> QED
    BY <1>1, <1>3, <1>4, <1>5, <1>6, <2>2, PadStep
<1>7. CASE ~p.shown
  <2>1. /\ desk' = PutAt(DetachAll(desk, {w}), focused, active[focused], w, "floating")
        /\ "floating" \in Modes /\ w \in Windows
    BY <1>2, <1>4, <1>7 DEF Modes
  <2> HIDE DEF w
  <2>2. /\ DeskFits(desk', connected) /\ Places(desk', w) # {}
        /\ \A v \in Windows \ {w} : Places(desk', v) = Places(desk, v)
    BY <2>1, FocusedFits
  <2>3. \A v \in Windows \ {w} : HiddenPad(v) \notin pad
    BY <1>4
  <2>4. \A v \in Windows : os[v] \in {"shown", "iconic"} =>
              Places(desk', v) # {} \/ HiddenPad(v) \in pad'
    BY <1>3, <2>2, <2>3
  <2>5. \A v \in Windows : os[v] = "gone" =>
              Places(desk', v) = {} /\ \A q \in pad' : q.window # v
    BY <1>3, <1>4, <1>5, <2>1, <2>2
  <2> QED
    BY <1>1, <1>5, <2>2, <2>4, <2>5, PadStep
<1> QED
  BY <1>6, <1>7

\* What a monitor that leaves is remembered by was one workspace each.
LEMMA StashOfFits ==
    ASSUME NEW d, NEW present, DeskFits(d, present), NEW m \in Monitors, NEW a \in Slot
    PROVE  /\ StashOf(d[m], a) \subseteq [desk : Desks, active : Slot]
           /\ \A k, l \in StashOf(d[m], a) : k = l
           /\ \A l \in StashOf(d[m], a) : StashFits(l)
           /\ \A v \in StashedIds(StashOf(d[m], a)) : Places(d, v) # {}
<1>1. d[m] \in Desks
  BY DEF DeskFits
<1>2. \A l \in StashOf(d[m], a) : l = [desk |-> d[m], active |-> a]
  BY DEF StashOf, Layout
<1>3. \A l \in StashOf(d[m], a) : StashFits(l)
  <2> SUFFICES ASSUME NEW l \in StashOf(d[m], a), NEW w \in Windows,
                      NEW i \in Slot, NEW j \in Slot, NEW b \in Modes, NEW c \in Modes,
                      w \in d[m][i][b], w \in d[m][j][c]
               PROVE  i = j /\ b = c
    BY <1>2 DEF StashFits
  <2>1. <<m, i, b>> \in Places(d, w) /\ <<m, j, c>> \in Places(d, w)
    BY PlacesAre
  <2>2. <<m, i, b>> = <<m, j, c>>
    BY <2>1 DEF DeskFits, OneEach
  <2> QED
    BY <2>2
<1>4. ASSUME NEW v \in StashedIds(StashOf(d[m], a)) PROVE Places(d, v) # {}
  <2>1. PICK l \in StashOf(d[m], a), i \in Slot : v \in Ids(l.desk[i])
    BY DEF StashedIds
  <2>2. d[m][i] \in Workspaces /\ v \in Ids(d[m][i])
    BY <1>1, <1>2, <2>1 DEF Desks
  <2>3. PICK b \in Modes : v \in d[m][i][b]
    BY <2>2, IdsAre
  <2>4. <<m, i, b>> \in Places(d, v)
    BY <2>3, PlacesAre
  <2> QED
    BY <2>4
<1> QED
  BY <1>1, <1>2, <1>3, <1>4

LEMMA DisplayChangeStep ==
    ASSUME DesktopsInv, NEW new \in SUBSET Monitors \ {{}}, NEW primary \in new,
           NEW order \in SetToSeqs(new \ connected), DisplayChange(new, primary, order)
    PROVE  DesktopsInv'
<1> DEFINE gone == connected \ new
           now  == Arrived(order)
           full == Migrate(now.desk, gone, primary, now.active[primary])
           act  == [m \in Monitors |-> IF m \in gone THEN 1 ELSE now.active[m]]
           kept == [m \in Monitors |-> IF m \in gone THEN BlankDesk ELSE full[m]]
<1>1. /\ connected' = new /\ desk' = Resynced(kept) /\ UNCHANGED <<sticky, pad, os>>
      /\ stash' = [m \in Monitors |->
                        IF m \in gone THEN StashOf(now.desk[m], now.active[m])
                        ELSE IF m \in new \ connected THEN {} ELSE stash[m]]
      /\ \/ focused' = FocusAfter(new, primary) /\ active' = act
         \/ \E w \in Shown : \E p \in Places(desk', w) :
               focused' = p[1] /\ active' = [act EXCEPT ![p[1]] = p[2]]
  BY DEF DisplayChange
<1>2. /\ connected \subseteq Monitors /\ gone \subseteq Monitors /\ primary \in Monitors
      /\ primary \in (connected \cup new) \ gone
      /\ (connected \cup new) \ gone = new /\ 1 \in Slot
  BY InvFits, DesktopsAssumption DEF Slot
<1>3. /\ DeskFits(now.desk, connected \cup new)
      /\ now.active \in [Monitors -> Slot]
      /\ \A v \in Windows :
            /\ Places(desk, v) # {} => Places(now.desk, v) # {}
            /\ Places(now.desk, v) # {} =>
                 Places(desk, v) # {} \/ \E m \in Monitors : v \in StashedIds(stash[m])
  BY ArrivedFits
<1> DEFINE d == now.desk
           i == now.active[primary]
<1>4. i \in Slot /\ act \in [Monitors -> Slot]
  BY <1>2, <1>3
<1>5. kept = [m \in Monitors |-> IF m \in gone THEN BlankDesk ELSE Migrate(d, gone, primary, i)[m]]
  OBVIOUS
<1>6. stash' = [m \in Monitors |->
                  IF m \in gone THEN StashOf(d[m], now.active[m])
                  ELSE IF m \in new \ connected THEN {} ELSE stash[m]]
  BY <1>1
<1>7. /\ connected \cup new \subseteq Monitors
      /\ DeskFits(d, connected \cup new)
      /\ \A v \in Windows :
            /\ Places(desk, v) # {} => Places(d, v) # {}
            /\ Places(d, v) # {} =>
                 Places(desk, v) # {} \/ \E m \in Monitors : v \in StashedIds(stash[m])
  BY <1>2, <1>3
<1> HIDE DEF kept, act, d, i, now
<1>8. /\ DeskFits(kept, new)
      /\ \A v \in Windows : Places(kept, v) = {} <=> Places(d, v) = {}
  <2> DEFINE present == connected \cup new
  <2>1. /\ DeskFits(d, present) /\ present \subseteq Monitors /\ gone \in SUBSET Monitors
        /\ primary \in present \ gone /\ i \in Slot /\ present \ gone = new
    BY <1>2, <1>4, <1>7
  <2> HIDE DEF gone, present
  <2>2. /\ DeskFits(kept, present \ gone)
        /\ \A v \in Windows : Places(kept, v) = {} <=> Places(d, v) = {}
    BY ONLY <2>1, <1>5, MigratedFits
  <2> QED
    BY <2>1, <2>2
<1>9. /\ DeskFits(desk', new)
      /\ \A v \in Windows : Places(desk', v) = Places(kept, v)
  BY <1>1, <1>8, ResyncedFits
<1>10. focused' \in new /\ active' \in [Monitors -> Slot]
  <2>1. CASE focused' = FocusAfter(new, primary) /\ active' = act
    BY <1>4, <2>1 DEF FocusAfter
  <2>2. CASE \E w \in Shown : \E p \in Places(desk', w) :
               focused' = p[1] /\ active' = [act EXCEPT ![p[1]] = p[2]]
    <3>a. PICK w \in Shown : \E p \in Places(desk', w) :
               focused' = p[1] /\ active' = [act EXCEPT ![p[1]] = p[2]]
      BY <2>2
    <3>1. PICK p \in Places(desk', w) :
               focused' = p[1] /\ active' = [act EXCEPT ![p[1]] = p[2]]
      BY <3>a
    <3>2. p[1] \in new /\ p[2] \in Slot
      BY <1>9, <3>1, PlaceTypes, PlacesConnected
    <3> QED
      BY <1>4, <3>1, <3>2
  <2> QED
    BY <1>1, <2>1, <2>2
<1>11. /\ TypeOK /\ OnePlace /\ NothingLost /\ NoGhosts /\ StashesFit
  BY DEF DesktopsInv, Accounted
<1>12. ASSUME NEW m \in Monitors
       PROVE  /\ stash'[m] \subseteq [desk : Desks, active : Slot]
              /\ \A k, l \in stash'[m] : k = l
              /\ \A l \in stash'[m] : StashFits(l)
              /\ \A v \in StashedIds(stash'[m]) : Places(d, v) # {} \/ v \in StashedIds(stash[m])
  <2>1. CASE m \in gone
    <3> DEFINE a == now.active[m]
    <3>1. stash'[m] = StashOf(d[m], a) /\ a \in Slot
      BY <1>3, <1>6, <2>1
    <3> HIDE DEF a
    <3>2. DeskFits(d, connected \cup new)
      BY <1>7
    <3>3. /\ StashOf(d[m], a) \subseteq [desk : Desks, active : Slot]
          /\ \A k, l \in StashOf(d[m], a) : k = l
          /\ \A l \in StashOf(d[m], a) : StashFits(l)
          /\ \A v \in StashedIds(StashOf(d[m], a)) : Places(d, v) # {}
      BY <3>1, <3>2, StashOfFits
    <3> QED
      BY <3>1, <3>3
  <2>2. CASE m \notin gone /\ m \in new \ connected
    <3>1. stash'[m] = {}
      BY <1>6, <2>2
    <3> QED
      BY <3>1 DEF StashedIds
  <2>3. CASE m \notin gone /\ m \notin new \ connected
    <3>1. stash'[m] = stash[m]
      BY <1>6, <2>3
    <3> QED
      BY <1>11, <3>1 DEF TypeOK, StashesFit
  <2> QED
    BY <2>1, <2>2, <2>3
<1>13. TypeOK'
  BY <1>1, <1>9, <1>10, <1>11, <1>12 DEF TypeOK, DeskFits
<1>14. OnePlace'
  BY <1>9 DEF OnePlace, DeskFits, OneEach
<1>15. NothingLost'
  BY <1>1, <1>7, <1>8, <1>9, <1>11 DEF NothingLost, Managed
<1>16. NoGhosts'
  <2> SUFFICES ASSUME NEW v \in Windows, os[v] = "gone"
               PROVE  /\ Places(desk', v) = {} /\ v \notin sticky
                      /\ \A m \in Monitors : v \notin StashedIds(stash'[m])
                      /\ \A p \in pad : p.window # v
    BY <1>1 DEF NoGhosts, StashedIds
  <2>1. /\ Places(desk, v) = {} /\ v \notin sticky
        /\ \A m \in Monitors : v \notin StashedIds(stash[m])
        /\ \A p \in pad : p.window # v
    BY <1>11 DEF NoGhosts
  <2>2. Places(d, v) = {}
    BY <1>7, <2>1
  <2> QED
    BY <1>8, <1>9, <1>12, <2>1, <2>2
<1>17. StashesFit'
  BY <1>12 DEF StashesFit
<1> QED
  BY <1>13, <1>14, <1>15, <1>16, <1>17 DEF DesktopsInv, Accounted

(***************************************************************************)
(* The theorem.                                                            *)
(***************************************************************************)
LEMMA DesktopsInit == Init => DesktopsInv
<1> SUFFICES ASSUME Init PROVE DesktopsInv
  OBVIOUS
<1>1. 1 \in Slot
  BY DesktopsAssumption DEF Slot
<1>2. desk \in [Monitors -> Desks] /\ \A m \in Monitors : desk[m] = BlankDesk
  BY BlankTypes DEF Init
<1>3. \A v \in Windows : Places(desk, v) = {}
  BY <1>2, BlankTypes, PlaceTypes
<1>4. TypeOK
  BY <1>1, <1>2 DEF Init, TypeOK
<1> QED
  BY <1>3, <1>4 DEF Init, DesktopsInv, Accounted, OnePlace, NothingLost, NoGhosts,
                    StashedIds, StashesFit

LEMMA DesktopsStep == DesktopsInv /\ [Next]_vars => DesktopsInv'
<1> SUFFICES ASSUME DesktopsInv, [Next]_vars PROVE DesktopsInv'
  OBVIOUS
<1>1. CASE UNCHANGED vars
  BY <1>1 DEF vars, DesktopsInv, Accounted, TypeOK, OnePlace, NothingLost, NoGhosts,
              StashesFit, Managed, Places, StashedIds
<1>2. ASSUME NEW w \in Windows,
             \/ Created(w) \/ Destroyed(w) \/ Hidden(w)
             \/ Minimized(w) \/ Restored(w) \/ Focused(w)
             \/ ToggleSticky(w) \/ ToggleFloating(w) \/ ScratchpadStash(w)
      PROVE  DesktopsInv'
  BY <1>2, CreatedStep, DestroyedStep, HiddenStep, MinimizedStep, RestoredStep, FocusedStep,
     ToggleStickyStep, ToggleFloatingStep, ScratchpadStashStep
<1>3. ASSUME NEW w \in Windows,
             \/ \E i \in Slot : MoveToWorkspace(w, i)
             \/ \E m \in Monitors : MoveToMonitor(w, m)
      PROVE  DesktopsInv'
  BY <1>3, MoveToWorkspaceStep, MoveToMonitorStep
<1>4. ASSUME NEW m \in Monitors, FocusMonitor(m) \/ \E i \in Slot : SwitchWorkspace(m, i)
      PROVE  DesktopsInv'
  BY <1>4, FocusMonitorStep, SwitchStep
<1>5. CASE ScratchpadToggle
  BY <1>5, ScratchpadToggleStep
<1>6. ASSUME NEW new \in SUBSET Monitors \ {{}}, NEW primary \in new,
             NEW order \in SetToSeqs(new \ connected), DisplayChange(new, primary, order)
      PROVE  DesktopsInv'
  BY <1>6, DisplayChangeStep
<1> QED
  BY <1>1, <1>2, <1>3, <1>4, <1>5, <1>6 DEF Next

\* However commands, events, pins, the scratchpad and displays carry windows
\* about, a live one is managed in exactly one place, a dead one nowhere, and a
\* monitor that is not connected has no workspaces.
THEOREM AccountedHolds == Spec => []Accounted
<1>1. DesktopsInv => Accounted
  BY DEF DesktopsInv
<1> QED
  BY <1>1, DesktopsInit, DesktopsStep, PTL DEF Spec

\* The same of the composition of three sizes, for its first part.
THEOREM WindowsAccountedHolds == DesksSpec => []WindowsAccounted
<1> DEFINE PartInv == part = "windows" => DesktopsInv
<1>1. DesksInit => PartInv
  BY DesktopsInit DEF DesksInit
<1>2. PartInv /\ [DesksNext]_<<vars, part>> => PartInv'
  <2> SUFFICES ASSUME PartInv, [DesksNext]_<<vars, part>>, part' = "windows"
               PROVE  DesktopsInv'
    OBVIOUS
  <2>1. part = "windows" /\ [Next]_vars
    BY DEF DesksNext
  <2> QED
    BY <2>1, DesktopsStep
<1>3. PartInv => WindowsAccounted
  BY DEF DesktopsInv, WindowsAccounted
<1> QED
  BY <1>1, <1>2, <1>3, PTL DEF DesksSpec
===============================================================================
