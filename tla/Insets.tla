------------------------------- MODULE Insets -------------------------------
(***************************************************************************)
(* The invisible frame around a window: cached while tiling, measured at a *)
(* landing, and what a window that comes out at another size is taken for: *)
(* a stale inset, a suspect, or a window that refuses to be that small.    *)
(*                                                                         *)
(* One window and one axis.  The layout thread lands; the animation worker *)
(* places frames from a cache of its own; the event loop clears the caches *)
(* when the look of frames changes.  Sizes are counted in steps larger     *)
(* than the tolerance of two pixels.                                       *)
(***************************************************************************)
EXTENDS Naturals

CONSTANTS
    Layouts,    \* sizes the layout asks for
    Frames,     \* insets a window can have
    Minima,     \* sizes below which a window refuses to go
    Absurd,     \* ABSURD_BOUNDS_RATIO
    MaxLandings, MaxEvents

\* What the parameters have to be; assumed where the module is instantiated.
InsetsAssumption ==
    /\ Layouts \subseteq Nat \ {0} /\ Frames \subseteq Nat /\ Minima \subseteq Nat
    /\ {Absurd, MaxLandings, MaxEvents} \subseteq Nat

VARIABLES
    window,     \* [inset, min, size]: size is what one sees of it
    global,     \* GLOBAL_INSET_CACHE: none or [inset, gen]
    local,      \* PlacementCache.insets of the animation worker, likewise
    gen,        \* INSET_CACHE_GENERATION
    clearing,   \* the worker is still to be told to clear its cache
    landing,    \* the pass of the layout thread
    frame,      \* what the worker's frame read, still to be finalized
    suspect,    \* SUSPECTED_OVERSIZE
    recorded,   \* the violation the last landing reported
    past        \* (ghost) [landings, events, sizes, steady]

insetsVars == <<window, global, local, gen, clearing, landing, frame, suspect, recorded, past>>

Idle == [at |-> "idle", layout |-> 0, read |-> {}, first |-> TRUE]

(***************************************************************************)
(* Reading and keeping insets.                                             *)
(***************************************************************************)
\* cached_border_insets, with the generation sampled first
Read(caches) == IF caches # {} THEN [inset |-> (CHOOSE c \in caches : TRUE).inset, gen |-> gen, fresh |-> FALSE]
                ELSE [inset |-> window.inset, gen |-> gen, fresh |-> TRUE]

\* (Variant: what was read is kept whatever happened since.)
KeepsAlways(r) == r.inset # 0
\* inset_finalization: not after the cache was cleared under way
Keeps(r) == r.inset # 0 /\ r.gen = gen

Entry(r) == {[inset |-> r.inset, gen |-> r.gen]}

\* A window takes the size of its frame less its real inset, but no less than
\* its minimum.
Taken(r, layout) ==
    LET visible == layout + r.inset - window.inset IN IF visible < window.min THEN window.min ELSE visible
Sized(n) == [window EXCEPT !.size = n]

(***************************************************************************)
(* The landing: place, measure, perhaps once more.                         *)
(***************************************************************************)
\* A barrier holds a landing back until the worker's frame is through.
LandStarts ==
    /\ landing.at = "idle" /\ frame = {} /\ past.landings < MaxLandings
    /\ \E l \in Layouts : landing' = [Idle EXCEPT !.at = "place", !.layout = l]
    /\ past' = [past EXCEPT !.landings = @ + 1, !.steady = TRUE]
    /\ UNCHANGED <<window, global, local, gen, clearing, frame, suspect, recorded>>

\* A slow app still shows its old size when it is measured.
Place ==
    /\ landing.at = "place"
    /\ LET r == Read(global)
       IN  /\ landing' = [landing EXCEPT !.at = "measure", !.read = {r}]
           /\ \/ window' = Sized(Taken(r, landing.layout)) /\ UNCHANGED past
              \/ UNCHANGED window /\ past' = [past EXCEPT !.steady = FALSE]
    /\ UNCHANGED <<global, local, gen, clearing, frame, suspect, recorded>>

Measured == CHOOSE r \in landing.read : TRUE
Over == window.size > landing.layout
IsAbsurd == window.size > landing.layout * Absurd
\* is_inset_artifact: between what was laid out and what was asked for
InFrame == Over /\ window.size <= landing.layout + Measured.inset
Undersized == window.size < landing.layout /\ window.inset # Measured.inset

\* classify_size_axis on the second pass: the same oversize twice
Confirmed == Over /\ ~IsAbsurd /\ ~landing.first /\ suspect = {window.size}
Suspects == Over /\ ~Confirmed /\ (~IsAbsurd \/ (landing.first /\ InFrame))
Artifact == landing.first /\ (InFrame \/ Undersized)

\* detect_size_violations; the retry evicts the insets and places once more,
\* otherwise the insets are finalized and a violation is reported.
Measure ==
    /\ landing.at = "measure"
    /\ suspect' = IF Suspects THEN {window.size} ELSE {}
    /\ past' = [past EXCEPT !.sizes = {<<1, window.size>>} \cup {<<2, s[2]>> : s \in {x \in @ : x[1] = 1}}]
    /\ LET again == landing.first /\ (Artifact \/ Suspects)
       IN  /\ landing' = IF again THEN [landing EXCEPT !.at = "place", !.first = FALSE, !.read = {}]
                         ELSE [landing EXCEPT !.at = "done"]
           /\ recorded' = IF Confirmed THEN {window.size} ELSE IF again THEN recorded ELSE {}
           /\ global' = IF Artifact \/ Confirmed THEN {}
                        ELSE IF ~again /\ Measured.fresh /\ Keeps(Measured) THEN Entry(Measured) ELSE global
    /\ UNCHANGED <<window, local, gen, clearing, frame>>

Done ==
    /\ landing.at = "done" /\ landing' = Idle
    /\ UNCHANGED <<window, global, local, gen, clearing, frame, suspect, recorded, past>>

(***************************************************************************)
(* The animation worker: its cache first, then the shared one.             *)
(***************************************************************************)
FramePlaces ==
    /\ frame = {} /\ landing.at = "idle"
    /\ LET r == Read(IF local # {} THEN local ELSE global)
       IN  \E l \in Layouts :
             /\ frame' = {[r EXCEPT !.fresh = @ /\ local = {}]}
             /\ window' = Sized(Taken(r, l))
    /\ past' = [past EXCEPT !.sizes = {}]
    /\ UNCHANGED <<global, local, gen, clearing, landing, suspect, recorded>>
FrameEnds ==
    /\ frame # {}
    /\ LET r == CHOOSE x \in frame : TRUE
       IN  /\ local' = IF local = {} /\ Keeps(r) THEN Entry(r) ELSE local
           /\ global' = IF r.fresh /\ Keeps(r) THEN Entry(r) ELSE global
    /\ frame' = {}
    /\ UNCHANGED <<window, gen, clearing, landing, suspect, recorded, past>>
WorkerClears ==
    /\ clearing /\ frame = {}
    /\ clearing' = FALSE /\ local' = {}
    /\ UNCHANGED <<window, global, gen, landing, frame, suspect, recorded, past>>

(***************************************************************************)
(* The event loop and the window.                                          *)
(***************************************************************************)
Happens == past.events < MaxEvents
\* clear_inset_cache, and clear_insets to the worker
Clear ==
    /\ Happens /\ past' = [past EXCEPT !.events = @ + 1]
    /\ global' = {} /\ gen' = gen + 1 /\ clearing' = TRUE
    /\ UNCHANGED <<window, local, landing, frame, suspect, recorded>>
\* An app changes its frame, or what it insists on.
Reframe ==
    /\ Happens
    /\ past' = [past EXCEPT !.events = @ + 1, !.steady = FALSE]
    /\ \E i \in Frames : i # window.inset /\ window' = [window EXCEPT !.inset = i]
    /\ UNCHANGED <<global, local, gen, clearing, landing, frame, suspect, recorded>>
\* clear_suspected_oversize
Forget ==
    /\ suspect # {} /\ suspect' = {}
    /\ UNCHANGED <<window, global, local, gen, clearing, landing, frame, recorded, past>>

Init ==
    /\ \E i \in Frames, m \in Minima, l \in Layouts : window = [inset |-> i, min |-> m, size |-> IF l < m THEN m ELSE l]
    /\ global = {} /\ local = {} /\ gen = 0 /\ clearing = FALSE
    /\ landing = Idle /\ frame = {} /\ suspect = {} /\ recorded = {}
    /\ past = [landings |-> 0, events |-> 0, sizes |-> {}, steady |-> TRUE]

Next ==
    \/ LandStarts \/ Place \/ Measure \/ Done
    \/ FramePlaces \/ FrameEnds \/ WorkerClears
    \/ Clear \/ Reframe \/ Forget

InsetsSpec == Init /\ [][Next]_insetsVars

(***************************************************************************)
(* Properties.                                                             *)
(***************************************************************************)
\* An inset read before the caches were cleared is not put back: the shared
\* cache never holds one, the worker's only until it is told.
InsetsCurrent ==
    /\ \A c \in global : c.gen = gen
    /\ \A c \in local : c.gen = gen \/ clearing

\* A landing leaves a window that takes the sizes it is given exactly in its
\* tile, whatever inset the cache held before: one retry is enough.
LandsInTile ==
    landing.at = "done" /\ past.steady /\ window.min <= landing.layout => window.size = landing.layout

\* A window is taken to have a minimum only when two measurements in a row
\* agreed, and never an absurd one.
MinimumSeenTwice ==
    \A m \in recorded : landing.at = "done" => past.sizes = {<<1, m>>, <<2, m>>} /\ m <= Absurd * landing.layout

InsetsSound == InsetsCurrent /\ LandsInTile /\ MinimumSeenTwice
=============================================================================
