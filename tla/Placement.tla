----------------------------- MODULE Placement -----------------------------
(***************************************************************************)
(* One window on its way to where the layout wants it: moves queued with   *)
(* its owner, synchronous moves that may overtake them, the record of what *)
(* is still queued, and the cloak that several threads hold.               *)
(*                                                                         *)
(* Frames (queued moves) come from the animation worker, landings          *)
(* (synchronous moves) from a layout thread; a barrier keeps the two       *)
(* apart.  The event loop asks, parks and cloaks at any time.  A window    *)
(* that was marked is the placement mover's and is left alone here; DWM    *)
(* is taken to obey, as it does for a window of the daemon's own process.  *)
(***************************************************************************)
EXTENDS Naturals, Sequences, SequencesExt

CONSTANTS
    Spots,      \* places on the screen
    MaxAsks,    \* placements asked for
    MaxQueue    \* moves queued with the owner at once

\* What the parameters have to be; assumed where the module is instantiated.
PlacementAssumption == MaxAsks \in Nat /\ MaxQueue \in Nat \ {0} /\ "park" \notin Spots

VARIABLES
    window,     \* [at, cloaked]
    owner,      \* [awake, deaf, queue]: a deaf owner drops queued moves
    sub,        \* ASYNC_POSITIONS: none or one submission
    credit,     \* APPLIED_QUEUED_MOVES
    marked,     \* handed to the mover
    parked,     \* GLOBAL_CLOAKED
    ghost,      \* GHOST_CLOAKED
    commits,    \* apply_cloak_state of each thread: "none", "due", or what it read
    run,        \* the apply in progress
    want, asks, \* (ghost) the last place asked for, and how often one was
    seen        \* (ghost) [overlap, doubt]

placementVars == <<window, owner, sub, credit, marked, parked, ghost, commits, run, want, asks, seen>>

Threads == {"layout", "loop"}
Targets == Spots \cup {"park"}
Idle == [at |-> "idle", to |-> "park", post |-> FALSE, held |-> FALSE, waits |-> FALSE]

(***************************************************************************)
(* The record of a queued move.                                            *)
(***************************************************************************)
\* credit_applied_queued_move: a queued move was seen to arrive
Earns(s) == ~s.sync /\ s.origin # {} /\ s.origin # {s.to} /\ s.to # "park"

\* async_position_state with the probe of the owner's thread
State(s, probe) ==
    IF s.wait THEN "pending"
    ELSE IF window.at = s.to THEN "drained"
    ELSE IF s.old THEN "expired"
    ELSE IF s.quiet /\ probe /\ owner.awake THEN "answered"
    ELSE "pending"

\* the window still is where it was before the first move of the record
NeverApplied(s) == s.origin = {} \/ s.origin = {window.at}

\* What looking at the record does to it: [sub, credit, marked, state].
Looked(probe) ==
    LET as(state, keep, c, m) == [sub |-> keep, credit |-> c, marked |-> m, state |-> state]
    IN  IF sub = {} THEN as("none", {}, credit, marked)
        ELSE LET s == CHOOSE x \in sub : TRUE
                 state == State(s, probe)
                 never == NeverApplied(s)
             IN  CASE state = "pending" -> as(state, sub, credit, marked)
                   [] state = "drained" -> as(state, {}, credit \/ Earns(s), marked)
                   [] state = "expired" -> as(state, {}, credit, marked)
                   [] state = "answered" -> as(state, {}, credit /\ ~never, never /\ ~credit)

\* record_async_coordinates: a live record keeps its origin and its age.
Recorded(before, to, wait, origin) ==
    LET kept == {p \in before : p.wait \/ ~p.old}
    IN  IF kept = {}
        THEN {[to |-> to, wait |-> wait, origin |-> origin, sync |-> FALSE, quiet |-> FALSE, old |-> FALSE]}
        ELSE {[p EXCEPT !.to = to, !.wait = @ \/ wait, !.quiet = FALSE] : p \in kept}
\* an old record that turns out to have arrived earns its credit
EarnsLate(before) == \E p \in before : ~p.wait /\ p.old /\ window.at = p.to /\ Earns(p)

Queued(to) == [owner EXCEPT !.queue = Append(@, to)]

(***************************************************************************)
(* The cloak: change a set, then commit the union; read and write are two  *)
(* steps of a thread.                                                      *)
(***************************************************************************)
Tracked == parked \/ ghost
NoCommit(t) == commits[t] = "none"
Others(t) == \E u \in Threads \ {t} : commits[u] # "none"
Due(t, change) == commits' = IF change THEN [commits EXCEPT ![t] = "due"] ELSE commits

ReadSets(t) ==
    /\ commits[t] = "due"
    /\ commits' = [commits EXCEPT ![t] = IF Tracked THEN "cloak" ELSE "show"]
    /\ seen' = [seen EXCEPT !.overlap = @ \/ Others(t)]
    /\ UNCHANGED <<window, owner, sub, credit, marked, parked, ghost, run, want, asks>>
WriteCloak(t) ==
    /\ commits[t] \in {"cloak", "show"}
    /\ window' = [window EXCEPT !.cloaked = (commits[t] = "cloak")]
    /\ commits' = [commits EXCEPT ![t] = "none"]
    /\ UNCHANGED <<owner, sub, credit, marked, parked, ghost, run, want, asks, seen>>

\* mark_ghost_cloaked, unmark_ghost_cloaked
Ghost ==
    /\ NoCommit("loop") /\ ghost' = ~ghost /\ Due("loop", TRUE)
    /\ UNCHANGED <<window, owner, sub, credit, marked, parked, run, want, asks, seen>>

(***************************************************************************)
(* Asking for a place.                                                     *)
(***************************************************************************)
Asked(to) ==
    /\ asks < MaxAsks /\ asks' = asks + 1 /\ want' = to
Anew(s) == [s EXCEPT !.doubt = @ /\ owner.queue # <<>>]
\* a record was retired while moves were queued, and none was put behind them:
\* it was ten seconds old, or the window stood on its target by chance
Doubts(s, l) == [s EXCEPT !.doubt = @ \/ (l.state \in {"drained", "expired", "answered"} /\ owner.queue # <<>>)]

\* What a placement leaves of the parked set: a shown window leaves it, a
\* hidden one enters it, an omitted one leaves it.
CloakFor(to) == to = "park"

\* apply_placements with a cache: one queued move, whatever is pending.
Frame ==
    /\ run = Idle /\ NoCommit("layout") /\ ~marked /\ Len(owner.queue) < MaxQueue
    /\ \E to \in Targets :
         LET l == Looked(FALSE)
         IN  /\ Asked(to) /\ owner' = Queued(to)
             /\ sub' = Recorded(l.sub, to, FALSE, {window.at})
             /\ credit' = (l.credit \/ EarnsLate(l.sub))
             /\ parked' = CloakFor(to) /\ Due("layout", parked' # parked)
             /\ seen' = Anew(seen)
    /\ UNCHANGED <<window, marked, ghost, run>>
\* the window is a ghost's source and left out of the frame
FrameOmits ==
    /\ run = Idle /\ NoCommit("layout") /\ parked
    /\ parked' = FALSE /\ Due("layout", TRUE)
    /\ UNCHANGED <<window, owner, sub, credit, marked, ghost, run, want, asks, seen>>

\* apply_placements without a cache, or after a display change.  First
\* probe_placement_owners: a record that waits for its owner goes on waiting
\* unless the owner answers; after a display change every owner is asked.
Silent(asked) == asked /\ ~owner.awake
Land ==
    /\ run = Idle /\ NoCommit("layout") /\ ~marked
    /\ \E to \in Targets, post \in BOOLEAN, display \in BOOLEAN :
         LET waited == \E s \in sub : s.wait
             silent == Silent(waited \/ display)
         IN  /\ Asked(to)
             /\ run' = [at |-> "post", to |-> to, post |-> post, held |-> waited \/ silent, waits |-> silent]
             /\ sub' = IF owner.awake THEN {[s EXCEPT !.wait = FALSE, !.old = @ /\ ~s.wait] : s \in sub} ELSE sub
             /\ parked' = (parked /\ CloakFor(to)) /\ Due("layout", parked' # parked)
             /\ seen' = Anew(seen)
    /\ UNCHANGED <<window, owner, credit, marked, ghost>>

\* A move behind what is queued, so that nothing older has the last word.
Endpoint(r, l) == r.post \/ r.held \/ l.state \in {"pending", "answered"}

\* note_synchronous_move, before the move
FlagsBefore(r, l) == r.post \/ l.state = "answered"

LandPosts ==
    /\ run.at = "post" /\ NoCommit("layout") /\ Len(owner.queue) < MaxQueue
    /\ LET l == Looked(TRUE)
           pending == run.held \/ l.state = "pending" \/ l.marked
           posts == Endpoint(run, l) /\ ~l.marked
           recorded == IF posts THEN Recorded(l.sub, run.to, FALSE, {window.at}) ELSE l.sub
           early == ~pending /\ FlagsBefore(run, l)
       IN  /\ owner' = IF posts THEN Queued(run.to) ELSE owner
           /\ credit' = (l.credit \/ (posts /\ EarnsLate(l.sub)))
           /\ marked' = l.marked
           /\ sub' = {[s EXCEPT !.wait = @ \/ run.waits, !.sync = @ \/ early] : s \in recorded}
           /\ run' = [run EXCEPT !.at = IF pending THEN "end" ELSE "moving", !.held = early]
           /\ seen' = IF posts THEN seen ELSE Doubts(seen, l)
    /\ UNCHANGED <<window, parked, ghost, commits, want, asks>>

\* The synchronous move returns when the owner handles it, ahead of what is
\* queued.
SyncMoves ==
    /\ run.at = "moving" /\ owner.awake
    /\ window' = [window EXCEPT !.at = run.to]
    /\ sub' = IF run.held THEN sub ELSE {}
    /\ run' = [run EXCEPT !.at = "end"]
    /\ UNCHANGED <<owner, credit, marked, parked, ghost, commits, want, asks, seen>>

\* sync_cloak_state
LandEnds ==
    /\ run.at = "end" /\ NoCommit("layout")
    /\ parked' = CloakFor(run.to) /\ Due("layout", parked' # parked)
    /\ run' = Idle
    /\ UNCHANGED <<window, owner, sub, credit, marked, ghost, want, asks, seen>>

(***************************************************************************)
(* The event loop.                                                         *)
(***************************************************************************)
\* pending_async_position
Ask ==
    /\ sub # {} /\ ~marked
    /\ LET l == Looked(TRUE)
       IN  /\ sub' = l.sub /\ credit' = l.credit /\ marked' = l.marked
           /\ seen' = Doubts(seen, l)
    /\ UNCHANGED <<window, owner, parked, ghost, commits, run, want, asks>>

\* queue_window_offscreen: waits for the owner, however long it takes.
QueueOffscreen ==
    /\ ~marked /\ run = Idle /\ Len(owner.queue) < MaxQueue /\ Asked("park")
    /\ owner' = Queued("park")
    /\ sub' = Recorded(sub, "park", TRUE, {window.at})
    /\ credit' = (credit \/ EarnsLate(sub))
    /\ seen' = Anew(seen)
    /\ UNCHANGED <<window, marked, parked, ghost, commits, run>>

\* clear_suspected_oversize, when a window leaves or comes anew
Forget ==
    /\ run = Idle /\ (sub # {} \/ credit \/ marked)
    /\ sub' = {} /\ credit' = FALSE /\ marked' = FALSE
    /\ seen' = [seen EXCEPT !.doubt = @ \/ owner.queue # <<>>]
    /\ UNCHANGED <<window, owner, parked, ghost, commits, run, want, asks>>

(***************************************************************************)
(* The window's owner, and time.                                           *)
(***************************************************************************)
OwnerMoves ==
    /\ owner.awake /\ owner.queue # <<>>
    /\ owner' = [owner EXCEPT !.queue = Tail(@)]
    /\ window' = IF owner.deaf THEN window ELSE [window EXCEPT !.at = Head(owner.queue)]
    /\ UNCHANGED <<sub, credit, marked, parked, ghost, commits, run, want, asks, seen>>
OwnerHangsOrWakes ==
    /\ owner' = [owner EXCEPT !.awake = ~@]
    /\ UNCHANGED <<window, sub, credit, marked, parked, ghost, commits, run, want, asks, seen>>
\* 250 ms after the last move of the record, 10 s after the first
TimePasses ==
    /\ \/ \E s \in sub : ~s.quiet /\ sub' = {[s EXCEPT !.quiet = TRUE]}
       \/ \E s \in sub : s.quiet /\ ~s.old /\ sub' = {[s EXCEPT !.old = TRUE]}
    /\ UNCHANGED <<window, owner, credit, marked, parked, ghost, commits, run, want, asks, seen>>

Init ==
    /\ \E s \in Spots : window = [at |-> s, cloaked |-> FALSE] /\ want = s
    /\ \E deaf \in BOOLEAN : owner = [awake |-> TRUE, deaf |-> deaf, queue |-> <<>>]
    /\ sub = {} /\ credit = FALSE /\ marked = FALSE /\ parked = FALSE /\ ghost = FALSE
    /\ commits = [t \in Threads |-> "none"] /\ run = Idle /\ asks = 0
    /\ seen = [overlap |-> FALSE, doubt |-> FALSE]

Next ==
    \/ \E t \in Threads : ReadSets(t) \/ WriteCloak(t)
    \/ Ghost \/ Frame \/ FrameOmits \/ Land \/ LandPosts \/ SyncMoves \/ LandEnds
    \/ Ask \/ QueueOffscreen \/ Forget \/ OwnerMoves \/ OwnerHangsOrWakes \/ TimePasses

PlacementSpec == Init /\ [][Next]_placementVars

(***************************************************************************)
(* Properties.                                                             *)
(***************************************************************************)
\* "A pending owner-thread move must not be overtaken by this pass's
\* synchronous batch": between passes the last place asked for has the last
\* word, whatever frames, landings and parkings are still queued, in whatever
\* order the owner comes to them.  (A record that was retired too early no
\* longer protects its window.)
LastWord ==
    run = Idle /\ ~seen.doubt /\ ~marked /\ ~owner.deaf =>
        IF owner.queue = <<>> THEN window.at = want ELSE Last(owner.queue) = want

\* Credit is earned by queued moves alone: a window whose owner drops them has
\* none, so it is found out and handed to the mover.  "Flag before moving: an
\* observer can retire the record as soon as the window lands."
DeafEarnNothing == owner.deaf => ~credit

\* "Applies the logical OR of GLOBAL_CLOAKED and GHOST_CLOAKED" once every
\* thread has committed; while two commits do not overlap.
Settled == \A t \in Threads : NoCommit(t)
CloakIsOr == Settled /\ ~seen.overlap => window.cloaked = Tracked

PlacementSound == LastWord /\ DeafEarnNothing /\ CloakIsOr

\* The same whatever the threads do.
CloakIsAlwaysOr == Settled => window.cloaked = Tracked
=============================================================================
