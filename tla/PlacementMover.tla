--------------------------- MODULE PlacementMover ---------------------------
(***************************************************************************)
(* The placement mover (platform_win32/src/placement/mover.rs).            *)
(*                                                                         *)
(* Windows that ignore queued moves are marked; one thread moves them with *)
(* blocking calls.  Two kinds of work wait in the slot of a marked window: *)
(* a correction, the position a settled layout wants (seal) or a recovery, *)
(* which is retried until the owner answers or a deadline passes; and a    *)
(* pending target, the position of one animation frame (submit).  Recovery *)
(* passes cancel the work of windows they are about to restore and wait,   *)
(* for a bounded time, for a call in flight.  Generations tell apart what  *)
(* was asked before and after a seal or a cancel, lifetimes a window that  *)
(* was forgotten and marked again.                                         *)
(*                                                                         *)
(* A correction and a pending target carry the generation of their slot,   *)
(* so it is not repeated in them.  An optional value is a set of at most   *)
(* one element.  A call that succeeds puts the window where it was told,   *)
(* and nobody else moves a marked window; the sizes and flags of a target  *)
(* are part of it.                                                         *)
(***************************************************************************)
EXTENDS Naturals, Sequences, SequencesExt, Retain

CONSTANTS
    Windows,
    Targets,   \* positions asked for by seal and submit
    MaxGen     \* bound on next_generation

PlacementMoverAssumption ==
    MaxGen \in Nat /\ Targets \cap {"recover", "home", "any"} = {}

VARIABLES
    slots,           \* the slot of each window, NoSlot when it is not marked
    ready,           \* windows with work, in the order of their turn
    next_generation,
    in_flight,       \* the window and lifetime the thread works on
    pc,              \* what the thread is doing
    job,             \* its work and what came of it
    observed,        \* where a seal in progress saw its window
    frame,           \* generations sampled by the frame being applied
    waiting,         \* windows a cancel in progress waits for
    at               \* where each window is

codeVars == <<slots, ready, next_generation, in_flight, pc, job, observed,
              frame, waiting, at>>

(***************************************************************************)
(* What was asked for, kept to state the properties.                       *)
(***************************************************************************)
VARIABLES
    goal,            \* the last target asked for, "any" after it was dropped
    late,            \* windows moved after the move was cancelled
    held,            \* windows whose cancel returned with nothing in flight
    stale            \* windows cancelled since the frame sampled generations

vars == <<codeVars, goal, late, held, stale>>

Corrections == [to : Targets \cup {"recover"}, tried : BOOLEAN]
NoSlot == [lifetime |-> 0, generation |-> 0, cancelled |-> 0,
           pending |-> {}, correction |-> {}, completed |-> {}]
NoJob == [window |-> "none", lifetime |-> 0, generation |-> 0,
          correction |-> {}, target |-> {}, moved |-> FALSE,
          retry |-> FALSE, completed |-> FALSE]

Marked(w) == slots[w].lifetime # 0
HasWork(slot) == slot.pending # {} \/ slot.correction # {}
InFlight(w) == in_flight = {<<w, slots[w].lifetime>>}
Quiet(w) == ~HasWork(slots[w]) /\ \A f \in in_flight : f[1] # w

Init ==
    /\ slots = [w \in Windows |-> NoSlot]
    /\ ready = <<>> /\ next_generation = 0 /\ in_flight = {}
    /\ pc = "idle" /\ job = NoJob
    /\ observed = {} /\ frame = {} /\ waiting = {}
    /\ at = [w \in Windows |-> "home"]
    /\ goal = [w \in Windows |-> "any"]
    /\ late = {} /\ held = {} /\ stale = {}

Without(w) == Retained(ready, Windows \ {w})

(***************************************************************************)
(* Callers: the threads that apply layouts and animation frames.           *)
(***************************************************************************)
Mark(w) ==
    /\ ~Marked(w) /\ next_generation < MaxGen
    /\ next_generation' = next_generation + 1
    /\ slots' = [slots EXCEPT ![w] =
                    [NoSlot EXCEPT !.lifetime = next_generation',
                                   !.generation = next_generation']]
    /\ UNCHANGED <<ready, in_flight, pc, job, observed, frame, waiting, at,
                   goal, late, held, stale>>

\* The window is destroyed or no longer managed.
Forget(w) ==
    /\ Marked(w)
    /\ slots' = [slots EXCEPT ![w] = NoSlot]
    /\ ready' = Without(w)
    /\ goal' = [goal EXCEPT ![w] = "any"]
    /\ late' = late \ {w} /\ held' = held \ {w}
    /\ UNCHANGED <<next_generation, in_flight, pc, job, observed, frame,
                   waiting, at, stale>>

\* seal reads the rectangle before it takes the lock.
SealObserves(w, t) ==
    /\ observed = {} /\ observed' = {[window |-> w, to |-> t, rect |-> at[w]]}
    /\ UNCHANGED <<slots, ready, next_generation, in_flight, pc, job, frame,
                   waiting, at, goal, late, held, stale>>

SealUnmarked(s) ==
    /\ ~Marked(s.window)
    /\ observed' = {}
    /\ UNCHANGED <<slots, ready, next_generation, in_flight, pc, job, frame,
                   waiting, at, goal, late, held, stale>>

\* The window is already where the last correction put it.
Landed(s) ==
    LET slot == slots[s.window]
    IN  /\ ~InFlight(s.window) /\ ~HasWork(slot)
        /\ slot.completed = {s.to} /\ s.rect = s.to

SealSkips(s) ==
    /\ Marked(s.window) /\ Landed(s)
    /\ observed' = {}
    /\ goal' = [goal EXCEPT ![s.window] = s.to]
    /\ UNCHANGED <<slots, ready, next_generation, in_flight, pc, job, frame,
                   waiting, at, late, held, stale>>

\* A window in flight gets its turn when the thread is done with it.
SealQueues(w) ==
    ready' = IF InFlight(w) THEN Without(w) ELSE Append(Without(w), w)

SealCorrects(s) ==
    /\ Marked(s.window) /\ ~Landed(s) /\ next_generation < MaxGen
    /\ observed' = {}
    /\ next_generation' = next_generation + 1
    /\ slots' = [slots EXCEPT
         ![s.window].generation = next_generation',
         ![s.window].pending = {}, ![s.window].completed = {},
         ![s.window].correction = {[to |-> s.to, tried |-> FALSE]}]
    /\ SealQueues(s.window)
    /\ goal' = [goal EXCEPT ![s.window] = s.to]
    /\ held' = held \ {s.window}
    /\ UNCHANGED <<in_flight, pc, job, frame, waiting, at, late, stale>>

\* PlacementCache::prepare_frame
FramePrepared ==
    /\ frame' = {[w \in Windows |-> slots[w].generation]}
    /\ stale' = {}
    /\ UNCHANGED <<slots, ready, next_generation, in_flight, pc, job, observed,
                   waiting, at, goal, late, held>>

\* (Variant: any frame is welcome.)
AnyFrame(w, f) == Marked(w)

\* A frame that sampled its generations before a seal or a cancel is late.
Admits(w, f) == Marked(w) /\ f[w] = slots[w].generation

Submit(w, t, f) ==
    /\ Admits(w, f)
    /\ slots' = [slots EXCEPT ![w].pending = {t}, ![w].completed = {}]
    /\ ready' = IF Contains(ready, w) THEN ready ELSE Append(ready, w)
    /\ goal' = [goal EXCEPT ![w] = t]
    /\ held' = IF w \in stale THEN held ELSE held \ {w}
    /\ UNCHANGED <<next_generation, in_flight, pc, job, observed, frame,
                   waiting, at, late, stale>>

(***************************************************************************)
(* cancel: before a recovery pass restores these windows itself.           *)
(***************************************************************************)

Cancelled(slot) ==
    [slot EXCEPT !.generation = next_generation', !.cancelled = next_generation',
                 !.pending = {}, !.correction = {}, !.completed = {}]

Cancel(ws) ==
    /\ waiting = {} /\ next_generation < MaxGen
    /\ waiting' = ws
    /\ next_generation' = next_generation + 1
    /\ ready' = Retained(ready, Windows \ ws)
    /\ slots' = [w \in Windows |->
                   IF w \in ws /\ Marked(w) THEN Cancelled(slots[w]) ELSE slots[w]]
    /\ goal' = [w \in Windows |-> IF w \in ws THEN "any" ELSE goal[w]]
    /\ late' = late \ ws /\ stale' = stale \cup ws
    /\ UNCHANGED <<in_flight, pc, job, observed, frame, at, held>>

CancelReturns ==
    /\ waiting # {} /\ \A f \in in_flight : f[1] \notin waiting
    /\ waiting' = {}
    /\ held' = held \cup {w \in waiting : Marked(w) /\ Quiet(w)}
    /\ UNCHANGED <<slots, ready, next_generation, in_flight, pc, job, observed,
                   frame, at, goal, late, stale>>

\* After 100 ms the caller goes on without the call in flight.
CancelTimesOut ==
    /\ \E f \in in_flight : f[1] \in waiting
    /\ waiting' = {}
    /\ UNCHANGED <<slots, ready, next_generation, in_flight, pc, job, observed,
                   frame, at, goal, late, held, stale>>

(***************************************************************************)
(* The mover thread.                                                       *)
(***************************************************************************)
CallersOnly == UNCHANGED <<next_generation, observed, frame, waiting, held, stale>>

\* A correction goes before the frames that followed it.
TakesTarget(slot) == slot.correction = {}

\* The first window whose turn it is; a slot without work would panic here.
Pick ==
    /\ pc = "idle" /\ ready # <<>> /\ HasWork(slots[Head(ready)])
    /\ LET w == Head(ready)
           slot == slots[w]
           byTarget == TakesTarget(slot)
       IN  /\ in_flight' = {<<w, slot.lifetime>>}
           /\ job' = [NoJob EXCEPT
                        !.window = w, !.lifetime = slot.lifetime,
                        !.generation = slot.generation,
                        !.correction = IF byTarget THEN {} ELSE slot.correction,
                        !.target = IF byTarget THEN slot.pending ELSE {}]
           /\ slots' = [slots EXCEPT
                ![w].correction = IF byTarget THEN @ ELSE {},
                ![w].pending = IF byTarget THEN {} ELSE @]
    /\ ready' = Tail(ready) /\ pc' = "picked"
    /\ CallersOnly /\ UNCHANGED <<at, goal, late>>

IsCurrent ==
    /\ slots[job.window].lifetime = job.lifetime
    /\ slots[job.window].generation = job.generation

\* Work that is given up, and still wanted, is no longer promised.
GivesUp ==
    goal' = IF IsCurrent /\ slots[job.window].pending = {}
            THEN [goal EXCEPT ![job.window] = "any"] ELSE goal

\* Two seconds after its first turn a correction expires.
Expires ==
    /\ pc = "picked" /\ \E c \in job.correction : c.tried
    /\ pc' = "finish" /\ GivesUp
    /\ late' = IF IsCurrent THEN late \ {job.window} ELSE late
    /\ CallersOnly /\ UNCHANGED <<slots, ready, in_flight, job, at>>

Retries == job.correction # {}

\* An owner that does not answer keeps its correction for another turn, but
\* loses a frame.
OwnerSilent ==
    /\ pc = "picked" /\ pc' = "finish"
    /\ job' = [job EXCEPT !.retry = IsCurrent /\ Retries]
    /\ IF job.target # {} THEN GivesUp ELSE UNCHANGED goal
    /\ CallersOnly /\ UNCHANGED <<slots, ready, in_flight, at, late>>

Superseded ==
    /\ pc = "picked" /\ ~IsCurrent
    /\ pc' = "finish"
    /\ CallersOnly /\ UNCHANGED <<slots, ready, in_flight, job, at, goal, late>>

OwnerAnswers ==
    /\ pc = "picked" /\ IsCurrent
    /\ job' = [job EXCEPT !.moved = TRUE]
    /\ pc' = IF \E c \in job.correction : c.to = "recover" THEN "recover"
             ELSE "move"
    /\ CallersOnly /\ UNCHANGED <<slots, ready, in_flight, at, goal, late>>

\* recover_after_placement_mover looks once more before it moves the window.
RecoverySuperseded ==
    /\ pc = "recover" /\ ~IsCurrent /\ pc' = "finish"
    /\ CallersOnly /\ UNCHANGED <<slots, ready, in_flight, job, at, goal, late>>

RecoveryGoesOn ==
    /\ pc = "recover" /\ IsCurrent /\ pc' = "move"
    /\ CallersOnly /\ UNCHANGED <<slots, ready, in_flight, job, at, goal, late>>

Destination ==
    CHOOSE t \in Targets \cup {"recover"} :
        t \in job.target \/ \E c \in job.correction : c.to = t

\* The blocking call returns.  It may have been cancelled in the meantime.
Lands ==
    /\ pc = "move" /\ pc' = "finish"
    /\ at' = [at EXCEPT ![job.window] =
                IF Destination = "recover" THEN "home" ELSE Destination]
    /\ job' = [job EXCEPT !.completed = job.correction # {} /\ Destination # "recover"]
    /\ late' =
         IF /\ slots[job.window].lifetime = job.lifetime
            /\ slots[job.window].cancelled > job.generation
            /\ Destination # "recover"
         THEN late \cup {job.window} ELSE late \ {job.window}
    /\ CallersOnly /\ UNCHANGED <<slots, ready, in_flight, goal>>

CallFails ==
    /\ pc = "move" /\ pc' = "finish"
    /\ GivesUp
    /\ late' = IF IsCurrent THEN late \ {job.window} ELSE late
    /\ CallersOnly /\ UNCHANGED <<slots, ready, in_flight, job, at>>

\* The window was moved after its work was cancelled, and nothing newer is
\* going to move it.
CameLate(slot) ==
    /\ slot.generation # job.generation
    /\ slot.correction = {} /\ job.moved
    /\ slot.cancelled > job.generation /\ slot.generation = slot.cancelled

\* (Variant: the two seconds start over at each turn.)
StartsOver(c) == c

\* The two seconds run from the first turn.
KeepsDeadline(c) == [c EXCEPT !.tried = TRUE]

Settle(slot) ==
    IF slot.generation = job.generation
    THEN [slot EXCEPT
            !.correction = IF job.retry THEN {KeepsDeadline(c) : c \in job.correction}
                           ELSE {},
            !.completed = IF job.completed THEN {Destination} ELSE {}]
    ELSE IF CameLate(slot)
    THEN [slot EXCEPT !.correction = {[to |-> "recover", tried |-> FALSE]}]
    ELSE slot

Requeue(w, slot) ==
    ready' = IF HasWork(slot) THEN Append(Without(w), w) ELSE Without(w)

Finish ==
    /\ pc = "finish" /\ pc' = "idle"
    /\ LET w == job.window
       IN  IF slots[w].lifetime = job.lifetime
           THEN /\ slots' = [slots EXCEPT ![w] = Settle(slots[w])]
                /\ Requeue(w, Settle(slots[w]))
           ELSE UNCHANGED <<slots, ready>>
    /\ in_flight' = {} /\ job' = NoJob
    /\ CallersOnly /\ UNCHANGED <<at, goal, late>>

Mover ==
    \/ Pick \/ Superseded \/ OwnerAnswers \/ RecoverySuperseded
    \/ RecoveryGoesOn \/ Lands \/ CallFails \/ Finish

(***************************************************************************)
(* The specification.                                                      *)
(***************************************************************************)
Callers ==
    \/ \E w \in Windows : Mark(w) \/ Forget(w)
    \/ \E w \in Windows, t \in Targets : SealObserves(w, t)
    \/ \E s \in observed : SealUnmarked(s) \/ SealSkips(s) \/ SealCorrects(s)
    \/ FramePrepared
    \/ \E w \in Windows, t \in Targets, f \in frame : Submit(w, t, f)
    \/ \E ws \in {{w} : w \in Windows} \cup {Windows} : Cancel(ws)
    \/ CancelReturns \/ CancelTimesOut

Next == Callers \/ Mover \/ Expires \/ OwnerSilent

Spec == Init /\ [][Next]_vars

\* The thread runs, its calls return, and the two seconds pass.
FairSpec == Spec /\ WF_vars(Mover \/ OwnerSilent) /\ SF_vars(Expires)

(***************************************************************************)
(* Invariants.                                                             *)
(***************************************************************************)
Places == Targets \cup {"home"}
Slot ==
    [lifetime : 0..MaxGen, generation : 0..MaxGen, cancelled : 0..MaxGen,
     pending : SUBSET Targets, correction : SUBSET Corrections,
     completed : SUBSET Targets]

\* The type invariant; generations are handed out in order, and a slot never
\* holds two values where the code holds one.
TypeOK ==
    /\ slots \in [Windows -> Slot]
    /\ \A w \in Windows :
         /\ slots[w].lifetime <= slots[w].generation
         /\ slots[w].cancelled <= slots[w].generation
         /\ slots[w].generation <= next_generation
         /\ \A c, d \in slots[w].correction : c = d
         /\ \A t, u \in slots[w].pending : t = u
    /\ ready \in Seq(Windows) /\ next_generation \in 0..MaxGen
    /\ in_flight \subseteq Windows \X (1..MaxGen)
    /\ pc \in {"idle", "picked", "recover", "move", "finish"}
    /\ (in_flight = {}) <=> (pc = "idle")
    /\ waiting \subseteq Windows /\ stale \subseteq Windows
    /\ at \in [Windows -> Places] /\ goal \in [Windows -> Targets \cup {"any"}]
    /\ late \subseteq Windows /\ held \subseteq Windows

\* The thread takes the first window of the queue and unwraps its slot and its
\* work: everything queued has work, once, and no work is out of the queue
\* except the one in flight.
WorkIsQueued ==
    /\ IsInjective(ready)
    /\ \A i \in DOMAIN ready : HasWork(slots[ready[i]])
    /\ \A w \in Windows : HasWork(slots[w]) => Contains(ready, w) \/ InFlight(w)

\* The thread's bookkeeping: types, generations in order, a queue of work.
QueueSound == TypeOK /\ WorkIsQueued

\* What was asked for last is where the window ends up, whatever frames, late
\* calls, new lifetimes and skipped seals lie in between.
LastTargetWins ==
    \A w \in Windows : Quiet(w) /\ goal[w] # "any" => at[w] = goal[w]

\* A move that lands after its cancel (which stopped waiting for it) is undone
\* by a recovery or followed by what was asked for since.
LateMovesRecovered == \A w \in late : ~Quiet(w)

\* After a cancel that returned with nothing in flight the window stays where
\* the recovery pass puts it, until something new is asked for; a frame that
\* was being applied meanwhile is not.
CancelHolds == [][\A w \in held : at'[w] = at[w]]_vars

\* A correction is in the slot or in the hands of the thread.
Corrected(w) ==
    slots[w].correction # {} \/ (InFlight(w) /\ job.correction # {})

\* Every correction is carried out, replaced, cancelled or expires, of all
\* windows: an owner that never answers does not keep its own or another's
\* for ever (the seals that make new ones come to an end with the generations).
CorrectionsEnd == (\E w \in Windows : Corrected(w)) ~> \A w \in Windows : ~Corrected(w)

=============================================================================
