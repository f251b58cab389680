------------------------------ MODULE Overview ------------------------------
(***************************************************************************)
(* The workspace overview (overview.rs of platform_win32 and of the        *)
(* daemon): an overlay window on a thread of its own, whose state both     *)
(* threads change under one lock, and which the daemon shows, refreshes    *)
(* and hides while it handles commands and window events.                  *)
(*                                                                         *)
(* The daemon's calls are several steps long, so a handler leaves the      *)
(* steps it still has to take in todo; a step that sends the overlay a     *)
(* window message waits until its thread is between two messages.  The     *)
(* overlay thread drops the lock inside a timer tick and inside a paint:   *)
(* work holds what it had read.  Which card an arrow key reaches, and      *)
(* whether there is a thumbnail left to animate, is left open.             *)
(***************************************************************************)
EXTENDS Integers, SequencesExt

CONSTANTS
    Windows,        \* windows of the monitor
    Rows,           \* its workspaces
    MaxInputs       \* keys, commands, clicks, window events, focus changes

\* What the parameters have to be; assumed where the module is instantiated.
OverviewAssumption == {Rows, MaxInputs} \subseteq Nat \ {0}

VARIABLES
    ov,         \* OverviewState, the input session, the window, both queues
    work,       \* what the overlay thread is in the middle of: at most one
    open,       \* overview_open
    todo,       \* what the daemon's handler has still to do
    place,      \* the workspace of each window, 0 when it has none
    acted,      \* history: the number of the last key that was acted on
    spent       \* inputs so far

overviewVars == <<ov, work, open, todo, place, acted, spent>>

Keys == {"esc", "enter", "move", "nav"}

Start == [visible |-> FALSE, anim |-> "none", notify |-> FALSE,
          model |-> [w \in Windows |-> 0], selected |-> {},
          gen |-> {}, pending |-> FALSE, deferred |-> <<>>,
          session |-> 0, held |-> FALSE,
          onscreen |-> FALSE, focused |-> FALSE, timer |-> FALSE,
          dirty |-> FALSE, stale |-> TRUE, cache |-> {}, early |-> {},
          inbox |-> <<>>, events |-> <<>>]

Cards(m) == {w \in Windows : m[w] # 0}
Frame(s) == <<s.model, s.selected>>
Posted(s, m) == [s EXCEPT !.inbox = Append(s.inbox, m)]
Told(s, e) == [s EXCEPT !.events = Append(s.events, e)]
Closing(s) == ~s.visible \/ s.anim = "closing"
Current(s, g) == s.held /\ s.session = g

\* render_overlay: the next paint renders.
Render(s) == IF s.visible THEN [s EXCEPT !.stale = TRUE, !.dirty = TRUE] ELSE s

\* release_input
Release(s) == [s EXCEPT !.session = s.session + 1, !.held = FALSE,
                        !.gen = {}, !.pending = FALSE, !.deferred = <<>>]

\* start_close: animated, or impossible because nothing can glide.
Closes(s, notify) ==
    IF s.anim = "closing" THEN {[to |-> s, started |-> TRUE]}
    ELSE {[to |-> s, started |-> FALSE],
          [to |-> Posted([s EXCEPT !.anim = "closing", !.notify = notify], [msg |-> "start"]),
           started |-> TRUE]}

UserClose(s) ==
    LET r == Release(s)
    IN IF ~s.visible THEN {r}
       ELSE {IF c.started THEN c.to ELSE Told(c.to, [event |-> "dismissed"]) :
               c \in Closes(r, TRUE)}

\* The focus leaves a window that has it: WM_KILLFOCUS.
Blurred(s) == IF s.focused
              THEN [s EXCEPT !.focused = FALSE, !.inbox = <<[msg |-> "blur"]>> \o s.inbox]
              ELSE s
Dropped(s) == [s EXCEPT !.cache = {}, !.early = {}, !.dirty = FALSE]
Hidden(s) == Dropped(Blurred([s EXCEPT !.onscreen = FALSE]))

\* apply_model_update: the selection stays on its window when it can.
Select(m, w) == IF w \cap Cards(m) # {} THEN {w} ELSE {{x} : x \in Cards(m)}
Updates(s, m) ==
    IF Closing(s) \/ s.model = m THEN {s}
    ELSE {Render([s EXCEPT !.model = m, !.selected = sel, !.anim = a]) :
            sel \in Select(m, s.selected), a \in {s.anim, "none"}}

(***************************************************************************)
(* Keys.                                                                   *)
(***************************************************************************)
\* next_selection: some other card, of this row or of the next with any.
Reached(s) == Cards(s.model) \ s.selected

\* handle_input, once the key is one to act on.
Effects(s, k) ==
    CASE k.key = "esc" -> UserClose(s)
      [] k.key = "nav" -> {Render([s EXCEPT !.selected = {x}]) : x \in Reached(s)} \cup {s}
      [] s.selected = {} -> {s}
      [] k.key = "enter" -> {Told(s, [event |-> "activate", wins |-> s.selected])}
      [] k.key = "move" -> {Told([s EXCEPT !.pending = TRUE],
                                 [event |-> "move", wins |-> s.selected, gens |-> s.gen])}

Handles(s, k) == /\ ~Closing(s) /\ s.gen # {}
                 /\ s.anim = "opening" => k.key = "esc"
Input(s, k) ==
    IF ~Handles(s, k) THEN {[to |-> s, act |-> 0]}
    ELSE IF s.pending /\ k.key # "esc"
         THEN {[to |-> [s EXCEPT !.deferred = Append(s.deferred, k)], act |-> 0]}
    ELSE {[to |-> t, act |-> k.n] : t \in Effects(s, k)}

Waits(s) == s.deferred # <<>> /\ ~s.pending
\* (Variant: a new key goes first.)
DeferredLast(s, new) == Waits(s) /\ new = {}
\* next_input: a deferred key goes before the one that came, except Escape.
TakesDeferred(s, new) == Waits(s) /\ \A k \in new : k.key # "esc"

Worked(w) == work' = w
Calm == UNCHANGED <<open, todo, place, spent>>

(***************************************************************************)
(* The overlay thread.                                                     *)
(***************************************************************************)
Message(m) == work = {} /\ ov.inbox # <<>> /\ Head(ov.inbox).msg = m
Taken == [ov EXCEPT !.inbox = Tail(ov.inbox)]

StartAnim ==
    /\ Message("start")
    /\ ov' = [Taken EXCEPT !.timer = TRUE]
    /\ Worked({}) /\ Calm /\ UNCHANGED acted

\* A key of an earlier session expires.
Navigate ==
    /\ Message("key")
    /\ ov' = Taken
    /\ LET k == Head(ov.inbox).key
       IN Worked(IF ov.visible /\ Current(ov, Head(ov.inbox).gen)
                 THEN {[op |-> "keys", new |-> {k}]} ELSE {})
    /\ Calm /\ UNCHANGED acted

Replay ==
    /\ Message("replay")
    /\ ov' = Taken
    /\ Worked(IF Current(ov, Head(ov.inbox).gen) THEN {[op |-> "keys", new |-> {}]} ELSE {})
    /\ Calm /\ UNCHANGED acted

\* One round of dispatch_pending_input.
Dispatch ==
    \E w \in work :
      /\ w.op = "keys"
      /\ LET old == TakesDeferred(ov, w.new)
             s == IF old THEN [ov EXCEPT !.deferred = Tail(ov.deferred)] ELSE ov
             ks == IF old THEN {Head(ov.deferred)} ELSE w.new
         IN IF ks = {} THEN UNCHANGED <<ov, acted>> /\ Worked({})
            ELSE \E k \in ks : \E r \in Input(s, k) :
                   /\ ov' = r.to
                   /\ acted' = IF r.act = 0 THEN acted ELSE r.act
                   /\ Worked({[w EXCEPT !.new = w.new \ ks]})
      /\ Calm

KillFocus ==
    /\ Message("blur")
    /\ ov' \in UserClose(Taken)
    /\ Worked({}) /\ Calm /\ UNCHANGED acted

\* on_anim_tick reads the animation and lets go of the lock; the last tick
\* stops the timer before it takes the lock again.
Tick ==
    /\ work = {}
    /\ ov.timer
    /\ ov' = [ov EXCEPT !.timer = FALSE]
    /\ Worked(IF ov.anim = "none" THEN {}
              ELSE {[op |-> "ended", phase |-> ov.anim, notify |-> ov.notify]})
    /\ Calm /\ UNCHANGED acted

\* Open-settle: the frame rendered ahead is taken over when it still matches.
Adopted(s) == IF s.early = {Frame(s)} /\ s.visible
              THEN [s EXCEPT !.cache = s.early, !.stale = FALSE, !.early = {}]
              ELSE Render([s EXCEPT !.early = {}])
Opened ==
    \E w \in work :
      /\ w.op = "ended" /\ w.phase = "opening"
      /\ ov' = Adopted([ov EXCEPT !.anim = "none"])
      /\ Worked({}) /\ Calm /\ UNCHANGED acted

Vanishes ==
    \E w \in work :
      /\ w.op = "ended" /\ w.phase = "closing"
      /\ ov' = [ov EXCEPT !.anim = "none", !.visible = FALSE]
      /\ Worked({[w EXCEPT !.op = "vanished"]}) /\ Calm /\ UNCHANGED acted

Vanished ==
    \E w \in work :
      /\ w.op = "vanished"
      /\ LET s == Hidden(Release(ov))
         IN ov' = IF w.notify THEN Told(s, [event |-> "dismissed"]) ELSE s
      /\ Worked({}) /\ Calm /\ UNCHANGED acted

\* WM_PAINT: a frame of the animation, the cached frame, or a new one that is
\* rendered from what the state was.
Paint ==
    /\ work = {}
    /\ ov.dirty
    /\ ov' = [ov EXCEPT !.dirty = FALSE]
    /\ Worked(IF ov.visible /\ ov.anim = "none" /\ (ov.stale \/ ov.cache = {})
              THEN {[op |-> "paint", frame |-> Frame(ov)]} ELSE {})
    /\ Calm /\ UNCHANGED acted

\* install_hover_cache_and_blit
Painted ==
    \E w \in work :
      /\ w.op = "paint"
      /\ ov' = IF ov.visible THEN [ov EXCEPT !.cache = {w.frame}, !.stale = FALSE] ELSE ov
      /\ Worked({}) /\ Calm /\ UNCHANGED acted

Overlay == \/ StartAnim \/ Navigate \/ Replay \/ Dispatch \/ KillFocus
           \/ Tick \/ Opened \/ Vanishes \/ Vanished \/ Paint \/ Painted

(***************************************************************************)
(* The steps of the daemon's handlers.                                     *)
(***************************************************************************)
Op(name) == [op |-> name]
Show == <<Op("show"), Op("window")>>
Hide == <<Op("release"), Op("clear"), Op("hide"), Op("closed")>>
HideAnimated == <<Op("release"), Op("glide"), Op("closed")>>

\* The handler's next step, done; rest is what it has still to do.
Step(s, rest) ==
    /\ ov' = s
    /\ todo' = rest
    /\ UNCHANGED <<work, acted, spent>>
Doing(name) == todo # <<>> /\ Head(todo).op = name

\* show, under the lock, and the session it acquires.
DoShow ==
    /\ Doing("show")
    /\ \E sel \in Cards(place), a \in {"opening", "none"} :
         Step([Release(ov) EXCEPT !.selected = {sel}, !.anim = a, !.notify = FALSE,
                                  !.model = place, !.visible = TRUE,
                                  !.gen = {ov.session + 1}, !.held = TRUE],
              Tail(todo))
    /\ UNCHANGED <<open, place>>

\* build_chrome_steps: the settled frame, rendered ahead.
Ahead(s) == IF s.anim = "opening" THEN {Frame(s)} ELSE {}

\* The rest of show; Windows may refuse the focus.
DoWindow ==
    /\ Doing("window")
    /\ work = {}
    /\ LET rendered == Render([ov EXCEPT !.onscreen = TRUE, !.early = Ahead(ov)])
           started == IF ov.anim = "opening" THEN Posted(rendered, [msg |-> "start"])
                      ELSE rendered
       IN \E focus \in BOOLEAN :
            Step([started EXCEPT !.focused = focus \/ ov.focused], Tail(todo))
    /\ open' = TRUE
    /\ UNCHANGED place

DoRelease == Doing("release") /\ Step(Release(ov), Tail(todo)) /\ UNCHANGED <<open, place>>

DoClear ==
    /\ Doing("clear")
    /\ Step([ov EXCEPT !.visible = FALSE, !.anim = "none"], Tail(todo))
    /\ UNCHANGED <<open, place>>

DoHide ==
    /\ Doing("hide")
    /\ work = {}
    /\ Step(Hidden(ov), Tail(todo))
    /\ UNCHANGED <<open, place>>

\* hide_animated; without an animation it hides at once.
DoGlide ==
    /\ Doing("glide")
    /\ IF ~ov.visible THEN Step(ov, Tail(todo))
       ELSE \E c \in Closes(ov, FALSE) :
              Step(c.to, (IF c.started THEN <<>> ELSE SubSeq(Hide, 1, 3)) \o Tail(todo))
    /\ UNCHANGED <<open, place>>

\* overview_open goes, and the focus with it when there is a window to take it.
DoClosed ==
    /\ Doing("closed")
    /\ Step(ov, Tail(todo)) \/ (open /\ Step(Blurred(ov), Tail(todo)))
    /\ open' = FALSE
    /\ UNCHANGED place

\* transfer_overview_window, to the workspace before or after.
DoTransfer ==
    /\ Doing("transfer")
    /\ Step(ov, Tail(todo))
    /\ LET w == Head(todo).win
       IN \E r \in {r \in 1..Rows : place[w] # 0 /\ r \in {place[w] - 1, place[w], place[w] + 1}}
                   \cup (IF place[w] = 0 THEN {0} ELSE {}) :
            place' = [place EXCEPT ![w] = r]
    /\ UNCHANGED open

\* complete_window_move
Completes(s, w, g) == s.gen = {g} /\ ~Closing(s) /\ s.pending
Moved(s, w) ==
    {LET sel == IF w \in Cards(u.model) THEN {w} ELSE u.selected
         t == [u EXCEPT !.selected = sel, !.pending = FALSE]
     IN IF sel # s.selected THEN Render(t) ELSE t : u \in Updates(s, place)}
DoAnswer ==
    /\ Doing("answer")
    /\ LET g == Head(todo).gen
           w == Head(todo).win
       IN IF ~(open /\ Current(ov, g)) THEN Step(ov, Tail(todo))
          ELSE IF Cards(place) = {} THEN Step(ov, Hide \o Tail(todo))
          ELSE IF Completes(ov, w, g)
               THEN \E m \in Moved(ov, w) :
                      Step(Posted(m, [msg |-> "replay", gen |-> g]), Tail(todo))
          ELSE Step(ov, Tail(todo))
    /\ UNCHANGED <<open, place>>

\* refresh_overview_model
DoRefresh ==
    /\ Doing("refresh")
    /\ IF Closing(ov) THEN Step(ov, Tail(todo))
       ELSE IF Cards(place) = {} THEN Step(ov, Hide \o Tail(todo))
       ELSE \E u \in Updates(ov, place) : Step(u, Tail(todo))
    /\ UNCHANGED <<open, place>>

Daemon == \/ DoShow \/ DoWindow \/ DoRelease \/ DoClear \/ DoHide \/ DoGlide
          \/ DoClosed \/ DoTransfer \/ DoAnswer \/ DoRefresh

\* handle_overview_event
Answers(e) ==
    CASE e.event = "dismissed" -> IF open THEN Hide ELSE <<>>
      [] e.event = "activate" -> HideAnimated
      [] e.event = "move" ->
           LET g == CHOOSE x \in e.gens : TRUE
               w == CHOOSE x \in e.wins : TRUE
           IN IF ~Current(ov, g) THEN <<>>
              ELSE (IF open THEN <<[op |-> "transfer", win |-> w]>> ELSE <<>>)
                     \o <<[op |-> "answer", win |-> w, gen |-> g]>>
OverviewEvent ==
    /\ todo = <<>>
    /\ ov.events # <<>>
    /\ todo' = Answers(Head(ov.events))
    /\ ov' = [ov EXCEPT !.events = Tail(ov.events)]
    /\ UNCHANGED <<work, open, place, acted, spent>>

(***************************************************************************)
(* The user and the system.                                                *)
(***************************************************************************)
Command == /\ spent < MaxInputs
           /\ spent' = spent + 1
           /\ UNCHANGED <<work, open, acted>>

Toggle == /\ Command /\ todo = <<>> /\ UNCHANGED <<ov, place>>
          /\ todo' = IF open THEN HideAnimated ELSE IF Cards(place) = {} THEN <<>> ELSE Show

\* A workspace switch, or displays that settled.
Switch == Command /\ todo = <<>> /\ open /\ todo' = HideAnimated /\ UNCHANGED <<ov, place>>
Settle == Command /\ todo = <<>> /\ todo' = Hide /\ UNCHANGED <<ov, place>>

\* A window opens or closes.
WindowEvent ==
    /\ Command /\ todo = <<>>
    /\ \E w \in Windows : place' = [place EXCEPT ![w] = IF place[w] = 0 THEN 1 ELSE 0]
    /\ todo' = IF open THEN <<Op("refresh")>> ELSE <<>>
    /\ UNCHANGED ov

\* The user turns to another window, or clicks beside the cards.
Away == Command /\ ov.focused /\ ov' = Blurred(ov) /\ UNCHANGED <<todo, place>>
Beside == /\ Command /\ work = {} /\ ov.visible /\ ov.anim = "none" /\ ov.onscreen
          /\ ov' \in UserClose(ov) /\ UNCHANGED <<todo, place>>

\* The hook sends keys to an overlay that has a session and the focus.
Press ==
    /\ spent < MaxInputs
    /\ ov.held /\ ov.focused
    /\ \E k \in Keys :
         ov' = Posted(ov, [msg |-> "key", gen |-> ov.session, key |-> [key |-> k, n |-> spent + 1]])
    /\ spent' = spent + 1
    /\ UNCHANGED <<work, open, todo, place, acted>>

User == Toggle \/ Switch \/ Settle \/ WindowEvent \/ Away \/ Beside \/ Press

Init ==
    /\ ov = Start /\ work = {} /\ open = FALSE /\ todo = <<>>
    /\ place = [w \in Windows |-> 1]
    /\ acted = 0 /\ spent = 0

Next == Overlay \/ Daemon \/ OverviewEvent \/ User

\* Both threads take their messages; nobody has to press a key.
OverviewSpec == Init /\ [][Next]_overviewVars
                     /\ WF_overviewVars(Overlay) /\ WF_overviewVars(Daemon)
                     /\ WF_overviewVars(OverviewEvent)

(***************************************************************************)
(* Properties.                                                             *)
(***************************************************************************)
\* A move that waits for its answer and the keys put off behind it belong to
\* the session that is on: no close and no reopening leaves any behind.
InputNeedsSession ==
    /\ ov.gen \subseteq (IF ov.held THEN {ov.session} ELSE {})
    /\ ov.pending \/ ov.deferred # <<>> => ov.gen # {}

\* Keys act in the order they were pressed, whatever was put off in between
\* and whichever thread answered the move.
KeysInOrder == [][acted' >= acted]_acted

\* A move is answered or its session ends, and what waits behind it is not
\* forgotten: no key blocks the overview for good.
MoveAnswered == (ov.pending \/ ov.deferred # <<>>) ~> (~ov.pending /\ ov.deferred = <<>>)

\* is_closing: a hidden overlay the daemon takes for open is one whose
\* Dismissed is on its way.
Dismissing ==
    \/ \E i \in DOMAIN ov.events : ov.events[i].event = "dismissed"
    \/ \E w \in work : w.op = "vanished"
OpenOrDismissed == open /\ ~ov.visible /\ todo = <<>> => Dismissing

\* render_overlay: once everything is painted, the frame is that of the state.
PaintIsFresh ==
    ov.visible /\ ov.anim = "none" /\ work = {} /\ todo = <<>> /\ ~ov.dirty /\ ov.cache # {}
      => ov.cache = {Frame(ov)}

=============================================================================
