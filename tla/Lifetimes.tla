----------------------------- MODULE Lifetimes ------------------------------
(***************************************************************************)
(* Which window a handle names.  Windows reuses handle values, and events  *)
(* arrive after the fact, so the daemon stamps a token on a window it      *)
(* admits, and another on a window the user told it to ignore, and         *)
(* compares them before it believes an event (managed_lifetime.rs,         *)
(* temporary_ignore.rs, recreated_window_slot.rs, window_rules.rs, the     *)
(* admission and departure handlers of event_handler.rs and the WinEvent   *)
(* thread of platform_win32/src/event_hooks.rs).                           *)
(*                                                                         *)
(* The WinEvent thread and its channel are one queue in order.  Workspaces *)
(* and layout are the subject of Desktops and Strip: here a window is in   *)
(* or out.  All windows share one process and class, so any of them may    *)
(* rejoin the place another left.  Reads of a property succeed on a live   *)
(* window, as GetPropW documents; stamping one may fail.  No window is     *)
(* being dragged or stashed.                                               *)
(***************************************************************************)
EXTENDS Integers, Sequences, FiniteSets

CONSTANTS
    Handles,    \* handle values Windows gives out, again and again
    Shapes,     \* kinds of windows applications open, among AnyShape
    MaxSteps,   \* steps of applications, user and system
    MaxQueue    \* events in flight

\* A popup is frameless; an Ignore rule with a size condition matches a
\* "small" window; "refused" stands for the windows no rule or probe lets in:
\* topmost popups, cloaked, elevated or dialog-like ones, an Ignore rule.
AnyShape == {"app", "popup", "small", "refused"}

\* What the parameters have to be; assumed where the module is instantiated.
LifetimesAssumption ==
    MaxSteps \in Nat /\ MaxQueue \in Nat \ {0} /\ Shapes \subseteq AnyShape

VARIABLES
    win,       \* the window behind a handle and its two properties
    rec,       \* what the daemon keeps for a handle
    events,    \* WinEvents not handled yet
    slots,     \* recreated_window_slots: at most one place left behind
    slept,     \* suspended_at and resumed_at
    toggling,  \* toggle_ignore while it waits for placements: at most one
    steps,     \* steps taken outside the daemon
    minted,    \* NEXT_TOKEN
    kept       \* history: lifetimes the daemon was asked, or decided, to leave alone

lifeVars == <<win, rec, events, slots, slept, toggling, steps, minted, kept>>

NoWindow == [gen |-> 0, shape |-> "app", shown |-> FALSE, prop |-> 0, mark |-> 0]

\* Nothing kept.  in: member of a workspace; owner: history, the lifetime
\* that was admitted or, never recorded, seen by an enumeration.  token and at: managed_lifetime_tokens and
\* ..._admitted_at_event_ms; hid and wid: tokens of recently_hidden_hwnds and
\* hidden_column_widths; ign: temporary_ignores; known: identities.
NoRecord == [in |-> FALSE, owner |-> 0, token |-> 0, at |-> 0, hid |-> {}, wid |-> {},
             ign |-> 0, small |-> FALSE, known |-> FALSE]

Init ==
    /\ win = [h \in Handles |-> NoWindow]
    /\ rec = [h \in Handles |-> NoRecord]
    /\ events = <<>> /\ slots = {} /\ toggling = {}
    /\ slept = [suspend |-> 0, resume |-> 0]
    /\ steps = 0 /\ minted = 0 /\ kept = {}

Live(h) == win[h].gen # 0
Visible(h) == Live(h) /\ win[h].shown

(***************************************************************************)
(* Departure.                                                              *)
(***************************************************************************)
\* take_managed_lifetime_token, with the membership it belongs to.
Forgotten(r) == [r EXCEPT !.in = FALSE, !.owner = 0, !.token = 0, !.at = 0,
                          !.small = FALSE, !.known = FALSE]

\* temporary_ignore_gate: does the ignored lifetime still hold the handle?
IgnoreGate(h, r) == r.ign # 0 /\ Live(h) /\ win[h].mark = r.ign

\* retire_stale_temporary_ignore
Retired(h, r) == IF r.ign # 0 /\ ~IgnoreGate(h, r) THEN [r EXCEPT !.ign = 0, !.wid = {}] ELSE r

\* A real Destroyed.
Departed(h, r) == [Forgotten(Retired(h, r)) EXCEPT !.hid = {}, !.wid = {}]

\* managed_token_for_hidden_record
HiddenToken(h, r) == IF win[h].prop # 0 THEN win[h].prop ELSE r.token

\* A Hidden that is believed.  The window was managed for a moment only, or not.
HiddenAway(h, r, short) ==
    LET hidden == HiddenToken(h, r)
    IN  [Forgotten(r) EXCEPT !.hid = IF r.in /\ short THEN {hidden} ELSE @,
                             !.wid = IF r.in THEN {hidden} ELSE @]

\* A recorded lifetime is not the one on the handle: a property that is
\* missing or different; a handle that is gone proves nothing.
Replaced(h, r) == r.in /\ r.token # 0 /\ Live(h) /\ win[h].prop # r.token

\* destroyed_names_current_lifetime
DestroyedIsStale(h, r) ==
    IF r.in /\ r.token # 0 THEN Live(h) /\ win[h].prop = r.token ELSE Live(h)

(***************************************************************************)
(* The place a window leaves when it hides; after a sleep a new window of  *)
(* the same process and class takes it, if no other one is managed.        *)
(***************************************************************************)
ProcessRemains(rs) == \E h \in Handles : rs[h].known /\ rs[h].in

Donated(h, rs) ==
    IF rec[h].known /\ rec[h].in /\ ~ProcessRemains(rs)
    THEN {[donor |-> h, at |-> steps]} ELSE slots

\* (Variant: anyone may take the place, before a sleep as well.)
RejoinsAnytime(h, kind, rs) == kind = "automatic" /\ ~ProcessRemains(rs)
\* rejoins_recreated_slot: after a sleep, and the window left no process.
Rejoins(h, kind, rs) ==
    /\ kind = "automatic" /\ ~ProcessRemains(rs)
    /\ \E s \in slots : /\ s.donor # h
                        /\ slept.suspend # 0 /\ slept.suspend <= s.at
                        /\ slept.resume > slept.suspend

\* The entry is dropped by a taker and when the process is there again.
SlotsAfter(h, kind, rs) ==
    IF kind = "automatic" /\ (ProcessRemains(rs) \/ Rejoins(h, kind, rs)) THEN {} ELSE slots

(***************************************************************************)
(* Admission.                                                              *)
(***************************************************************************)
\* recently_hidden_names_current_lifetime
NamesCurrent(h, stored) == stored = 0 \/ ~Live(h) \/ win[h].prop = stored

\* suppressed_transient_popup
Suppresses(h, r) == /\ \E stored \in r.hid : NamesCurrent(h, stored)
                    /\ win[h].shape = "popup"

\* Why admission ends before it inserts, or "in".
Outcome(h, r, kind) ==
    CASE r.in -> "managed"
      [] ~r.in /\ kind = "automatic" /\ Suppresses(h, r) -> "suppressed"
      [] ~r.in /\ kind = "automatic" /\ ~Suppresses(h, r) /\ IgnoreGate(h, r) -> "ignored"
      [] OTHER -> IF ~Visible(h) THEN "no window" ELSE
                  IF win[h].shape \in {"refused", "small"} THEN win[h].shape ELSE "in"

\* record_managed_lifetime: a stamp that fails records nothing.
Recorded(r, at, stamps) ==
    IF stamps THEN [r EXCEPT !.token = minted + 1, !.at = at] ELSE r

Stamped(h, stamps) ==
    /\ win' = IF stamps THEN [win EXCEPT ![h].prop = minted + 1] ELSE win
    /\ minted' = IF stamps THEN minted + 1 ELSE minted

\* try_admit_window_at: depart what the handle named before, then look.
\* start is what the daemon keeps when admission begins.
Admit(h, start, kind, at, stamps) ==
    LET r0 == IF Replaced(h, start) THEN Departed(h, start) ELSE [start EXCEPT !.small = FALSE]
        why == Outcome(h, r0, kind)
        r1 == IF kind = "automatic" /\ why \notin {"managed", "suppressed"}
              THEN Retired(h, [r0 EXCEPT !.hid = {}]) ELSE r0
        rs == [rec EXCEPT ![h] = r1]
        in == [r1 EXCEPT !.in = TRUE, !.owner = win[h].gen, !.known = TRUE,
                         !.wid = IF kind = "automatic" THEN {} ELSE @]
    IN  /\ rec' = [rs EXCEPT ![h] = CASE why = "in" -> Recorded(in, at, stamps)
                                      [] why = "small" -> [r1 EXCEPT !.small = TRUE]
                                      [] OTHER -> r1]
        /\ Stamped(h, stamps /\ why = "in")
        /\ slots' = IF why = "in" THEN SlotsAfter(h, kind, rs) ELSE slots
        /\ kept' = IF why = "suppressed" THEN kept \cup {win[h].gen} ELSE kept

(***************************************************************************)
(* Events.                                                                 *)
(***************************************************************************)
\* Timestamps of events are coarser than their order.
Tick == steps \div 2

Idle == toggling = {}
Take == /\ Idle /\ events # <<>>
        /\ events' = Tail(events)
        /\ UNCHANGED <<slept, toggling, steps>>

Drop == UNCHANGED <<win, rec, slots, minted, kept>>

\* on_window_created; the WinEvent thread drops what is not to be managed now.
Created(stamps) ==
    /\ Take /\ Head(events).kind = "created"
    /\ LET h == Head(events).handle
       IN  IF Visible(h) THEN Admit(h, rec[h], "automatic", Head(events).at, stamps) ELSE Drop

\* on_window_destroyed_or_hidden
Destroyed ==
    /\ Take /\ Head(events).kind = "destroyed"
    /\ LET h == Head(events).handle
       IN  rec' = [rec EXCEPT ![h] =
                     IF DestroyedIsStale(h, @) THEN Retired(h, @) ELSE Departed(h, @)]
    /\ UNCHANGED <<win, slots, minted, kept>>

StaleHidden(r, at) == r.in /\ r.at # 0 /\ at < r.at

Hidden(short) ==
    /\ Take /\ Head(events).kind = "hidden"
    /\ LET h == Head(events).handle
       IN  IF StaleHidden(rec[h], Head(events).at) \/ (rec[h].in /\ Visible(h))
           THEN Drop
           ELSE /\ rec' = [rec EXCEPT ![h] = HiddenAway(h, @, short)]
                /\ slots' = Donated(h, rec')
                /\ UNCHANGED <<win, minted, kept>>

\* on_window_moved_or_resized and TitleChanged: a window a rule left out for
\* its size is looked at again.
Changed(stamps) ==
    /\ Take /\ Head(events).kind = "changed"
    /\ LET h == Head(events).handle
       IN  IF Live(h) /\ rec[h].small THEN Admit(h, rec[h], "automatic", 0, stamps) ELSE Drop

(***************************************************************************)
(* Paths that wait for no event.                                           *)
(***************************************************************************)
Outside == steps < MaxSteps /\ steps' = steps + 1

\* enumerate_and_add_windows, for one window.
Enumerate(h, stamps) ==
    /\ Outside /\ Idle /\ Visible(h)
    /\ LET r0 == IF Replaced(h, rec[h]) THEN Departed(h, rec[h]) ELSE Retired(h, rec[h])
           adds == ~r0.in /\ win[h].shape \in {"app", "popup"}
           again == adds \/ (r0.in /\ r0.token = 0)
           r == [r0 EXCEPT !.in = @ \/ adds, !.owner = IF again THEN win[h].gen ELSE @,
                           !.known = @ \/ adds \/ r0.in,
                           !.small = ~r0.in /\ win[h].shape = "small"]
       IN  IF IgnoreGate(h, r0)
           THEN rec' = [rec EXCEPT ![h] = r0] /\ UNCHANGED <<win, minted>>
           ELSE /\ rec' = [rec EXCEPT ![h] = IF again THEN Recorded(r, 0, stamps) ELSE r]
                /\ Stamped(h, again /\ stamps)
    /\ UNCHANGED <<events, slots, slept, toggling, kept>>

\* on_unmanaged_window_focused: the user proves a suppressed window is real.
FocusUnmanaged(h, stamps) ==
    /\ Outside /\ Idle /\ Visible(h) /\ ~rec[h].in
    /\ LET r == Retired(h, rec[h])
           recovers == \E stored \in r.hid : NamesCurrent(h, stored)
       IN  CASE IgnoreGate(h, r) -> Drop
             [] ~IgnoreGate(h, r) /\ recovers /\ win[h].shape \in {"app", "popup"} ->
                  Admit(h, [r EXCEPT !.hid = {}], "automatic", 0, stamps)
             [] OTHER -> /\ rec' = [rec EXCEPT ![h] = [r EXCEPT !.hid = IF recovers THEN @ ELSE {}]]
                         /\ UNCHANGED <<win, slots, minted, kept>>
    /\ UNCHANGED <<events, slept, toggling>>

\* temporarily_unmanage stamps the foreground window, or readmit_temporarily_ignored
\* finds its entry; then both wait for pending placements while the world goes on.
ToggleIgnore(h) ==
    /\ Outside /\ Idle /\ Visible(h)
    /\ \/ /\ rec[h].in
          /\ win' = [win EXCEPT ![h].mark = minted + 1] /\ minted' = minted + 1
          /\ toggling' = {[handle |-> h, token |-> minted + 1]}
          /\ UNCHANGED rec
       \/ /\ ~rec[h].in /\ IgnoreGate(h, rec[h])
          /\ toggling' = {[handle |-> h, token |-> 0]}
          /\ UNCHANGED <<win, rec, minted>>
       \/ /\ ~rec[h].in /\ rec[h].ign # 0 /\ ~IgnoreGate(h, rec[h])
          /\ rec' = [rec EXCEPT ![h] = Retired(h, @)]
          /\ UNCHANGED <<win, toggling, minted>>
    /\ UNCHANGED <<events, slots, slept, kept>>

Unmark(h) == win' = IF Live(h) THEN [win EXCEPT ![h].mark = 0] ELSE win

\* The second read of temporarily_unmanage.
SameLifetime(h, t) == Live(h) /\ win[h].mark = t

\* Placements that do not drain, or a window that cannot be put back, leave it managed.
Unmanage(done) ==
    \E t \in toggling : LET h == t.handle IN
        /\ t.token # 0
        /\ IF ~done THEN Unmark(h) /\ UNCHANGED <<rec, kept>>
           ELSE /\ rec' = [rec EXCEPT ![h] = [Forgotten(rec[h]) EXCEPT
                             !.ign = IF SameLifetime(h, t.token) THEN t.token ELSE @]]
                /\ kept' = IF SameLifetime(h, t.token) THEN kept \cup {win[h].gen} ELSE kept
                /\ UNCHANGED win
        /\ toggling' = {}
        /\ UNCHANGED <<events, slots, slept, steps, minted>>

\* commit_readmit, unless admission refuses: then the ignore stays.
Readmit(done, stamps) ==
    \E t \in toggling : LET h == t.handle IN
        /\ t.token = 0
        /\ IF ~done \/ Outcome(h, rec[h], "readmit") # "in"
           THEN Drop
           ELSE /\ rec' = [rec EXCEPT ![h] = Recorded([@ EXCEPT !.in = TRUE, !.owner = win[h].gen,
                             !.known = TRUE, !.ign = 0, !.small = FALSE], 0, stamps)]
                /\ win' = [win EXCEPT ![h].mark = 0, ![h].prop = IF stamps THEN minted + 1 ELSE @]
                /\ minted' = IF stamps THEN minted + 1 ELSE minted
                /\ UNCHANGED <<slots, kept>>
        /\ toggling' = {}
        /\ UNCHANGED <<events, slept, steps>>

\* RECENTLY_HIDDEN_TTL passes, or the minute of a slot.
Expire(h) ==
    /\ Idle /\ rec[h].hid # {}
    /\ rec' = [rec EXCEPT ![h].hid = {}, ![h].wid = {}]
    /\ UNCHANGED <<win, events, slots, slept, toggling, steps, minted, kept>>

ExpireSlot == /\ slots # {} /\ slots' = {}
              /\ UNCHANGED <<win, rec, events, slept, toggling, steps, minted, kept>>

(***************************************************************************)
(* Applications and the system.                                            *)
(***************************************************************************)
Post(es) == /\ Outside /\ Len(events) + Len(es) <= MaxQueue
            /\ events' = events \o es
            /\ UNCHANGED <<rec, slots, slept, toggling, minted, kept>>
Event(kind, h) == [kind |-> kind, handle |-> h, at |-> Tick + 1]

\* A window that is created out of sight is shown later, or never.
Open(h, shape, shown) ==
    /\ ~Live(h) /\ Post(IF shown THEN <<Event("created", h)>> ELSE <<>>)
    /\ win' = [win EXCEPT ![h] = [NoWindow EXCEPT !.gen = steps + 1, !.shape = shape, !.shown = shown]]
Show(h) == /\ Live(h) /\ ~win[h].shown /\ Post(<<Event("created", h)>>)
           /\ win' = [win EXCEPT ![h].shown = TRUE]
Hide(h) == /\ Visible(h) /\ Post(<<Event("hidden", h)>>)
           /\ win' = [win EXCEPT ![h].shown = FALSE]
\* A visible window that is destroyed may be hidden first.
Close(h, hides) ==
    /\ Live(h) /\ (hides => win[h].shown)
    /\ Post(IF hides THEN <<Event("hidden", h), Event("destroyed", h)>>
                     ELSE <<Event("destroyed", h)>>)
    /\ win' = [win EXCEPT ![h] = NoWindow]
Grow(h) == /\ Visible(h) /\ win[h].shape = "small" /\ Post(<<Event("changed", h)>>)
           /\ win' = [win EXCEPT ![h].shape = "app"]

\* handle_suspend_resume
Suspend == /\ Outside /\ Idle /\ slept' = [slept EXCEPT !.suspend = steps + 1]
           /\ UNCHANGED <<win, rec, events, slots, toggling, minted, kept>>
Resume == /\ Outside /\ Idle /\ slept' = [slept EXCEPT !.resume = steps + 1]
          /\ UNCHANGED <<win, rec, events, slots, toggling, minted, kept>>

Next ==
    \/ \E b \in BOOLEAN : Created(b) \/ Hidden(b) \/ Changed(b) \/ Unmanage(b)
    \/ Destroyed \/ ExpireSlot \/ Suspend \/ Resume
    \/ \E d, b \in BOOLEAN : Readmit(d, b)
    \/ \E h \in Handles :
         \/ \E b \in BOOLEAN : Enumerate(h, b) \/ FocusUnmanaged(h, b)
         \/ ToggleIgnore(h) \/ Expire(h) \/ Show(h) \/ Hide(h) \/ Grow(h)
         \/ \E b \in BOOLEAN : Close(h, b)
         \/ \E s \in Shapes, b \in BOOLEAN : Open(h, s, b)

LifeSpec == Init /\ [][Next]_lifeVars

(***************************************************************************)
(* Properties.                                                             *)
(***************************************************************************)
Settled == events = <<>> /\ toggling = {}

\* Once every event is handled, a member with a recorded lifetime is the
\* window that was admitted, and it is on the screen: no late Destroyed or
\* Hidden is lost on it, and none of an older window was believed.
MembersAreLive ==
    Settled => \A h \in Handles :
        rec[h].in /\ rec[h].token # 0 => Visible(h) /\ rec[h].owner = win[h].gen

\* And a window on the screen that would be let in is a member, unless the
\* user had this very lifetime ignored or it was suppressed itself: what an
\* earlier window of the handle left behind keeps nobody out.
NobodyForgotten ==
    Settled => \A h \in Handles :
        Visible(h) /\ win[h].shape \in {"app", "popup"} => rec[h].in \/ win[h].gen \in kept

\* A place is taken over by another handle only, and only by a window that
\* comes after a resume that followed the suspend the place was left in.
RejoinsAfterSleep ==
    [][\A h \in Handles : slots # {} /\ slots' = {} /\ rec'[h].in /\ ~rec[h].in =>
         \/ \E g \in Handles \ {h} : rec[g].in
         \/ \E s \in slots : s.donor # h /\ 0 < slept.suspend
                             /\ slept.suspend < slept.resume]_lifeVars
=============================================================================
