------------------------------- MODULE Touch -------------------------------
(***************************************************************************)
(* Touchpad and wheel gestures: the gesture thread with its mouse hook and *)
(* its Raw Input touchpad, the statics it shares with the next thread, the *)
(* forwarder that carries a gesture to the daemon, and the daemon, which   *)
(* installs and stops all of it as the configuration changes.              *)
(*                                                                         *)
(* A swipe is recognised from the contacts of one pad, whose frames may    *)
(* come in several reports; modified wheel ticks scroll the strip; ticks   *)
(* that a driver injects are swipes when no native pad is read.  A report  *)
(* that cannot be read at all, a second pad and the diagnostics are left   *)
(* out.                                                                    *)
(***************************************************************************)
EXTENDS Integers, FiniteSets, Sequences, SequencesExt, Retain

CONSTANTS
    MaxThreads,     \* gesture threads started
    MaxTouches,     \* wheel ticks and touchpad reports explored
    MaxToggles,     \* changes of gestures.enabled
    Gaps,           \* milliseconds between two inputs
    Points          \* where the centre of the fingers may be, in percent

TouchAssumption ==
    /\ MaxThreads \in Nat \ {0} /\ MaxTouches \in Nat /\ MaxToggles \in Nat
    /\ Gaps \subseteq Nat /\ Points \subseteq (0..100) \X (0..100)

VARIABLES
    gestures,   \* GestureRuntime of the daemon
    threads,    \* the gesture threads, by registration
    shared,     \* GESTURE_SENDER, GESTURE_STATE, RAW_GESTURES_ACTIVE
    pad,        \* the pad's FrameAssembler and SwipeEngine
    carried,    \* gestures on their way: channel, forwarder, event queue
    felt,       \* history: what the user did since a gesture was recognised
    used        \* bounds spent

touchVars == <<gestures, threads, shared, pad, carried, felt, used>>

Ids == 1..MaxThreads
Ticks == {-120, 70, 120}

(***************************************************************************)
(* WheelGestureEngine.                                                     *)
(***************************************************************************)
NewEngine == [since |-> {}, accum |-> 0, cool |-> 0, swipe |-> 0, swipeSince |-> {}]

\* No limit is longer than 300 ms, so a longer time is as good as 301.
Later(since, gap) == {IF s + gap > 300 THEN 301 ELSE s + gap : s \in since}
Abs(n) == IF n < 0 THEN -n ELSE n

\* Time passes for the engine: what is left of the cooldown shrinks.
Aged(engine, gap) ==
    [engine EXCEPT !.since = Later(@, gap), !.swipeSince = Later(@, gap),
                   !.cool = IF @ > gap THEN @ - gap ELSE 0]

\* A stream ends when no tick came for STREAM_END_MS.
StreamEnded(engine) == \E s \in engine.since : s > 80
Fresh(engine) == IF StreamEnded(engine) THEN [engine EXCEPT !.accum = 0, !.cool = 0] ELSE engine

\* The remainder keeps the sign of the sum, as % does in the source.
Rest(n) == IF n < 0 THEN -((-n) % 120) ELSE n % 120

Reply(engine, events, consume) == [engine |-> engine, events |-> events, consume |-> consume]

\* process_navigation: ticks with the modifier held
Navigate(engine, delta) ==
    LET now == [Fresh(engine) EXCEPT !.since = {0}]
        sum == now.accum + delta
    IN  IF now.cool > 0 THEN Reply(now, {}, TRUE)
        ELSE IF Abs(sum) < 120 THEN Reply([now EXCEPT !.accum = sum], {}, TRUE)
        ELSE Reply([now EXCEPT !.accum = Rest(sum), !.cool = 150],
                   {IF sum > 0 THEN "ScrollUp" ELSE "ScrollDown"}, TRUE)

\* process_swipe, on the horizontal axis
WheelSwipe(engine, delta) ==
    LET stale == \E s \in engine.swipeSince : s > 300
        sum == (IF stale THEN 0 ELSE engine.swipe) + delta
    IN  IF Abs(sum) < 360
        THEN Reply([engine EXCEPT !.swipe = sum, !.swipeSince = {0}], {}, FALSE)
        ELSE Reply([engine EXCEPT !.swipe = 0, !.swipeSince = {0}],
                   {IF sum > 0 THEN "SwipeRight" ELSE "SwipeLeft"}, FALSE)

(***************************************************************************)
(* FrameAssembler and SwipeEngine.                                         *)
(***************************************************************************)
NoFrame == [scan |-> {}, expected |-> 0, contacts |-> {}]
NewPad == [frame |-> NoFrame, ids |-> {}, origin |-> <<0, 0>>, since |-> {},
           fired |-> FALSE, blocked |-> FALSE]

\* Of a report: how many contacts its frame has (0 in a report that continues
\* one), its scan time, and the contacts that are down for certain.
Report(count, scan, ids) == [count |-> count, scan |-> scan, ids |-> ids]

\* push: the frame as the report leaves it, and the whole frames it completes
Pushed(frame, report) ==
    LET starts == report.count > 0 /\ frame.scan # {report.scan}
        now == IF starts THEN [scan |-> {report.scan}, expected |-> report.count, contacts |-> {}] ELSE frame
        all == now.contacts \cup report.ids
        bad == \/ report.count > 0 /\ now.expected # report.count
               \/ now.contacts \cap report.ids # {}
               \/ Cardinality(all) > now.expected
    IN  CASE ~starts /\ report.count = 0 /\ frame.scan # {report.scan} ->
                  [frame |-> NoFrame, whole |-> {{}}]
          [] bad -> [frame |-> NoFrame, whole |-> {}]
          [] ~bad /\ Cardinality(all) = now.expected -> [frame |-> NoFrame, whole |-> {all}]
          [] OTHER -> [frame |-> [now EXCEPT !.contacts = all], whole |-> {}]

Travel(d, across) == Abs(d) >= 14 /\ 2 * Abs(d) > 3 * Abs(across)

Direction(from, to) ==
    LET dx == to[1] - from[1]
        dy == to[2] - from[2]
    IN  {way \in {"SwipeRight", "SwipeLeft"} : Travel(dx, dy) /\ (way = "SwipeRight") = (dx > 0)}
        \cup {way \in {"SwipeDown", "SwipeUp"} : Travel(dy, dx) /\ (way = "SwipeDown") = (dy > 0)}

Seen(engine, events) == [engine |-> engine, events |-> events]

\* SwipeEngine::process: one swipe while the same three fingers stay down
Swiped(engine, ids, centre) ==
    LET new == engine.ids = {} \/ \E s \in engine.since : s > 300
        start == [engine EXCEPT !.ids = {ids}, !.origin = IF new THEN centre ELSE @,
                                !.fired = @ /\ ~new, !.since = {0}]
        way == IF start.fired THEN {} ELSE Direction(start.origin, centre)
    IN  IF Cardinality(ids) # 3
        THEN Seen([engine EXCEPT !.ids = {}, !.fired = FALSE, !.blocked = Cardinality(ids) > 3], {})
        ELSE IF engine.blocked THEN Seen(engine, {})
        ELSE IF engine.ids \notin {{}, {ids}} THEN Seen([engine EXCEPT !.ids = {}, !.blocked = TRUE], {})
        ELSE Seen([start EXCEPT !.fired = @ \/ way # {}], way)

\* Device::process: more contacts than MAX_CONTACTS block the touch.
Processed(engine, report, centre) ==
    LET pushed == Pushed(engine.frame, report)
        framed == [engine EXCEPT !.frame = pushed.frame]
    IN  IF report.count > 5
        THEN Seen([engine EXCEPT !.frame = NoFrame, !.ids = {}, !.blocked = TRUE], {})
        ELSE IF pushed.whole = {} THEN Seen(framed, {})
        ELSE Swiped(framed, CHOOSE ids \in pushed.whole : TRUE, centre)

(***************************************************************************)
(* The daemon's side.                                                      *)
(***************************************************************************)
TouchInit ==
    /\ gestures = [enabled |-> FALSE, handle |-> {}, retired |-> {}, retry |-> TRUE]
    /\ threads = [i \in Ids |-> [phase |-> "unborn", native |-> FALSE, cancelled |-> FALSE]]
    /\ shared = [sender |-> {}, engine |-> {}, native |-> FALSE]
    /\ pad = NewPad
    /\ carried = [channel |-> <<>>, hand |-> {}, queue |-> <<>>]
    /\ felt = [swipes |-> 0, nav |-> {}]
    /\ used = [touches |-> 0, toggles |-> 0]

Hooked == {i \in Ids : threads[i].phase \in {"running", "told"}}

\* stop of a GestureHandle whose thread is over: its statics are cleared.
Cleared(old) == [old EXCEPT !.sender = {}, !.engine = {}]

\* finish_retired_shutdown: the retired handle is let go if its thread is over.
RetiredOver == \A i \in gestures.retired : threads[i].phase = "ended"

\* register_gestures_with_raw_input refuses while an old thread lives.
MayRegister(i) == threads[i].phase = "unborn" /\ RetiredOver
                  /\ shared.sender \subseteq gestures.retired

\* sync with change Install: no thread can be started, or one is, with or
\* without a native pad.
Install(i) ==
    /\ gestures.enabled /\ gestures.handle = {} /\ gestures.retry
    /\ MayRegister(i)
    /\ \A j \in Ids : threads[j].phase = "unborn" => i <= j
    /\ \/ \E native \in BOOLEAN :
            /\ threads' = [threads EXCEPT ![i] = [phase |-> "running", native |-> native, cancelled |-> FALSE]]
            /\ shared' = [sender |-> {i}, engine |-> {NewEngine}, native |-> native]
            /\ gestures' = [gestures EXCEPT !.handle = {i}, !.retired = {}, !.retry = FALSE]
            /\ pad' = NewPad
       \/ /\ threads' = [threads EXCEPT ![i].phase = "ended"]
          /\ shared' = [sender |-> {}, engine |-> {}, native |-> FALSE]
          /\ gestures' = [gestures EXCEPT !.retired = {}, !.retry = FALSE]
          /\ UNCHANGED pad
    /\ felt' = [swipes |-> 0, nav |-> {}]
    /\ UNCHANGED <<carried, used>>

\* sync with change None: a retired thread that is over is let go.
LetGo ==
    /\ gestures.retired # {} /\ RetiredOver
    /\ gestures' = [gestures EXCEPT !.retired = {}]
    /\ shared' = Cleared(shared)
    /\ UNCHANGED <<threads, pad, carried, felt, used>>

Enable ==
    /\ used.toggles < MaxToggles /\ ~gestures.enabled
    /\ gestures' = [gestures EXCEPT !.enabled = TRUE]
    /\ used' = [used EXCEPT !.toggles = @ + 1]
    /\ UNCHANGED <<threads, shared, pad, carried, felt>>

\* sync with change Stop: the forwarder is cancelled and the thread told to
\* quit; the handle waits for it, and is retired if it does not end in time.
Disable ==
    /\ used.toggles < MaxToggles /\ gestures.enabled
    /\ \E inTime \in BOOLEAN :
         LET phase == IF inTime THEN "ended" ELSE "told"
         IN /\ threads' = [i \in Ids |-> IF i \in gestures.handle
                              THEN [threads[i] EXCEPT !.phase = phase, !.cancelled = TRUE] ELSE threads[i]]
            /\ gestures' = [enabled |-> FALSE, retry |-> TRUE, handle |-> {},
                            retired |-> IF inTime THEN gestures.retired ELSE gestures.retired \cup gestures.handle]
            /\ shared' = IF inTime /\ gestures.handle # {} THEN [Cleared(shared) EXCEPT !.native = FALSE] ELSE shared
    /\ used' = [used EXCEPT !.toggles = @ + 1]
    /\ UNCHANGED <<pad, carried, felt>>

\* The thread takes WM_QUIT_LLHOOK_THREAD.
ThreadEnds(i) ==
    /\ threads[i].phase = "told"
    /\ threads' = [threads EXCEPT ![i].phase = "ended"]
    /\ shared' = [shared EXCEPT !.native = FALSE]
    /\ UNCHANGED <<gestures, pad, carried, felt, used>>

(***************************************************************************)
(* Input.  Every live hook sees every tick; an event goes to whichever     *)
(* registration owns the sender.                                           *)
(***************************************************************************)
Sent(events, faults) ==
    [carried EXCEPT !.channel = @ \o SetToSeq(
        {[what |-> what, from |-> i,
          faults |-> faults \cup (IF threads[i].cancelled THEN {"late"} ELSE {})] :
             what \in events, i \in shared.sender})]

\* What a user would hold against a scroll: it came too soon after the last
\* one of its stream, or goes against the tick that made it.
Faults(delta, nav, events) ==
    {fault \in {"early", "against"} : events # {} /\
        IF fault = "early" THEN \E t \in nav : t < 150
        ELSE events # {IF delta > 0 THEN "ScrollUp" ELSE "ScrollDown"}}

\* gesture_mouse_hook_proc: a modified vertical tick, or an injected horizontal one
Wheel(i, delta, gap, modified) ==
    /\ i \in Hooked /\ shared.engine # {} /\ used.touches < MaxTouches
    /\ modified \/ ~shared.native
    /\ \E old \in shared.engine :
         LET aged == Aged(old, gap)
             done == IF modified THEN Navigate(aged, delta) ELSE WheelSwipe(aged, delta)
             scrolls == IF modified THEN done.events ELSE {}
             nav == IF modified /\ StreamEnded(aged) THEN {} ELSE Later(felt.nav, gap)
         IN /\ shared' = [shared EXCEPT !.engine = {done.engine}]
            /\ carried' = Sent(done.events, Faults(delta, nav, scrolls))
            /\ felt' = [felt EXCEPT !.nav = IF scrolls # {} THEN {0} ELSE nav]
    /\ used' = [used EXCEPT !.touches = @ + 1]
    /\ pad' = [pad EXCEPT !.since = Later(@, gap)]
    /\ UNCHANGED <<gestures, threads>>

\* What a pad may send next: a whole frame or the first part of one, under a
\* new scan time; the empty frame when the fingers are gone; or, when a frame
\* is begun, the contact it has not named yet.  A frame of six contacts only
\* says so.
Sends ==
    LET scan == IF pad.frame.scan = {1} THEN 2 ELSE 1
    IN  {Report(Cardinality(ids), scan, ids) : ids \in {{}, {1, 2, 3}, {1, 2, 4}, {1, 2, 3, 4}}}
        \cup {Report(3, scan, {1, 2}), Report(6, scan, {1, 2})}
        \cup {Report(count, s, {3}) : count \in {0, pad.frame.expected}, s \in pad.frame.scan}

Padded(i, report, centre, gap) ==
    /\ i \in Hooked /\ threads[i].native /\ used.touches < MaxTouches
    /\ report \in Sends
    /\ LET aged == [pad EXCEPT !.since = Later(@, gap)]
           done == Processed(aged, report, centre)
           fresh == done.engine.ids = {} \/ \E s \in aged.since : s > 300
       IN /\ pad' = done.engine
          /\ carried' = Sent(done.events, {})
          /\ felt' = [felt EXCEPT !.nav = Later(@, gap),
                          !.swipes = (IF fresh THEN 0 ELSE @) + Cardinality(done.events)]
    /\ shared' = [shared EXCEPT !.engine = {Aged(e, gap) : e \in @}]
    /\ used' = [used EXCEPT !.touches = @ + 1]
    /\ UNCHANGED <<gestures, threads>>

\* forward_gestures: an event is received, then the cancel flag is looked at.
Receive ==
    /\ carried.hand = {} /\ carried.channel # <<>>
    /\ carried' = [carried EXCEPT !.channel = Tail(@), !.hand = {Head(carried.channel)}]
    /\ UNCHANGED <<gestures, threads, shared, pad, felt, used>>

Forward ==
    /\ \E event \in carried.hand :
         carried' = IF threads[event.from].cancelled
                    THEN [carried EXCEPT !.hand = {}, !.channel = Retained(@, {e \in ToSet(@) : e.from # event.from})]
                    ELSE [carried EXCEPT !.hand = {}, !.queue = Append(@, event)]
    /\ UNCHANGED <<gestures, threads, shared, pad, felt, used>>

\* handle_gesture_event: a gesture that arrives after the feature went off is
\* dropped, any other runs its command.
Handle ==
    /\ carried.queue # <<>>
    /\ carried' = [carried EXCEPT !.queue = Tail(@)]
    /\ UNCHANGED <<gestures, threads, shared, pad, felt, used>>

TouchNext ==
    \/ Enable \/ Disable \/ LetGo \/ Receive \/ Forward \/ Handle
    \/ \E i \in Ids :
         \/ Install(i) \/ ThreadEnds(i)
         \/ \E delta \in Ticks, gap \in Gaps, modified \in BOOLEAN : Wheel(i, delta, gap, modified)
         \/ \E report \in Sends, centre \in Points, gap \in Gaps : Padded(i, report, centre, gap)

TouchSpec == TouchInit /\ [][TouchNext]_touchVars

(***************************************************************************)
(* Properties.                                                             *)
(***************************************************************************)
\* One hook at a time: a thread that is slow to stop never shares the engine
\* and the sender with its successor, which would count every tick twice.
OneHook == Cardinality(Hooked) <= 1 /\ (gestures.handle # {} => Hooked = gestures.handle /\ shared.sender = gestures.handle)

\* The same three fingers swipe once, however far they go, unless they rest
\* longer than the gap.
OneSwipePerTouch == felt.swipes <= 1

\* Within one stream two scrolls are at least the cooldown apart, and a scroll
\* goes the way of the tick that made it.
ScrollsPaced == \A event \in ToSet(carried.channel) : event.faults \cap {"early", "against"} = {}

\* What a thread recognises after the daemon has cancelled its registration
\* never reaches the daemon, not even one that is enabled again by then.
NothingAfterStop == \A event \in ToSet(carried.queue) : "late" \notin event.faults

TouchSound == OneHook /\ OneSwipePerTouch /\ ScrollsPaced /\ NothingAfterStop
=============================================================================
