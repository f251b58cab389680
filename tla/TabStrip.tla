------------------------------ MODULE TabStrip ------------------------------
(***************************************************************************)
(* The strip over one tabbed column (tab_strip.rs of platform_win32), the  *)
(* daemon that shows, refreshes and drops it (ui_sync.rs), and the popup   *)
(* that renames a tab (dialog.rs).                                         *)
(*                                                                         *)
(* A strip is a window with a thread of its own.  The daemon draws it from *)
(* its own thread, the strip's thread draws it when the pointer moves, and *)
(* the registry lock is not held while pixels are made: a drawing is       *)
(* begun, put on the screen and ended in three steps.  The bitmap is its   *)
(* labels, the active tab and the hover; where the strip stands, its       *)
(* colours, the fade of the tooltip and every measure are left out.        *)
(***************************************************************************)
EXTENDS Naturals, FiniteSets, SequencesExt

CONSTANTS
    Windows,        \* windows that may be tabs of the column
    MaxInputs       \* changes of the column, pointer moves, clicks

\* What the parameters have to be; assumed where the module is instantiated.
TabStripAssumption == MaxInputs \in Nat

VARIABLES
    column,     \* the column the strip belongs to, as the daemon keeps it
    titled,     \* windows with a title of the user's own
    strip,      \* the registry's state of the strip, and what is on the screen
    pump,       \* the strip's thread
    daemon,     \* where the daemon is in update_tab_strip
    clicks,     \* actions on their way to the daemon
    rename,     \* the guard, the popup, its result on the way
    spent       \* inputs so far

tabVars == <<column, titled, strip, pump, daemon, clicks, rename, spent>>

Rows(W) == UNION {SetToAllKPermutations(S) : S \in SUBSET W}
Live == Windows \ column.closed
Label(w) == [window |-> w, titled |-> w \in titled]

\* default_tab_strip_state: no strip is one without a thread.
NoStrip == [visible |-> FALSE, tabs |-> <<>>, active |-> 1, hover |-> {},
            cross |-> {}, sliding |-> FALSE, armed |-> FALSE, pending |-> {},
            tip |-> FALSE, delay |-> "off",
            cached |-> {}, flights |-> 0, lapped |-> FALSE, screen |-> {}]
NoPump == [at |-> "none", draws |-> {}, menu |-> {}, quit |-> FALSE]

Content(s) == [tabs |-> s.tabs, active |-> s.active, hover |-> s.hover, cross |-> s.cross]

\* can_reuse_render
Reusable(s) == s.visible /\ ~s.sliding /\ s.cached = {Content(s)}

(***************************************************************************)
(* render_strip_now: snapshot, UpdateLayeredWindow, bookkeeping.           *)
(***************************************************************************)
Drawing(s) == [what |-> Content(s), sliding |-> s.sliding, done |-> FALSE]
Begun(s) == [s EXCEPT !.lapped = s.flights # 0, !.flights = s.flights + 1, !.cached = {}]
Blit(s, d) == [s EXCEPT !.screen = {d.what}]

Ended(s, d) ==
    [s EXCEPT !.flights = s.flights - 1,
              !.cached = IF d.done /\ ~d.sliding /\ ~s.lapped THEN {d.what} ELSE {}]

(***************************************************************************)
(* show_overlay_rect, under the lock: the new labels; a slide of the       *)
(* highlight when the active tab of a visible strip changes.               *)
(***************************************************************************)
Shown(s, tabs, active) ==
    LET gone == \E i \in s.hover : i > Len(tabs)
        a == IF active <= Len(tabs) THEN active ELSE Len(tabs)
    IN [s EXCEPT !.tabs = tabs, !.active = a, !.visible = TRUE,
                 !.sliding = s.visible /\ (s.sliding \/ s.active # a),
                 !.hover = IF gone THEN {} ELSE @,
                 !.cross = IF gone THEN {} ELSE @]

\* hide_tooltip_popup and KillTimer: a timer message already in the queue
\* stays there.
TipGone(s) == [s EXCEPT !.tip = FALSE, !.delay = IF @ = "armed" THEN "off" ELSE @]

\* on_strip_mouse_move
Hovered(s, tab, onCross) ==
    LET over == IF onCross THEN {tab} ELSE {}
        m == [s EXCEPT !.armed = TRUE, !.hover = {tab}, !.cross = over]
    IN IF over = s.cross THEN m
       ELSE [TipGone([m EXCEPT !.pending = over])
               EXCEPT !.delay = IF over # {} THEN "armed" ELSE @]

\* on_strip_mouse_leave
Left(s) == TipGone([s EXCEPT !.hover = {}, !.cross = {}, !.pending = {}, !.armed = FALSE])

\* on_tooltip_delay_fired: only over the cross that started the countdown.
TipDue(s) == s.pending # {} /\ s.cross = s.pending /\ \A i \in s.cross : i <= Len(s.tabs)

(***************************************************************************)
(* The strip's thread.                                                     *)
(***************************************************************************)
InLoop == pump.at = "loop"
OnStrip == InLoop /\ pump.menu = {} /\ ~pump.quit /\ strip.visible

Draws(s) == pump' = [pump EXCEPT !.at = "begin"] /\ strip' = s

Move ==
    /\ OnStrip /\ spent < MaxInputs
    /\ \E tab \in DOMAIN strip.tabs, onCross \in BOOLEAN :
         LET s == Hovered(strip, tab, onCross)
         IN IF Content(s) = Content(strip) THEN strip' = s /\ UNCHANGED pump ELSE Draws(s)
    /\ spent' = spent + 1
    /\ UNCHANGED <<column, titled, daemon, clicks, rename>>

Leave ==
    /\ InLoop /\ strip.armed
    /\ IF strip.hover \cup strip.cross # {} THEN Draws(Left(strip))
       ELSE strip' = Left(strip) /\ UNCHANGED pump
    /\ UNCHANGED <<column, titled, daemon, clicks, rename, spent>>

\* SetTimer's message enters the queue.
DelayElapses ==
    /\ strip.delay = "armed"
    /\ strip' = [strip EXCEPT !.delay = "posted"]
    /\ UNCHANGED <<column, titled, pump, daemon, clicks, rename, spent>>

DelayFires ==
    /\ InLoop /\ strip.delay = "posted"
    /\ strip' = [strip EXCEPT !.delay = "off", !.tip = @ \/ TipDue(strip)]
    /\ UNCHANGED <<column, titled, pump, daemon, clicks, rename, spent>>

\* on_highlight_anim_tick: a frame of the slide, or its last.  A timer's
\* message comes after the posted ones.
Tick ==
    /\ InLoop /\ ~pump.quit /\ strip.sliding
    /\ \E last \in BOOLEAN : Draws([strip EXCEPT !.sliding = ~last])
    /\ UNCHANGED <<column, titled, daemon, clicks, rename, spent>>

\* Every click carries the position of the tab, never its window.
Sends(act, tab) == clicks' = Append(clicks, [act |-> act, tab |-> tab])

\* tab_close_action: what the cross and the middle button ask for.
CloseActs == {"close", "untab"}

LeftClick(tab) ==
    \/ Sends("activate", tab) /\ UNCHANGED strip
    \/ \E act \in CloseActs : Sends(act, tab) /\ strip' = TipGone(strip)
DoubleClick(tab) == Sends("rename", tab) /\ UNCHANGED strip
MiddleClick(tab) == \E act \in CloseActs : Sends(act, tab) /\ UNCHANGED strip

Click ==
    /\ OnStrip /\ spent < MaxInputs
    /\ \E tab \in DOMAIN strip.tabs : LeftClick(tab) \/ DoubleClick(tab) \/ MiddleClick(tab)
    /\ spent' = spent + 1
    /\ UNCHANGED <<column, titled, pump, daemon, rename>>

OpenMenu ==
    /\ OnStrip /\ spent < MaxInputs
    /\ \E tab \in DOMAIN strip.tabs : pump' = [pump EXCEPT !.menu = {tab}]
    /\ spent' = spent + 1
    /\ UNCHANGED <<column, titled, strip, daemon, clicks, rename>>

\* TrackPopupMenu returns: an entry, or nothing.
MenuEnds ==
    /\ InLoop /\ pump.menu # {}
    /\ \/ UNCHANGED clicks
       \/ \E act \in {"close", "untab", "rename"}, tab \in pump.menu : Sends(act, tab)
    /\ pump' = [pump EXCEPT !.menu = {}]
    /\ UNCHANGED <<column, titled, strip, daemon, rename, spent>>

PumpDraws ==
    \/ /\ pump.at = "begin"
       /\ strip' = Begun(strip)
       /\ pump' = [pump EXCEPT !.at = "blit", !.draws = {Drawing(strip)}]
    \/ /\ pump.at = "blit"
       /\ \E d \in pump.draws :
            \/ /\ strip' = Blit(strip, d)
               /\ pump' = [pump EXCEPT !.at = "end", !.draws = {[d EXCEPT !.done = TRUE]}]
            \/ UNCHANGED strip /\ pump' = [pump EXCEPT !.at = "end"]
    \/ /\ pump.at = "end"
       /\ \E d \in pump.draws : strip' = Ended(strip, d)
       /\ pump' = [pump EXCEPT !.at = "loop", !.draws = {}]

\* WM_QUIT_TAB_STRIP_THREAD ends the thread's own loop.  The loop of an open
\* menu hands it to the window procedure, which knows nothing of it.
Breaks(p) == p.quit /\ p.menu = {}

TakeQuit ==
    /\ InLoop /\ pump.quit
    /\ IF Breaks(pump) THEN pump' = NoPump /\ strip' = NoStrip
       ELSE pump' = [pump EXCEPT !.quit = FALSE] /\ UNCHANGED strip

Pump == (PumpDraws \/ TakeQuit) /\ UNCHANGED <<column, titled, daemon, clicks, rename, spent>>

(***************************************************************************)
(* The daemon: update_tab_strip_icons.                                     *)
(***************************************************************************)
Wanted == column.shown /\ column.tabs # <<>>
Labels == [i \in DOMAIN column.tabs |-> Label(column.tabs[i])]
Created == IF pump.at = "none" THEN [pump EXCEPT !.at = "loop"] ELSE pump
Idle == daemon.at = "idle"
To(at) == daemon' = [at |-> at, draws |-> {}]

\* Drop for TabStripOverlay: post the message, join the thread.
Drop ==
    /\ daemon.at = "update" /\ ~Wanted
    /\ IF pump.at = "none" THEN To("idle") /\ UNCHANGED pump
       ELSE To("join") /\ pump' = [pump EXCEPT !.quit = TRUE]
    /\ UNCHANGED strip

Joined == daemon.at = "join" /\ pump.at = "none" /\ To("idle") /\ UNCHANGED <<strip, pump>>

\* Creation may fail; a bitmap that is still right is only moved.
Show ==
    /\ daemon.at = "update" /\ Wanted
    /\ LET s == Shown(strip, Labels, column.active)
           reuse == strip.visible /\ Reusable(s)
       IN \/ /\ pump.at = "none" /\ To("idle") /\ UNCHANGED <<strip, pump>>
          \/ /\ strip' = s
             /\ pump' = Created
             /\ To(IF reuse THEN "idle" ELSE "begin")

DaemonDraws ==
    /\ \/ /\ daemon.at = "begin"
          /\ strip' = Begun(strip)
          /\ daemon' = [at |-> "blit", draws |-> {Drawing(strip)}]
       \/ /\ daemon.at = "blit"
          /\ \E d \in daemon.draws :
               \/ /\ strip' = Blit(strip, d)
                  /\ daemon' = [at |-> "end", draws |-> {[d EXCEPT !.done = TRUE]}]
               \/ UNCHANGED strip /\ daemon' = [daemon EXCEPT !.at = "end"]
       \/ /\ daemon.at = "end"
          /\ \E d \in daemon.draws : strip' = Ended(strip, d)
          /\ To("idle")
    /\ UNCHANGED pump

Update == (Drop \/ Joined \/ Show \/ DaemonDraws)
          /\ UNCHANGED <<column, titled, clicks, rename, spent>>

(***************************************************************************)
(* What makes the daemon update it.                                        *)
(***************************************************************************)
\* Windows of the column come, go, move; another column slides under the
\* strip's key; the poll finds other icons.
ColumnChanges ==
    /\ Idle /\ spent < MaxInputs
    /\ \E tabs \in Rows(Live) : \E a \in 1..(Len(tabs) + 1) :
         column' = [column EXCEPT !.tabs = tabs, !.active = a]
    /\ To("update") /\ spent' = spent + 1
    /\ UNCHANGED <<titled, strip, pump, clicks, rename>>

\* A workspace switch, a fullscreen window: the strip is not desired.  A
\* pause hides it first.
Turns ==
    /\ Idle /\ spent < MaxInputs
    /\ column' = [column EXCEPT !.shown = ~@]
    /\ \/ UNCHANGED strip
       \/ column.shown /\ pump.at # "none" /\ strip' = [strip EXCEPT !.visible = FALSE]
    /\ To("update") /\ spent' = spent + 1
    /\ UNCHANGED <<titled, pump, clicks, rename>>

\* A window is destroyed; its title is forgotten with it.
Closes ==
    /\ Idle /\ spent < MaxInputs
    /\ \E w \in Live :
         /\ column' = [column EXCEPT !.closed = @ \cup {w},
                         !.tabs = SelectSeq(@, LAMBDA v : v # w)]
         /\ titled' = titled \ {w}
    /\ To("update") /\ spent' = spent + 1
    /\ UNCHANGED <<strip, pump, clicks, rename>>

\* handle_tab_action.  A close asks the window; activation and untabbing
\* rearrange the column; a second rename is refused while one is on.
Without(q, i) == [j \in 1..(Len(q) - 1) |-> IF j < i THEN q[j] ELSE q[j + 1]]
Refused(r) == r
Opened(r, w) == [r EXCEPT !.guard = TRUE, !.popup = {w}]

Action(c) ==
    CASE c.act = "activate" ->
           /\ column' = IF c.tab \in DOMAIN column.tabs
                        THEN [column EXCEPT !.active = c.tab] ELSE column
           /\ To("update") /\ UNCHANGED rename
      [] c.act = "untab" ->
           /\ column' = IF c.tab \in DOMAIN column.tabs /\ Len(column.tabs) > 1
                        THEN [column EXCEPT !.tabs = Without(@, c.tab)] ELSE column
           /\ To("update") /\ UNCHANGED rename
      [] c.act = "close" -> UNCHANGED <<column, daemon, rename>>
      [] OTHER ->
           /\ \/ /\ ~rename.guard /\ strip.visible
                 /\ c.tab \in DOMAIN strip.tabs /\ c.tab \in DOMAIN column.tabs
                 /\ rename' = Opened(rename, column.tabs[c.tab])
              \/ UNCHANGED rename /\ rename.guard
              \/ ~rename.guard /\ rename' = Refused(rename)
           /\ UNCHANGED <<column, daemon>>

TakeClick ==
    /\ Idle /\ clicks # <<>>
    /\ Action(Head(clicks)) /\ clicks' = Tail(clicks)
    /\ UNCHANGED <<titled, strip, pump, spent>>

\* The popup's thread: committed, emptied or given up; then the guard falls.
Answers == {"own", "none", "kept"}
PopupEnds ==
    /\ \E w \in rename.popup, title \in Answers :
         rename' = [guard |-> FALSE, popup |-> {},
                    results |-> Append(rename.results, [window |-> w, title |-> title])]
    /\ UNCHANGED <<column, titled, strip, pump, daemon, clicks, spent>>

\* handle_tab_rename_submitted
TakeRename ==
    /\ Idle /\ rename.results # <<>>
    /\ LET r == Head(rename.results)
       IN IF r.title = "kept" \/ r.window \in column.closed
          THEN UNCHANGED <<titled, daemon>>
          ELSE /\ titled' = IF r.title = "own" THEN titled \cup {r.window}
                            ELSE titled \ {r.window}
               /\ To("update")
    /\ rename' = [rename EXCEPT !.results = Tail(@)]
    /\ UNCHANGED <<column, strip, pump, clicks, spent>>

Init ==
    /\ column = [tabs |-> <<>>, active |-> 1, shown |-> TRUE, closed |-> {}]
    /\ titled = {} /\ strip = NoStrip /\ pump = NoPump
    /\ daemon = [at |-> "idle", draws |-> {}]
    /\ clicks = <<>> /\ spent = 0
    /\ rename = [guard |-> FALSE, popup |-> {}, results |-> <<>>]

Next ==
    \/ Move \/ Leave \/ DelayElapses \/ DelayFires \/ Tick
    \/ Click \/ OpenMenu \/ MenuEnds \/ Pump
    \/ Update \/ ColumnChanges \/ Turns \/ Closes \/ TakeClick
    \/ PopupEnds \/ TakeRename

\* Both threads go on, and nobody leaves a menu open for ever.
TabStripSpec == Init /\ [][Next]_tabVars
                     /\ WF_tabVars(Pump) /\ WF_tabVars(Update) /\ WF_tabVars(MenuEnds)

(***************************************************************************)
(* Properties.                                                             *)
(***************************************************************************)
\* The bitmap taken for the one on the screen is the one on the screen,
\* whichever thread drew last: a strip that is only moved shows its tabs.
ReuseIsExact == strip.cached # {} => strip.cached = strip.screen

\* A tooltip is shown only while the leave of the pointer is awaited that
\* hides it, though its timer's message may arrive after the pointer is gone.
TipHasLeave == strip.tip => strip.armed

\* A rename that could not be started leaves the guard free, and one at a
\* time is on.
GuardHasPopup == rename.guard <=> rename.popup # {}

StripSound == ReuseIsExact /\ TipHasLeave /\ GuardHasPopup

=============================================================================
