-------------------------------- MODULE Keys --------------------------------
(***************************************************************************)
(* Hotkeys: the low-level keyboard hook with its statics, the daemon that  *)
(* installs it again at every reload of the configuration, the recorder of *)
(* the settings page that borrows the hook to capture a chord, and the     *)
(* overview that takes keys from it.                                       *)
(*                                                                         *)
(* Four keys stand for all: a trigger that the overview also knows (an     *)
(* arrow), an F13 that a bind may use as a modifier, an ordinary modifier, *)
(* and Escape.  Hardware and a remapper both press keys; keys repeat.      *)
(* Left out: the taps that keep Start and menus closed, and a key that is  *)
(* released while Windows hides it from hooks (the lock screen).           *)
(***************************************************************************)
EXTENDS Naturals, FiniteSets, Sequences, SequencesExt

CONSTANTS MaxInputs     \* presses, recordings and overview toggles explored

\* What the parameters have to be; assumed where the module is instantiated.
KeysAssumption == MaxInputs \in Nat

VARIABLES
    hook,       \* the statics of keyboard_hook.rs
    down,       \* keys held, by source
    call,       \* the callback in progress: at most one
    hotkeys,    \* HotkeyState, and where the daemon is in a reload
    page,       \* the recorder of the settings page
    wires,      \* messages under way between the three
    over,       \* the overview has an input session
    did,        \* history of the presses held: what became of them
    inputs

keysVars == <<hook, down, call, hotkeys, page, wires, over, did, inputs>>

Keys == {"arrow", "f13", "ctrl", "esc"}
Presses == ({"hardware"} \X Keys) \cup {<<"remapper", "arrow">>}
Chord(mods, key) == [mods |-> mods, key |-> key]

\* The bindings of a configuration in the order resolve_hotkeys sorts them.
Line(chord, action) == [chord |-> chord, action |-> action]
Configs == {
    <<Line(Chord({"ctrl"}, "arrow"), "FocusLeft"), Line(Chord({"ctrl"}, "arrow"), "Close")>>,
    <<Line(Chord({"f13"}, "arrow"), "FocusLeft"), Line(Chord({}, "f13"), "unknown")>>}

\* resolve_hotkeys: the first valid line of a chord wins it.
Resolved(cfg) ==
    {i \in DOMAIN cfg : /\ cfg[i].action # "unknown"
                        /\ \A j \in 1..(i - 1) : cfg[j].chord = cfg[i].chord => cfg[j].action = "unknown"}
Mapping(cfg) == {cfg[i] : i \in Resolved(cfg)}
FnMask(lines) == \E l \in lines : "f13" \in l.chord.mods

(***************************************************************************)
(* The hook's state.                                                       *)
(***************************************************************************)
\* Drop for KeyboardHookHandle: every static is cleared; install_keyboard_hook
\* starts from there.
Removed == [on |-> FALSE, rec |-> FALSE, lines |-> {}, held |-> {}, fn |-> FALSE,
            recfn |-> FALSE, pending |-> {}, owned |-> {}]
Installed(lines) == [Removed EXCEPT !.on = TRUE, !.lines = lines]

\* set_recording
SetRecording(h, on) ==
    IF on THEN [h EXCEPT !.rec = TRUE]
    ELSE [h EXCEPT !.rec = FALSE, !.recfn = FALSE, !.pending = {}]

Mods(h) == (IF <<"hardware", "ctrl">> \in down THEN {"ctrl"} ELSE {})
             \cup (IF h.fn \/ h.recfn THEN {"f13"} ELSE {})

\* The bookkeeping decide_key_down does before it decides.
AsModifier(h, c) == c.key = "ctrl" \/ (c.key = "f13" /\ (c.rec \/ FnMask(h.lines)))
\* (Variant: every key-down counts, the repeats too.)
NewPressEveryDown(h, c) == ~AsModifier(h, c)
NewPress(h, c) == ~AsModifier(h, c) /\ <<c.src, c.key>> \notin h.held

Noted(h, c) ==
    [h EXCEPT !.held = IF AsModifier(h, c) THEN @ ELSE @ \cup {<<c.src, c.key>>},
              !.recfn = @ \/ (c.key = "f13" /\ c.rec),
              !.fn = @ \/ (c.key = "f13" /\ FnMask(h.lines))]

(***************************************************************************)
(* decide, for a key-down; s is the state after the bookkeeping.           *)
(***************************************************************************)
Decision(s, c, new) ==
    CASE c.key = "ctrl" -> "pass"
      [] c.key # "ctrl" /\ s.pending = {c.key} -> "swallow"
      [] c.key # "ctrl" /\ s.pending # {c.key} /\ c.rec ->
           IF c.key = "f13" THEN "swallow"
           ELSE IF c.key = "esc" /\ Mods(s) = {} THEN "pass"
           ELSE IF new THEN "recorded" ELSE "swallow"
      [] c.key # "ctrl" /\ s.pending # {c.key} /\ ~c.rec ->
           IF c.key = "f13" /\ FnMask(s.lines) THEN "swallow"
           ELSE IF c.altgr THEN "pass"
           ELSE IF \E l \in s.lines : l.chord = Chord(Mods(s), c.key)
                THEN IF new THEN "hotkey" ELSE "swallow-hotkey"
           ELSE "pass"

\* route_overview_action: the bound arrow moves in the overview, the bare
\* arrow and Escape are its own keys.
Routed(s, c, action) ==
    IF ~over \/ s.rec THEN action
    ELSE IF action = "hotkey" THEN "overview-action"
    ELSE IF action = "pass" /\ c.key \in {"arrow", "esc"} THEN "overview-key"
    ELSE action

\* retain_overview_press: a key that acted in the overview is swallowed until
\* it is released.
Retained(s, c, action) ==
    IF c.key \in s.owned /\ over /\ ~s.rec THEN "swallow" ELSE action
Owners(s, c, action) ==
    IF ~over \/ s.rec THEN {}
    ELSE IF c.key \notin s.owned /\ action \in {"hotkey", "swallow-hotkey", "overview-action"}
         THEN s.owned \cup {c.key}
    ELSE s.owned

(***************************************************************************)
(* The callback.  The recording flag is read when it starts; it is over    *)
(* after apply_action.                                                     *)
(***************************************************************************)
Queued(w, e) == [w EXCEPT !.hook = Append(w.hook, e)]

\* A key-down that reaches the page while it records: it captures the chord
\* itself, or Escape cancels.
PageTakes(key) ==
    /\ page' = FALSE
    /\ wires' = [wires EXCEPT !.page = @ \o (IF key = "esc" THEN <<"stop">> ELSE <<"stop", "saved">>)]

\* History: press p acts, or goes on to the shell and the programs.
Served(h, p) == [h EXCEPT !.twice = @ \cup (h.served \cap {p}), !.served = @ \cup {p}]
Leaked(h, p) == [h EXCEPT !.leaked = @ \cup (h.recorded \cap {p})]

FinishDown(c) ==
    LET p == <<c.src, c.key>>
        old == IF over THEN hook ELSE [hook EXCEPT !.owned = {}]
        new == NewPress(old, c)
        s == Noted(old, c)
        routed == Routed(s, c, Decision(s, c, new))
        act == Retained(s, c, routed)
        t == [s EXCEPT !.owned = Owners(s, c, routed)]
    IN  /\ call' = {}
        /\ hook' = IF act = "recorded" THEN [SetRecording(t, FALSE) EXCEPT !.pending = {c.key}] ELSE t
        /\ CASE act = "hotkey" ->
                  /\ wires' = Queued(wires, [event |-> "hotkey"]) /\ UNCHANGED page
                  /\ did' = Leaked(Served(did, p), p)
             [] act = "recorded" ->
                  /\ wires' = Queued(wires, [event |-> "recorded"]) /\ UNCHANGED page
                  /\ did' = [did EXCEPT !.recorded = @ \cup {p}]
             [] act = "overview-action" -> did' = Served(did, p) /\ UNCHANGED <<wires, page>>
             [] act = "pass" ->
                  /\ did' = Leaked(did, p)
                  /\ IF page /\ new /\ c.key \in {"arrow", "esc"} THEN PageTakes(c.key)
                     ELSE UNCHANGED <<wires, page>>
             [] OTHER -> UNCHANGED <<wires, page, did>>

\* The key-up: an F13 that was only a modifier is recorded by itself.
FinishUp(c) ==
    LET p == <<c.src, c.key>>
        bare == hook.pending # {c.key} /\ c.rec /\ c.key = "f13" /\ hook.recfn
        s == [hook EXCEPT !.pending = @ \ {c.key}, !.held = @ \ {p},
                          !.owned = IF over /\ ~hook.rec THEN @ \ {c.key} ELSE {},
                          !.fn = @ /\ c.key # "f13", !.recfn = @ /\ c.key # "f13"]
    IN  /\ call' = {}
        /\ hook' = IF bare THEN SetRecording(s, FALSE) ELSE s
        /\ wires' = IF bare THEN Queued(wires, [event |-> "recorded"]) ELSE wires
        /\ did' = [did EXCEPT !.served = @ \ {p}, !.recorded = @ \ {p}]
        /\ UNCHANGED page

Finish ==
    /\ \E c \in call : IF c.down THEN FinishDown(c) ELSE FinishUp(c)
    /\ UNCHANGED <<down, hotkeys, over, inputs>>

Enters(p, isDown, altgr) ==
    IF hook.on THEN call' = {[src |-> p[1], key |-> p[2], down |-> isDown, rec |-> hook.rec, altgr |-> altgr]}
    ELSE call' = {}

(***************************************************************************)
(* Keys.                                                                   *)
(***************************************************************************)
Input == inputs < MaxInputs /\ inputs' = inputs + 1
\* AltGr counts while Ctrl is held: Windows sends the two together.
AltGrs == {FALSE} \cup {b \in BOOLEAN : <<"hardware", "ctrl">> \in down}

Press(p) ==
    /\ Input /\ call = {} /\ p \notin down
    /\ down' = down \cup {p}
    /\ \E g \in AltGrs : Enters(p, TRUE, g)
    /\ UNCHANGED <<hook, hotkeys, page, wires, over, did>>
Repeat(p) ==
    /\ call = {} /\ p \in down /\ p[1] = "hardware"
    /\ \E g \in AltGrs : Enters(p, TRUE, g)
    /\ UNCHANGED <<hook, down, hotkeys, page, wires, over, did, inputs>>
Release(p) ==
    /\ call = {} /\ p \in down
    /\ down' = down \ {p}
    /\ Enters(p, FALSE, FALSE)
    /\ did' = IF hook.on THEN did ELSE [did EXCEPT !.served = @ \ {p}, !.recorded = @ \ {p}]
    /\ UNCHANGED <<hook, hotkeys, page, wires, over, inputs>>

(***************************************************************************)
(* The page and the overview.                                              *)
(***************************************************************************)
StartRecording ==
    /\ Input /\ ~page /\ page' = TRUE
    /\ wires' = [wires EXCEPT !.page = Append(@, "start")]
    /\ UNCHANGED <<hook, down, call, hotkeys, over, did>>
\* blur, or the window closes
CancelRecording ==
    /\ Input /\ page /\ page' = FALSE
    /\ wires' = [wires EXCEPT !.page = Append(@, "stop")]
    /\ UNCHANGED <<hook, down, call, hotkeys, over, did>>
\* onRecordedChord; a chord saves the page.
Chorded ==
    /\ wires.chords > 0
    /\ page' = FALSE
    /\ wires' = [wires EXCEPT !.chords = @ - 1,
                              !.page = @ \o (IF page THEN <<"stop", "saved">> ELSE <<>>)]
    /\ UNCHANGED <<hook, down, call, hotkeys, over, did, inputs>>

ToggleOverview ==
    /\ Input /\ over' = ~over
    /\ hook' = IF over THEN [hook EXCEPT !.owned = {}] ELSE hook
    /\ UNCHANGED <<down, call, hotkeys, page, wires, did>>

(***************************************************************************)
(* The daemon.                                                             *)
(***************************************************************************)
TakePage ==
    /\ hotkeys.at = "idle" /\ wires.page # <<>>
    /\ wires' = [wires EXCEPT !.page = Tail(@)]
    /\ LET m == Head(wires.page)
       IN  CASE m = "start" -> /\ hook' = SetRecording(hook, TRUE)
                               /\ hotkeys' = [hotkeys EXCEPT !.recording = TRUE]
             [] m = "stop" -> /\ hook' = SetRecording(hook, FALSE)
                              /\ hotkeys' = [hotkeys EXCEPT !.recording = FALSE]
             [] m = "saved" -> hotkeys' = [hotkeys EXCEPT !.at = "reload"] /\ UNCHANGED hook
    /\ UNCHANGED <<down, call, page, over, did, inputs>>

\* handle_recorded_hotkey; a hotkey runs its command.
TakeHook ==
    /\ hotkeys.at = "idle" /\ wires.hook # <<>>
    /\ LET heard == Head(wires.hook).event = "recorded" /\ hotkeys.recording
       IN  /\ wires' = [wires EXCEPT !.hook = Tail(@), !.chords = IF heard THEN @ + 1 ELSE @]
           /\ hotkeys' = [hotkeys EXCEPT !.recording = @ /\ ~heard]
    /\ UNCHANGED <<hook, down, call, page, over, did, inputs>>

\* reload_config_and_hotkeys.  The thread of the old hook is joined first.
DropHook ==
    /\ hotkeys.at = "reload" /\ call = {}
    /\ hook' = Removed
    /\ hotkeys' = [hotkeys EXCEPT !.at = "dropped", !.was = hotkeys.recording]
    /\ UNCHANGED <<down, call, page, wires, over, did, inputs>>

\* setup_hotkeys; a hook that cannot be installed leaves the keys alone.
InstallHook ==
    /\ hotkeys.at = "dropped"
    /\ \E cfg \in Configs, ok \in BOOLEAN :
         hook' = IF ok THEN Installed(Mapping(cfg)) ELSE Removed
    /\ hotkeys' = [hotkeys EXCEPT !.at = "installed", !.recording = FALSE]
    /\ did' = [did EXCEPT !.served = {}]
    /\ UNCHANGED <<down, call, page, wires, over, inputs>>

RestoreRecording ==
    /\ hotkeys.at = "installed"
    /\ hook' = IF hotkeys.was THEN SetRecording(hook, TRUE) ELSE hook
    /\ hotkeys' = [hotkeys EXCEPT !.at = "idle", !.was = FALSE, !.recording = hotkeys.was]
    /\ UNCHANGED <<down, call, page, wires, over, did, inputs>>

Init ==
    /\ \E cfg \in Configs :
         hook = Installed(Mapping(cfg))
    /\ down = {} /\ call = {} /\ page = FALSE /\ over = FALSE
    /\ hotkeys = [recording |-> FALSE, was |-> FALSE, at |-> "idle"]
    /\ wires = [hook |-> <<>>, page |-> <<>>, chords |-> 0]
    /\ did = [served |-> {}, twice |-> {}, recorded |-> {}, leaked |-> {}]
    /\ inputs = 0

Next ==
    \/ Finish
    \/ \E p \in Presses : Press(p) \/ Repeat(p) \/ Release(p)
    \/ StartRecording \/ CancelRecording \/ Chorded \/ ToggleOverview
    \/ TakePage \/ TakeHook \/ DropHook \/ InstallHook \/ RestoreRecording

KeysSpec == Init /\ [][Next]_keysVars

(***************************************************************************)
(* Properties.                                                             *)
(***************************************************************************)
\* A press runs its hotkey, or acts in the overview, once: repeats are
\* guarded although modifiers, the overview and the recorder change under
\* them.  (The hook starts afresh when it is installed again.)
OncePerPress == did.twice = {}

\* Once every key is up the hook holds none: no modifier stays on that would
\* keep every bind from matching, no key that would not count as new.
NothingHeld ==
    down = {} /\ call = {} =>
        hook.held = {} /\ ~hook.fn /\ ~hook.recfn /\ hook.pending = {} /\ hook.owned = {}

\* Once all messages are taken, the hook records exactly while the page does:
\* otherwise it would swallow every key of the user, or miss the chord.
RecorderAgrees ==
    hotkeys.at = "idle" /\ call = {} /\ wires = [hook |-> <<>>, page |-> <<>>, chords |-> 0] =>
        /\ hook.rec => page
        /\ page => hook.rec \/ ~hook.on

KeysSound == OncePerPress /\ NothingHeld /\ RecorderAgrees

\* "Recorded key whose auto-repeat remains swallowed until its key-up
\* arrives": the press a recorder captured reaches nobody else.
RecordedSwallowed == did.leaked = {}
=============================================================================
