------------------------------- MODULE Clipping -------------------------------
(***************************************************************************)
(* The region ownership proof: a native test harness of three processes.   *)
(* A fixture owns a window with a known region; a controller marks the     *)
(* window, clips it to a slice, moves it about, restores it and takes the  *)
(* mark off; a supervisor kills the controller at a named boundary, or has *)
(* it or itself fail, and then has to bring the window back with what it   *)
(* recorded, and never to touch a region that the application put there.   *)
(* A second test shows, clips and clears one framed window in a child that *)
(* two deadlines end.                                                      *)
(*                                                                         *)
(* A region is the set of the parts of the window that it leaves visible.  *)
(* A process may hang at any step; deadlines and waits do run out.  Left   *)
(* out: window dimensions, which every step checks and none changes, the   *)
(* two layouts, and the judgement on measured pixels.                      *)
(***************************************************************************)
EXTENDS Naturals, Sequences, SequencesExt

VARIABLES
    case,       \* what run_matrix_case was called with
    frame,      \* the fixture's window
    fix,        \* the fixture process
    ctl,        \* the controller process
    sup         \* the supervisor

clipVars == <<case, frame, fix, ctl, sup>>

(***************************************************************************)
(* Regions.                                                                *)
(***************************************************************************)
Absent == {"all"}       \* no region is installed
App == {"app"}
\* The known regions; one within the slice stands for the simple and the complex one.
Shape == [absent |-> Absent, empty |-> {}, simple |-> {"in"}]
Slice == {"in", "mid"}
\* expected_owned_region: what the screen leaves of a region known beforehand.
Clip(original, slice) == IF original = Absent THEN slice ELSE original \cap slice
\* The slices of progress_owned_clip_geometry's seven positions.
Samples == <<{"far"}, Slice, Slice \cup {"far"}, {"foot"}, {"head"}, {}, Slice>>

(***************************************************************************)
(* The cases of known_state_region_ownership_recovery_matrix.              *)
(***************************************************************************)
Boundaries == {"before-mark", "marked", "clipped", "before-restore", "restored", "marker-removed",
               "replaced-before", "replaced-after", "complete"}
ControllerFaults == {"query", "placement", "install"}
RestoreFaults == {"restore-once", "restore-terminal"}
Cases ==
    LET C(kind, b, f) == {[kind |-> kind, original |-> Shape[s], boundary |-> b, fault |-> f] :
                             s \in DOMAIN Shape}
    IN  UNION {C("matrix", b, "none") : b \in Boundaries}
        \cup UNION {C("matrix", "complete", f) : f \in ControllerFaults}
        \cup UNION {C("matrix", "clipped", f) : f \in RestoreFaults}
        \cup C("stale", "marked", "none")
        \cup {[kind |-> "framed", original |-> Absent, boundary |-> "complete", fault |-> "none"]}

Original == case.original
Owned == Clip(Original, Slice)

NoFrame == [live |-> FALSE, gen |-> 0, prop |-> 0, region |-> {}, mark |-> 0]
NewFrame(gen, region) == [live |-> TRUE, gen |-> gen, prop |-> gen, region |-> region, mark |-> 0]
\* verify_fixture_identity and ownership_matches, of the window that was recorded.
SameWindow == frame.live /\ frame.gen = 1 /\ frame.prop = 1
Marked == frame.live /\ frame.gen = 1 /\ frame.mark = 1
\* verify_known_region: that no region is installed cannot be read back.
Reads(region) == region = Absent \/ (frame.live /\ frame.region = region)

Put(region) == frame' = [frame EXCEPT !.region = region]
SetMark(m) == frame' = [frame EXCEPT !.mark = m]

(***************************************************************************)
(* The fixture process.                                                    *)
(***************************************************************************)
Closed == sup.at \in {"over", "dead"}   \* its command pipe
FixtureEnds(code) ==
    /\ fix' = [fix EXCEPT !.at = "gone", !.code = code]
    /\ frame' = NoFrame
FixtureBoot ==
    /\ fix.at = "boot"
    /\ fix' = [fix EXCEPT !.at = "bind", !.out = Append(@, "boot")]
    /\ UNCHANGED <<case, frame, ctl, sup>>
FixtureBind ==
    /\ fix.at = "bind"
    /\ \/ /\ fix.in # <<>> /\ Head(fix.in) = "bind"
          /\ frame' = NewFrame(1, Original)
          /\ fix' = [fix EXCEPT !.at = "serve", !.in = Tail(@), !.out = Append(@, "ready")]
       \/ /\ fix.in = <<>>          \* the wait ran out, or the pipe closed
          /\ FixtureEnds("error")
    /\ UNCHANGED <<case, ctl, sup>>
FixtureServe ==
    /\ fix.at = "serve"
    /\ \/ /\ fix.in # <<>> /\ Head(fix.in) = "exit"
          /\ FixtureEnds("ok")
       \/ /\ fix.in # <<>> /\ Head(fix.in) = "recreate"
          /\ frame' = NewFrame(frame.gen + 1, Original)
          /\ fix' = [fix EXCEPT !.in = Tail(@), !.out = Append(@, "recreated")]
       \/ /\ fix.in = <<>> /\ Closed
          /\ FixtureEnds("error")
    /\ UNCHANGED <<case, ctl, sup>>
\* run_matrix_with_deadline, and run_child_fixture's watchdog.
FixtureDeadline ==
    /\ fix.at # "gone"
    /\ FixtureEnds("deadline")
    /\ UNCHANGED <<case, ctl, sup>>

(***************************************************************************)
(* The controller process: a script, of which it says the phases.          *)
(***************************************************************************)
Do(what) == [do |-> what, phase |-> "", region |-> {}]
Say(phase) == [do |-> "say", phase |-> phase, region |-> {}]
Progress(slice) == [do |-> "progress", phase |-> "", region |-> slice]
Replacement(boundary) ==
    IF case.boundary = boundary THEN <<Do("replace"), Say(boundary)>> ELSE <<>>
Script ==
    <<Do("verify"), Do("place"), Say("before-mark"), Do("mark"), Say("marked"), Do("install")>>
    \o [i \in 1..Len(Samples) |-> Progress(Samples[i])]
    \o <<Say("clipped"), Say("before-restore")>> \o Replacement("replaced-before")
    \o <<Do("restore"), Say("restored"), Do("unmark"), Say("marker-removed")>>
    \o Replacement("replaced-after") \o <<Say("complete")>>

ControllerEnds(code) == ctl' = [ctl EXCEPT !.at = "end", !.code = code]
Advance == ctl' = IF ctl.pc = Len(Script) THEN [ctl EXCEPT !.at = "end", !.code = "ok"]
                  ELSE [ctl EXCEPT !.pc = @ + 1]
FaultOf == [verify |-> "query", place |-> "placement", install |-> "install"]
\* A controller that errs prints nothing and ends; an injected error it acknowledges.
ControllerStep ==
    LET step == Script[ctl.pc]
        Works == frame.live /\ frame.gen = 1
    IN  /\ ctl.at = "run"
        /\ \/ /\ step.do \in DOMAIN FaultOf /\ case.fault = FaultOf[step.do]
              /\ step.do = "verify" => SameWindow
              /\ ctl' = [ctl EXCEPT !.at = "end", !.code = "fault", !.out = Append(@, "fault")]
              /\ UNCHANGED frame
           \/ /\ step.do \in {"place", "mark", "install", "restore", "replace"} /\ ~Works
              /\ step.do \in DOMAIN FaultOf => case.fault # FaultOf[step.do]
              /\ ControllerEnds("error") /\ UNCHANGED frame
           \/ /\ step.do = "verify" /\ ~SameWindow
              /\ ControllerEnds("error") /\ UNCHANGED frame
           \/ /\ step.do = "progress" /\ ~Marked
              /\ ControllerEnds("error") /\ UNCHANGED frame
           \/ /\ step.do \in {"verify", "place"} /\ case.fault # FaultOf[step.do]
              /\ IF step.do = "verify" THEN SameWindow ELSE Works
              /\ Advance /\ UNCHANGED frame
           \/ step.do = "mark" /\ Works /\ SetMark(1) /\ Advance
           \/ step.do = "install" /\ Works /\ case.fault # "install" /\ Put(Owned) /\ Advance
           \/ step.do = "progress" /\ Marked /\ Put(Clip(Original, step.region)) /\ Advance
           \/ step.do = "restore" /\ Works /\ Put(Original) /\ Advance
           \/ step.do = "replace" /\ Works /\ Put(App) /\ Advance
           \/ /\ step.do = "unmark"         \* a failure is not looked at
              /\ IF Works THEN SetMark(0) ELSE UNCHANGED frame
              /\ Advance
           \/ /\ step.do = "say" /\ UNCHANGED frame
              /\ LET said == [ctl EXCEPT !.out = Append(@, step.phase)]
                 IN  ctl' = IF step.phase = case.boundary /\ step.phase # "complete"
                            THEN [said EXCEPT !.at = "hold"]
                            ELSE IF ctl.pc = Len(Script)
                            THEN [said EXCEPT !.at = "end", !.code = "ok"]
                            ELSE [said EXCEPT !.pc = @ + 1]
        /\ UNCHANGED <<case, fix, sup>>
ControllerDeadline ==
    /\ ctl.at \in {"run", "hold"}
    /\ ControllerEnds("deadline")
    /\ UNCHANGED <<case, frame, fix, sup>>

(***************************************************************************)
(* The supervisor.                                                         *)
(***************************************************************************)
Op(op, region, want) == [op |-> op, region |-> region, want |-> want]
Recover(region, want) == Op("recover", region, want)    \* recover_owned_region, and its answer
Unmarked == Op("unmarked", {}, "")
See(region) == Op("see", region, "")            \* verify_known_region
Holds(region) == Op("holds", region, "")        \* verify_recovery_record
Repair == Op("repair", {}, "")
Again == <<Recover(Original, "false"), See(Original)>>
\* What run_matrix_case and run_matrix_stale_identity_case do once the controller is reaped.
Plan ==
    IF case.kind = "stale"
    THEN <<Op("tamper", {}, ""), Recover(Original, "error"), Op("untamper", {}, ""),
           Recover(Original, "true"), Op("recreate", {}, ""), Op("recreated", {}, "")>>
    ELSE CASE case.fault = "install" -> <<Holds(Original), Recover(Original, "true")>>
           [] case.fault \in {"query", "placement"} -> <<Unmarked, See(Original)>>
           [] case.fault = "restore-terminal" -> <<Recover(Owned, "error"), Holds(Owned), Repair>>
           [] case.boundary \in {"before-mark", "marker-removed", "complete"} /\ case.fault = "none" ->
                 <<Unmarked, Recover(Original, "false"), See(Original)>> \o Again
           [] case.boundary = "replaced-after" ->
                 <<Unmarked, Recover(App, "false"), See(App), Repair>> \o Again
           [] case.boundary = "replaced-before" ->
                 <<Holds(App), Recover(Owned, "false"), Holds(App), Repair>> \o Again
           [] case.boundary \in {"marked", "restored"} -> <<Recover(Original, "true")>> \o Again
           [] OTHER -> <<Recover(Owned, "true")>> \o Again

Fails == sup' = [sup EXCEPT !.at = "cleanup", !.verdict = "err"]
Goes(at) == sup' = [sup EXCEPT !.at = at]
\* wait_for_matrix_line of the fixture: the line, or the wait ran out or the pipe closed.
Awaits(line, Then) ==
    \/ /\ fix.out # <<>> /\ Head(fix.out) = line
       /\ Then
    \/ /\ fix.out = <<>>
       /\ Fails /\ UNCHANGED <<fix, ctl>>
\* send_matrix_command; the pipe of a process that ended is broken.
Sent(command) == fix' = [fix EXCEPT !.out = Tail(@), !.in = Append(@, command)]

Bind ==
    /\ sup.at = "boot"
    /\ Awaits("boot", IF fix.at = "gone" THEN Fails /\ UNCHANGED <<fix, ctl>>
                      ELSE Sent("bind") /\ Goes("ready") /\ UNCHANGED ctl)
    /\ UNCHANGED <<case, frame>>
\* The record is taken, and the controller started.
Ready ==
    /\ sup.at = "ready"
    /\ Awaits("ready",
              /\ fix' = [fix EXCEPT !.out = Tail(@)]
              /\ IF SameWindow /\ Reads(Original)
                 THEN Goes("phase") /\ ctl' = [ctl EXCEPT !.at = "run"]
                 ELSE Fails /\ UNCHANGED ctl)
    /\ UNCHANGED <<case, frame>>
Wanted == IF case.fault \in ControllerFaults THEN "fault" ELSE case.boundary
AwaitPhase ==
    /\ sup.at = "phase"
    /\ \/ /\ ctl.out # <<>>
          /\ IF Head(ctl.out) = Wanted
             THEN Goes("reap") /\ ctl' = [ctl EXCEPT !.out = <<>>]
             ELSE UNCHANGED sup /\ ctl' = [ctl EXCEPT !.out = Tail(@)]
       \/ /\ ctl.out = <<>>
          /\ Fails /\ UNCHANGED ctl
    /\ UNCHANGED <<case, frame, fix>>
\* wait_for_matrix_child where it is to end by itself, else terminate_retained_controller.
Reap ==
    LET ends == IF case.fault \in ControllerFaults THEN "fault" ELSE "ok"
    IN  /\ sup.at = "reap"
        /\ \/ /\ Wanted \in {"fault", "complete"} /\ ctl.at = "end"
              /\ IF ctl.code = ends THEN Goes("plan") ELSE Fails
              /\ UNCHANGED ctl
           \/ /\ Wanted \in {"fault", "complete"} /\ ctl.at # "end"     \* the wait ran out
              /\ Fails /\ UNCHANGED ctl
           \/ /\ Wanted \notin {"fault", "complete"} /\ ctl.at = "end"
              /\ Fails /\ UNCHANGED ctl
           \/ /\ Wanted \notin {"fault", "complete"} /\ ctl.at # "end"
              /\ ControllerEnds("killed") /\ Goes("plan")
        /\ UNCHANGED <<case, frame, fix>>

\* (Variant: whatever is installed under our mark is taken to be ours.)
RecoverableMarked(region) == Marked
\* recover_owned_region's checks: our mark, and the region we left.
Recoverable(region) == Marked /\ Reads(region)
PlanGoes ==
    sup' = IF sup.pc = Len(Plan) THEN [sup EXCEPT !.at = "cleanup", !.verdict = "ok", !.stage = 0]
           ELSE [sup EXCEPT !.pc = @ + 1, !.stage = 0]
Answer(answer) == IF Plan[sup.pc].want = answer THEN PlanGoes ELSE Fails
\* One step of recover_owned_region: the checks, the restoration, the mark.
Recovering(step) ==
    \/ /\ sup.stage = 0 /\ UNCHANGED frame
       /\ IF ~SameWindow THEN Answer("error")
          ELSE IF ~Recoverable(step.region) THEN Answer("false")
          ELSE IF case.fault = "restore-terminal" THEN Answer("error")
          ELSE sup' = [sup EXCEPT !.stage =
                          IF case.fault = "restore-once" /\ ~sup.failed THEN 1 ELSE 2,
                          !.failed = TRUE]
    \/ /\ sup.stage = 1 /\ UNCHANGED frame      \* the injected failure; all is still as it was
       /\ IF SameWindow /\ Recoverable(step.region) THEN sup' = [sup EXCEPT !.stage = 2]
          ELSE Answer("error")
    \/ /\ sup.stage = 2
       /\ IF frame.live THEN Put(Original) /\ sup' = [sup EXCEPT !.stage = 3]
          ELSE Answer("error") /\ UNCHANGED frame
    \/ /\ sup.stage = 3
       /\ IF frame.live THEN SetMark(0) ELSE UNCHANGED frame
       /\ IF frame.live /\ Reads(Original) THEN Answer("true") ELSE Answer("error")
Check(holds) == /\ IF holds THEN PlanGoes ELSE Fails
                /\ UNCHANGED frame
Supervise ==
    LET step == Plan[sup.pc]
    IN  /\ sup.at = "plan"
        /\ \/ step.op = "recover" /\ Recovering(step) /\ UNCHANGED fix
           \/ step.op = "unmarked" /\ Check(~Marked) /\ UNCHANGED fix
           \/ step.op = "see" /\ Check(Reads(step.region)) /\ UNCHANGED fix
           \/ /\ step.op = "holds" /\ UNCHANGED fix
              /\ Check(SameWindow /\ Marked /\ Reads(step.region))
           \/ /\ step.op \in {"repair", "tamper", "untamper"} /\ UNCHANGED fix
              /\ IF ~frame.live THEN Fails /\ UNCHANGED frame
                 ELSE /\ PlanGoes
                      /\ CASE step.op = "repair" ->
                                 frame' = [frame EXCEPT !.region = Original, !.mark = 0]
                           [] step.op = "tamper" -> frame' = [frame EXCEPT !.prop = 2]
                           [] step.op = "untamper" -> frame' = [frame EXCEPT !.prop = 1]
           \/ /\ step.op = "recreate" /\ UNCHANGED frame
              /\ IF fix.at = "gone" THEN Fails /\ UNCHANGED fix
                 ELSE PlanGoes /\ fix' = [fix EXCEPT !.in = Append(@, "recreate")]
           \/ /\ step.op = "recreated" /\ UNCHANGED frame
              /\ \/ /\ fix.out = <<"recreated">> /\ fix' = [fix EXCEPT !.out = <<>>]
                    /\ IF frame.live /\ frame.gen = 2 THEN PlanGoes ELSE Fails
                 \/ fix.out = <<>> /\ Fails /\ UNCHANGED fix
        /\ UNCHANGED <<case, ctl>>

\* RetainedMatrixController::cleanup: a controller still running is killed.
Cleanup ==
    /\ sup.at = "cleanup"
    /\ IF ctl.at \in {"run", "hold"} THEN ControllerEnds("killed") ELSE UNCHANGED ctl
    /\ Goes("release")
    /\ UNCHANGED <<case, frame, fix>>
\* RetainedMatrixFixture::shutdown asks, and waits; nobody kills a fixture.
Release ==
    /\ sup.at = "release"
    /\ fix' = IF fix.at = "gone" THEN fix ELSE [fix EXCEPT !.in = Append(@, "exit")]
    /\ sup' = [sup EXCEPT !.at = "await", !.verdict = IF fix.at = "gone" THEN "err" ELSE @]
    /\ UNCHANGED <<case, frame, ctl>>
AwaitFixture ==
    /\ sup.at = "await"
    /\ sup' = [sup EXCEPT !.at = "over", !.verdict = IF fix.code = "ok" THEN @ ELSE "err"]
    /\ UNCHANGED <<case, frame, fix, ctl>>
\* The deadline of the whole test.
SupervisorDeadline ==
    /\ sup.at \notin {"over", "dead"}
    /\ Goes("dead")
    /\ UNCHANGED <<case, frame, fix, ctl>>

(***************************************************************************)
(* framed_window_region_viability: the child's proof, and its supervisor.  *)
(***************************************************************************)
FramedNext == [hidden |-> "shown", shown |-> "clipped", clipped |-> "cleared", cleared |-> "passed"]
FramedStep ==
    /\ fix.at \in DOMAIN FramedNext
    /\ \/ /\ fix' = [fix EXCEPT !.at = FramedNext[@]]
          /\ CASE fix.at = "shown" -> Put(Slice)
               [] fix.at = "clipped" -> Put(Absent)
               [] OTHER -> UNCHANGED frame
       \/ fix' = [fix EXCEPT !.at = "failed"] /\ UNCHANGED frame
    /\ UNCHANGED <<case, ctl, sup>>
\* OwnedFixtureWindow::cleanup: the region first, then the window.
FramedCleanup ==
    /\ fix.at \in {"passed", "failed"}
    /\ IF frame.region # Absent THEN Put(Absent) /\ UNCHANGED fix
       ELSE FixtureEnds(IF fix.at = "passed" THEN "ok" ELSE "error")
    /\ UNCHANGED <<case, ctl, sup>>
\* wait_for_supervised_child, which kills at its deadline.
FramedWait ==
    /\ sup.at = "watch"
    /\ IF fix.at = "gone"
       THEN /\ sup' = [sup EXCEPT !.at = "over", !.verdict = IF fix.code = "ok" THEN "ok" ELSE "err"]
            /\ UNCHANGED <<fix, frame>>
       ELSE /\ sup' = [sup EXCEPT !.at = "over", !.verdict = "err"]
            /\ FixtureEnds("killed")
    /\ UNCHANGED <<case, ctl>>

ClipInit ==
    /\ case \in Cases
    /\ ctl = [at |-> "none", pc |-> 1, out |-> <<>>, code |-> ""]
    /\ LET framed == case.kind = "framed"
       IN  /\ frame = IF framed THEN NewFrame(1, Absent) ELSE NoFrame
           /\ fix = [at |-> IF framed THEN "hidden" ELSE "boot", in |-> <<>>, out |-> <<>>, code |-> ""]
           /\ sup = [at |-> IF framed THEN "watch" ELSE "boot", pc |-> 1, stage |-> 0,
                     failed |-> FALSE, verdict |-> ""]
Supervisor == \/ Bind \/ Ready \/ AwaitPhase \/ Reap \/ Supervise \/ Cleanup \/ Release
              \/ AwaitFixture \/ FramedWait
ClipNext ==
    \/ FixtureBoot \/ FixtureBind \/ FixtureServe \/ FixtureDeadline
    \/ ControllerStep \/ ControllerDeadline
    \/ Supervisor \/ SupervisorDeadline
    \/ FramedStep \/ FramedCleanup
ClipSpec ==
    /\ ClipInit /\ [][ClipNext]_clipVars
    /\ WF_clipVars(Supervisor) /\ WF_clipVars(FixtureDeadline) /\ WF_clipVars(ControllerDeadline)

(***************************************************************************)
(* Properties.                                                             *)
(***************************************************************************)
\* A case passes only with the window as it was found and no mark on it, and
\* only where the controller ended the way the case is about.
PassedClean ==
    sup.verdict = "ok" =>
        /\ frame.live => frame.region = Original /\ frame.mark = 0
        /\ case.kind = "framed"
           \/ ctl.code = IF case.fault \in ControllerFaults THEN "fault"
                         ELSE IF case.boundary = "complete" THEN "ok" ELSE "killed"
\* Nobody else touches the window while the supervisor judges and recovers.
RecoversAlone == sup.at = "plan" => ctl.at = "end"
\* A region that the application put there goes only by a deliberate repair,
\* by the controller that stood for the application, or with its window.
AppRegionKept ==
    [][(frame.live /\ frame.region = App /\ frame'.live /\ frame'.region # App)
          => (sup.at = "plan" /\ Plan[sup.pc].op = "repair")]_clipVars
\* However a process hangs, the supervisor comes to an end and leaves none behind:
\* to be so from some time on.
AllEnd == sup.at \in {"over", "dead"} /\ fix.at = "gone" /\ ctl.at \in {"none", "end"}
=============================================================================
