---------------------------- MODULE PlacingProofs ----------------------------
(***************************************************************************)
(* Proofs about putting windows where they belong: what the runs of        *)
(* MCPlacing check of apply_layout holds for any number of layouts, thread *)
(* slots and retries, and what they check of the placement mover for any   *)
(* number of windows, targets and generations.                             *)
(***************************************************************************)
EXTENDS MCPlacing, RetainProofs

(***************************************************************************)
(* Applying a layout.                                                      *)
(***************************************************************************)
Waiting == {"waiting", "timedOut", "invalidate"}
Ended == {"recover", "recoverAgain", "ending", "exited"}

\* The daemon knows the one worker there may be: it waits for it or keeps
\* its handle, until shutdown has taken the handles.
Accounting ==
    /\ \A v, w \in Workers : wpc[v] # "none" /\ wpc[w] # "none" => v = w
    /\ \A v, w \in pending : v = w
    /\ main \in Waiting => /\ pending = {}
                           /\ \A w \in Workers : wpc[w] # "none" => w = awaited
    /\ main \in MainPcs \ (Waiting \cup Ended) =>
          \A w \in Workers : wpc[w] # "none" => w \in pending

\* A retry is there only while it has been used, and a display change leaves
\* room for the generation it may need.
Generations ==
    /\ retry # 0 => used = TRUE
    /\ main \in {"reap", "apply"} \cup Waiting =>
          /\ caller = "display" => gen < MaxGen
          /\ caller = "retry" => used = TRUE

\* A worker left behind is never current, and it is silent only while the
\* daemon remembers that it is.
Epochs ==
    /\ pending \cap current = {}
    /\ main = "stall" => current \cap {w \in Workers : wpc[w] # "none"} = {}
    /\ \A w \in suppressed : suppress[w] = TRUE
    /\ \A w \in Workers : wpc[w] # "none" /\ suppress[w] = TRUE => w \in suppressed
    /\ suppressed \subseteq pending \/ main \in {"invalidate"} \cup Shutdown
    /\ main \in {"waiting", "timedOut"} => suppressed = {}
    /\ main = "invalidate" => suppressed \subseteq {awaited}
    /\ main \in {"waiting", "timedOut"} =>
          /\ awaited \in current \/ cancelled = TRUE
          /\ wpc[awaited] \in {"late", "recover"} => cancelled = TRUE

\* Whoever latches the cancellation latches it for good.
Cancelling ==
    /\ console # "idle" => cancelled = TRUE
    /\ main \in {"bump", "recover", "recoverAgain", "ending", "exited"} =>
          cancelled = TRUE
    /\ main \in Shutdown \ {"resumeDeferred"} => suppressed = {}

\* A timeout pauses, and while tiling is paused nothing is placed.
Pausing ==
    /\ main \in Waiting => paused = FALSE
    /\ reapplying = TRUE =>
          /\ main \in {"reap", "apply", "stall", "recoverStalled"} \cup Waiting
          /\ main # "recoverStalled" => paused = FALSE
    /\ stalled = TRUE => paused = TRUE /\ suppressed = {} /\ main # "stall"
    /\ stalled = TRUE =>
          \A w \in Workers : wpc[w] # "none" => w \notin current

\* Some worker still has to bring the windows back, or its panic has yet to
\* be noticed when it is reaped.
Dirty ==
    \E w \in Workers : \/ wpc[w] \in {"check", "late", "recover"}
                       \/ wpc[w] = "done" /\ answer[w] = "lost"

NoTrace ==
    (stalled = TRUE /\ main \notin {"recoverStalled"} \cup Shutdown)
      \/ main \in {"ending", "exited"}
    => screen = "recovered" \/ Dirty

\* What counts as confirmed is on the screen, and no worker was left behind
\* since.
Confirmed ==
    /\ cancelled = FALSE /\ confirmed = TRUE /\ last # "none"
         /\ main \notin Waiting \cup Shutdown
       => screen = last /\ pending = {}
    /\ cancelled = FALSE /\ confirmed = TRUE /\ main \notin Waiting \cup Shutdown
       => pending = {}
    /\ cancelled = FALSE /\ retry # 0 /\ main \notin Waiting \cup Shutdown
         /\ reapplying = FALSE
       => confirmed = FALSE
    /\ main \in {"waiting", "timedOut"} => last = want
    /\ main \in Waiting => placing[awaited] = last
    /\ main \in {"waiting", "timedOut"} /\ cancelled = FALSE
         /\ wpc[awaited] \in {"check", "done"} /\ answer[awaited] = "ok"
       => screen = last
    /\ main \in {"stall", "recoverStalled"} /\ cancelled = FALSE =>
          confirmed = FALSE

Safety ==
    /\ Accounting /\ Generations /\ Epochs /\ Cancelling /\ Pausing
    /\ NoTrace /\ Confirmed /\ SuppressionSeen

IInv == TypeOK /\ Safety

\* A failed resume restores the pause, whatever the failure was.
LEMMA ReturnType ==
    ASSUME TypeOK, NEW ok \in BOOLEAN, NEW p \in BOOLEAN, Return(ok, p)
    PROVE  MainType' /\ paused' \in BOOLEAN
<1>1. CASE p \/ (caller = "resume" /\ ~ok)
  BY <1>1 DEF Return, TypeOK, MainType, MainPcs
<1>2. CASE ~(p \/ (caller = "resume" /\ ~ok))
  BY <1>2 DEF Return, TypeOK, MainType, MainPcs
<1> QED
  BY <1>1, <1>2

LEMMA DeferredType ==
    ASSUME suppress \in [Workers -> BOOLEAN], ResumeDeferred
    PROVE  suppress' \in [Workers -> BOOLEAN] /\ suppressed' = {}
BY DEF ResumeDeferred

\* The timer follows a retry that is there already, or the next one.
LEMMA TimerType ==
    ASSUME RetryType, NEW r \in 0..gen', TimerFollows(r),
           gen' \in {gen, gen + 1}, gen' <= MaxGen,
           retry' \in 0..gen', used' \in BOOLEAN
    PROVE  RetryType'
BY MaxGenIsNat DEF RetryType, TimerFollows

\* Every step keeps the types; the generations stay below their bound.
LEMMA TypeStep == TypeOK /\ Generations /\ [Next]_vars => TypeOK'
<1> SUFFICES ASSUME TypeOK, Generations, [Next]_vars PROVE TypeOK'
  OBVIOUS
<1> USE MaxGenIsNat
<1> USE DEF TypeOK, Callers, Shutdown, MainPcs, WorkerPcs, Screens, vars, mainVars,
            stateVars, retryVars, timerVars, workVars, listVars,
            MainType, StateType, RetryType, WorkType, SharedType
<1>1. CASE Event
  BY <1>1 DEF Event, Call
<1>2. CASE DisplayChange
  <2>1. MainType'
    BY <1>2 DEF DisplayChange, Call
  <2>2. StateType'
    BY <1>2 DEF DisplayChange, Call
  <2>3. RetryType'
    BY <1>2 DEF DisplayChange, Call
  <2>4. WorkType'
    BY <1>2 DEF DisplayChange, Call
  <2>5. SharedType'
    BY <1>2 DEF DisplayChange, Call
  <2> QED
    BY <2>1, <2>2, <2>3, <2>4, <2>5 DEF TypeOK
<1>3. CASE Pause
  BY <1>3 DEF Pause
<1>4. CASE Resume
  <2>1. MainType'
    BY <1>4 DEF Resume, Call
  <2>2. StateType'
    BY <1>4 DEF Resume, Call
  <2>3. RetryType'
    BY <1>4 DEF Resume, Call
  <2>4. WorkType'
    BY <1>4, DeferredType DEF Resume, Call
  <2>5. SharedType'
    BY <1>4 DEF Resume, Call
  <2> QED
    BY <2>1, <2>2, <2>3, <2>4, <2>5 DEF TypeOK
<1>5. CASE ReleaseAllWindows
  BY <1>5 DEF ReleaseAllWindows, Reap, Join, Finished
<1>6. ASSUME NEW g \in 1..MaxGen, RetryStale(g) PROVE TypeOK'
  BY <1>6 DEF RetryStale
<1>7. ASSUME NEW g \in 1..MaxGen, RetryWhilePaused(g) PROVE TypeOK'
  BY <1>7, DeferredType DEF RetryWhilePaused, RetryTaken, RetryMatches
<1>8. ASSUME NEW g \in 1..MaxGen, RetryRuns(g) PROVE TypeOK'
  BY <1>8 DEF RetryRuns, RetryTaken, RetryMatches, Reap, Join, Finished,
     ReapNeedsRecovery
<1>9. ASSUME NEW g \in 1..MaxGen, TimerExpires(g) PROVE TypeOK'
  BY <1>9 DEF TimerExpires, Alive
<1>10. CASE ApplyReaps
  BY <1>10 DEF ApplyReaps, Reap, Join, Finished, ReapNeedsRecovery
<1>11. CASE ApplySkips
  <2>1. MainType'
    BY <1>11, ReturnType DEF ApplySkips, Skips
  <2>2. StateType'
    BY <1>11, ReturnType DEF ApplySkips, Skips
  <2>3. RetryType'
    <3>1. TimerFollows(retry) /\ gen' = gen
      BY <1>11 DEF ApplySkips
    <3>2. retry \in 0..gen' /\ gen' <= MaxGen /\ retry' \in 0..gen'
          /\ used' \in BOOLEAN
      BY <1>11 DEF ApplySkips
    <3> HIDE DEF RetryType
    <3> QED
      BY <3>1, <3>2, TimerType
  <2>4. WorkType'
    BY <1>11 DEF ApplySkips, Skips
  <2>5. SharedType'
    BY <1>11 DEF ApplySkips, Skips
  <2> QED
    BY <2>1, <2>2, <2>3, <2>4, <2>5 DEF TypeOK
<1>12. CASE ApplyFastPath
  <2>1. MainType'
    BY <1>12, ReturnType DEF ApplyFastPath, Skips, Unchanged, Succeeded
  <2>2. StateType'
    BY <1>12, ReturnType DEF ApplyFastPath, Skips, Unchanged, Succeeded
  <2>3. RetryType'
    <3>1. TimerFollows(0) /\ gen' = gen
      BY <1>12 DEF ApplyFastPath, Succeeded
    <3>2. used' \in BOOLEAN /\ retry' = 0
      BY <1>12, Zenon DEF ApplyFastPath, Succeeded
    <3>3. 0 \in 0..gen' /\ gen' <= MaxGen /\ retry' \in 0..gen'
      BY <3>1, <3>2
    <3> HIDE DEF RetryType
    <3> QED
      BY <3>1, <3>2, <3>3, TimerType
  <2>4. WorkType'
    BY <1>12 DEF ApplyFastPath, Skips, Unchanged, Succeeded
  <2>5. SharedType'
    BY <1>12 DEF ApplyFastPath, Skips, Unchanged, Succeeded
  <2> QED
    BY <2>1, <2>2, <2>3, <2>4, <2>5 DEF TypeOK
<1>13. CASE SpawnFails
  <2>1. MainType'
    BY <1>13, ReturnType DEF SpawnFails, Skips, Abandon
  <2>2. StateType'
    BY <1>13, ReturnType DEF SpawnFails, Skips, Abandon
  <2>3. RetryType'
    <3>1. TimerFollows(retry) /\ gen' = gen
      BY <1>13 DEF SpawnFails
    <3>2. retry \in 0..gen' /\ gen' <= MaxGen /\ retry' \in 0..gen'
          /\ used' \in BOOLEAN
      BY <1>13 DEF SpawnFails
    <3> HIDE DEF RetryType
    <3> QED
      BY <3>1, <3>2, TimerType
  <2>4. WorkType'
    BY <1>13 DEF SpawnFails, Skips, Abandon
  <2>5. SharedType'
    BY <1>13 DEF SpawnFails, Skips, Abandon
  <2> QED
    BY <2>1, <2>2, <2>3, <2>4, <2>5 DEF TypeOK
<1>14. ASSUME NEW w \in Workers, Spawn(w) PROVE TypeOK'
  BY <1>14 DEF Spawn, Skips
<1>15. ASSUME NEW w \in Workers, ReceiveOk(w) PROVE TypeOK'
  <2>1. MainType'
    BY <1>15, ReturnType DEF ReceiveOk, Answered, Join, Succeeded
  <2>2. StateType'
    BY <1>15, ReturnType DEF ReceiveOk, Answered, Join, Succeeded
  <2>3. RetryType'
    <3>1. TimerFollows(0) /\ gen' = gen
      BY <1>15 DEF ReceiveOk, Succeeded
    <3>2. used' \in BOOLEAN /\ retry' = 0
      BY <1>15, Zenon DEF ReceiveOk, Succeeded
    <3>3. 0 \in 0..gen' /\ gen' <= MaxGen /\ retry' \in 0..gen'
      BY <3>1, <3>2
    <3> HIDE DEF RetryType
    <3> QED
      BY <3>1, <3>2, <3>3, TimerType
  <2>4. WorkType'
    BY <1>15 DEF ReceiveOk, Answered, Join, Succeeded
  <2>5. SharedType'
    BY <1>15 DEF ReceiveOk, Answered, Join, Succeeded
  <2> QED
    BY <2>1, <2>2, <2>3, <2>4, <2>5 DEF TypeOK
<1>16. ASSUME NEW w \in Workers, ReceiveAndReapply(w) PROVE TypeOK'
  BY <1>16 DEF ReceiveAndReapply, Answered, Join
<1>17. ASSUME NEW w \in Workers, ReceiveError(w) PROVE TypeOK'
  <2>1. MainType'
    BY <1>17, ReturnType DEF ReceiveError, Answered, Join, Abandon
  <2>2. StateType'
    BY <1>17, ReturnType DEF ReceiveError, Answered, Join, Abandon
  <2>3. RetryType'
    <3>1. TimerFollows(retry) /\ gen' = gen
      BY <1>17 DEF ReceiveError
    <3>2. retry \in 0..gen' /\ gen' <= MaxGen /\ retry' \in 0..gen'
          /\ used' \in BOOLEAN
      BY <1>17 DEF ReceiveError
    <3> HIDE DEF RetryType
    <3> QED
      BY <3>1, <3>2, TimerType
  <2>4. WorkType'
    BY <1>17 DEF ReceiveError, Answered, Join, Abandon
  <2>5. SharedType'
    BY <1>17 DEF ReceiveError, Answered, Join, Abandon
  <2> QED
    BY <2>1, <2>2, <2>3, <2>4, <2>5 DEF TypeOK
<1>18. CASE Publish
  <2>1. MainType'
    BY <1>18 DEF Publish, DefersToRetry, Generations, Waiting
  <2>2. StateType'
    BY <1>18 DEF Publish, DefersToRetry, Generations, Waiting
  <2>3. RetryType'
    BY <1>18 DEF Publish, DefersToRetry, Generations, Waiting
  <2>4. WorkType'
    BY <1>18 DEF Publish, DefersToRetry, Generations, Waiting
  <2>5. SharedType'
    BY <1>18 DEF Publish, DefersToRetry, Generations, Waiting
  <2> QED
    BY <2>1, <2>2, <2>3, <2>4, <2>5 DEF TypeOK
<1>19. CASE InvalidateAndDefer
  <2>1. MainType'
    BY <1>19, ReturnType DEF InvalidateAndDefer, Invalidate, Abandon,
       DefersToRetry, Generations, Waiting
  <2>2. StateType'
    BY <1>19, ReturnType DEF InvalidateAndDefer, Invalidate, Abandon,
       DefersToRetry, Generations, Waiting
  <2>3. RetryType'
    <3>1. TimerFollows(gen + 1) /\ gen' = gen + 1
      BY <1>19 DEF InvalidateAndDefer, Invalidate, DefersToRetry, Generations,
         Waiting
    <3>2. gen + 1 \in 0..gen' /\ gen' <= MaxGen /\ retry' \in 0..gen'
          /\ used' \in BOOLEAN
      BY <1>19 DEF InvalidateAndDefer, Invalidate, DefersToRetry, Generations,
         Waiting
    <3> HIDE DEF RetryType
    <3> QED
      BY <3>1, <3>2, TimerType
  <2>4. WorkType'
    BY <1>19 DEF InvalidateAndDefer, Invalidate, Abandon, DefersToRetry,
       Generations, Waiting
  <2>5. SharedType'
    BY <1>19 DEF InvalidateAndDefer, Invalidate, Abandon, DefersToRetry,
       Generations, Waiting
  <2> QED
    BY <2>1, <2>2, <2>3, <2>4, <2>5 DEF TypeOK
<1>20. CASE InvalidateAndStall
  <2>1. MainType'
    BY <1>20 DEF InvalidateAndStall, Invalidate, Abandon
  <2>2. StateType'
    BY <1>20 DEF InvalidateAndStall, Invalidate, Abandon
  <2>3. RetryType'
    BY <1>20 DEF InvalidateAndStall, Invalidate, Abandon
  <2>4. WorkType'
    BY <1>20 DEF InvalidateAndStall, Invalidate, Abandon
  <2>5. SharedType'
    BY <1>20 DEF InvalidateAndStall, Invalidate, Abandon
  <2> QED
    BY <2>1, <2>2, <2>3, <2>4, <2>5 DEF TypeOK
<1>21. CASE Stall
  BY <1>21, DeferredType DEF Stall
<1>22. CASE RecoverStalled
  <2>1. MainType'
    BY <1>22, ReturnType DEF RecoverStalled
  <2>2. StateType'
    BY <1>22, ReturnType DEF RecoverStalled
  <2>3. RetryType'
    <3>1. TimerFollows(0) /\ gen' = gen
      BY <1>22 DEF RecoverStalled
    <3>2. 0 \in 0..gen' /\ gen' <= MaxGen /\ retry' \in 0..gen'
          /\ used' \in BOOLEAN
      BY <1>22 DEF RecoverStalled
    <3> HIDE DEF RetryType
    <3> QED
      BY <3>1, <3>2, TimerType
  <2>4. WorkType'
    BY <1>22 DEF RecoverStalled
  <2>5. SharedType'
    BY <1>22 DEF RecoverStalled
  <2> QED
    BY <2>1, <2>2, <2>3, <2>4, <2>5 DEF TypeOK
<1>23. ASSUME NEW w \in Workers, TimesOut(w) PROVE TypeOK'
  BY <1>23 DEF TimesOut
<1>24. ASSUME NEW w \in Workers, WorkerStarts(w) PROVE TypeOK'
  BY <1>24 DEF WorkerStarts, ShouldCancel, Finishes, Goes, WorkerOnly
<1>25. ASSUME NEW w \in Workers, WorkerPlaces(w) PROVE TypeOK'
  BY <1>25 DEF WorkerPlaces, ShouldCancel, Goes, WorkerOnly
<1>26. ASSUME NEW w \in Workers, WorkerPanics(w) PROVE TypeOK'
  BY <1>26 DEF WorkerPanics, Finishes, Goes, WorkerOnly
<1>27. ASSUME NEW w \in Workers, WorkerChecks(w) PROVE TypeOK'
  BY <1>27 DEF WorkerChecks, ShouldCancel, Goes, WorkerOnly
<1>28. ASSUME NEW w \in Workers, WorkerReadsPolicy(w) PROVE TypeOK'
  BY <1>28 DEF WorkerReadsPolicy, Finishes, Goes, WorkerOnly
<1>29. ASSUME NEW w \in Workers, WorkerRecovers(w) PROVE TypeOK'
  BY <1>29 DEF WorkerRecovers, Finishes, Goes, WorkerOnly
<1>30. CASE ConsoleCancels
  BY <1>30 DEF ConsoleCancels, ConsoleOnly
<1>31. CASE ConsoleInvalidates
  BY <1>31 DEF ConsoleInvalidates, ConsoleOnly
<1>32. CASE ConsoleRestores
  BY <1>32 DEF ConsoleRestores, ConsoleOnly
<1>33. CASE BeginShutdown
  BY <1>33 DEF BeginShutdown, ShutdownStep
<1>34. CASE ShutdownResumesDeferred
  BY <1>34, DeferredType DEF ShutdownResumesDeferred, ShutdownStep
<1>35. CASE ShutdownCancels
  BY <1>35 DEF ShutdownCancels, ShutdownStep
<1>36. CASE ShutdownInvalidates
  BY <1>36 DEF ShutdownInvalidates, ShutdownStep
<1>37. CASE ShutdownRecovers
  BY <1>37 DEF ShutdownRecovers, ShutdownStep
<1>38. CASE ShutdownRecoversAgain
  BY <1>38 DEF ShutdownRecoversAgain, ShutdownStep
<1>39. CASE ProcessExits
  BY <1>39 DEF ProcessExits, ShutdownStep
<1>40. CASE UNCHANGED vars
  BY <1>40 DEF vars
<1> QED
  BY <1>1, <1>2, <1>3, <1>4, <1>5, <1>6, <1>7, <1>8, <1>9, <1>10, <1>11, <1>12,
     <1>13, <1>14, <1>15, <1>16, <1>17, <1>18, <1>19, <1>20, <1>21, <1>22,
     <1>23, <1>24, <1>25, <1>26, <1>27, <1>28, <1>29, <1>30, <1>31, <1>32,
     <1>33, <1>34, <1>35, <1>36, <1>37, <1>38, <1>39, <1>40
  DEF Next, Retries, Applying, TimeOut, Worker, ShuttingDown, Exited

\* Every step of the main thread, of a worker, of a timer and of the console
\* thread keeps the invariant.
LEMMA IInvStep == IInv /\ [Next]_vars => IInv'
<1> SUFFICES ASSUME TypeOK, Safety, [Next]_vars PROVE Safety'
  BY TypeStep DEF IInv, Safety
<1> USE MaxGenIsNat, LayoutsAreNoMarks
<1> USE DEF TypeOK, MainType, StateType, RetryType, WorkType, SharedType,
            Safety, Accounting, Generations, Epochs, Cancelling, Pausing,
            NoTrace, Dirty, Confirmed, SuppressionSeen, Callers, Shutdown,
            MainPcs, WorkerPcs, Screens, Waiting, Ended, vars, mainVars,
            stateVars, retryVars, timerVars, workVars, listVars
<1>1. CASE Event
  BY <1>1 DEF Event, Call
<1>2. CASE DisplayChange
  <2>1. Accounting' /\ Generations' /\ Epochs' /\ Cancelling' /\ Pausing'
    BY <1>2 DEF DisplayChange, Call
  <2>2. NoTrace' /\ SuppressionSeen'
    BY <1>2 DEF DisplayChange, Call
  <2>3. Confirmed'
    BY <1>2 DEF DisplayChange, Call
  <2> QED
    BY <2>1, <2>2, <2>3 DEF Safety
<1>3. CASE Pause
  BY <1>3 DEF Pause
<1>4. CASE Resume
  <2>1. Accounting' /\ Generations' /\ Epochs' /\ Cancelling' /\ Pausing'
    BY <1>4 DEF Resume, Call, ResumeDeferred
  <2>2. NoTrace' /\ SuppressionSeen'
    BY <1>4 DEF Resume, Call, ResumeDeferred
  <2>3. Confirmed'
    BY <1>4 DEF Resume, Call, ResumeDeferred
  <2> QED
    BY <2>1, <2>2, <2>3 DEF Safety
<1>5. CASE ReleaseAllWindows
  <2>1. Accounting' /\ Generations' /\ Epochs' /\ Cancelling' /\ Pausing'
    BY <1>5 DEF ReleaseAllWindows, Reap, Join, Finished
  <2>2. NoTrace' /\ SuppressionSeen'
    BY <1>5 DEF ReleaseAllWindows, Reap, Join, Finished
  <2>3. Confirmed'
    BY <1>5 DEF ReleaseAllWindows, Reap, Join, Finished
  <2> QED
    BY <2>1, <2>2, <2>3 DEF Safety
<1>6. ASSUME NEW g \in 1..MaxGen, RetryStale(g) PROVE Safety'
  BY <1>6 DEF RetryStale
<1>7. ASSUME NEW g \in 1..MaxGen, RetryWhilePaused(g) PROVE Safety'
  BY <1>7 DEF RetryWhilePaused, RetryTaken, RetryMatches, ResumeDeferred
<1>8. ASSUME NEW g \in 1..MaxGen, RetryRuns(g) PROVE Safety'
  <2>1. Accounting' /\ Generations' /\ Epochs' /\ Cancelling' /\ Pausing'
    BY <1>8 DEF RetryRuns, RetryTaken, RetryMatches, Reap, Join, Finished,
       ReapNeedsRecovery
  <2>2. NoTrace' /\ SuppressionSeen'
    BY <1>8 DEF RetryRuns, RetryTaken, RetryMatches, Reap, Join, Finished,
       ReapNeedsRecovery
  <2>3. Confirmed'
    BY <1>8 DEF RetryRuns, RetryTaken, RetryMatches, Reap, Join, Finished,
       ReapNeedsRecovery
  <2> QED
    BY <2>1, <2>2, <2>3 DEF Safety
<1>9. ASSUME NEW g \in 1..MaxGen, TimerExpires(g) PROVE Safety'
  BY <1>9 DEF TimerExpires, Alive
<1>10. CASE ApplyReaps
  BY <1>10 DEF ApplyReaps, Reap, Join, Finished, ReapNeedsRecovery
<1>11. CASE ApplySkips
  <2>1. Accounting' /\ Generations' /\ Epochs' /\ Cancelling' /\ Pausing'
    BY <1>11 DEF ApplySkips, Skips, Return, TimerFollows
  <2>2. NoTrace' /\ SuppressionSeen'
    BY <1>11 DEF ApplySkips, Skips, Return, TimerFollows
  <2>3. Confirmed'
    BY <1>11 DEF ApplySkips, Skips, Return, TimerFollows
  <2> QED
    BY <2>1, <2>2, <2>3 DEF Safety
<1>12. CASE ApplyFastPath
  <2>1. Accounting' /\ Generations' /\ Epochs' /\ Cancelling' /\ Pausing'
    BY <1>12 DEF ApplyFastPath, Skips, Unchanged, Succeeded, Return,
       TimerFollows
  <2>2. NoTrace' /\ SuppressionSeen'
    BY <1>12 DEF ApplyFastPath, Skips, Unchanged, Succeeded, Return,
       TimerFollows
  <2>3. Confirmed'
    BY <1>12 DEF ApplyFastPath, Skips, Unchanged, Succeeded, Return,
       TimerFollows
  <2> QED
    BY <2>1, <2>2, <2>3 DEF Safety
<1>13. CASE SpawnFails
  BY <1>13 DEF SpawnFails, Skips, Abandon, Return, TimerFollows
<1>14. ASSUME NEW w \in Workers, Spawn(w) PROVE Safety'
  BY <1>14 DEF Spawn, Skips
<1>15. ASSUME NEW w \in Workers, ReceiveOk(w) PROVE Safety'
  <2>1. Accounting' /\ Generations' /\ Epochs' /\ Cancelling' /\ Pausing'
    BY <1>15 DEF ReceiveOk, Answered, Join, Succeeded, Return, TimerFollows
  <2>2. NoTrace' /\ SuppressionSeen'
    BY <1>15 DEF ReceiveOk, Answered, Join, Succeeded, Return, TimerFollows
  <2>3. Confirmed'
    BY <1>15 DEF ReceiveOk, Answered, Join, Succeeded, Return, TimerFollows
  <2> QED
    BY <2>1, <2>2, <2>3 DEF Safety
<1>16. ASSUME NEW w \in Workers, ReceiveAndReapply(w) PROVE Safety'
  BY <1>16 DEF ReceiveAndReapply, Answered, Join
<1>17. ASSUME NEW w \in Workers, ReceiveError(w) PROVE Safety'
  <2>1. Accounting' /\ Generations' /\ Epochs' /\ Cancelling' /\ Pausing'
    BY <1>17 DEF ReceiveError, Answered, Join, Abandon, Return, TimerFollows
  <2>2. NoTrace' /\ SuppressionSeen'
    BY <1>17 DEF ReceiveError, Answered, Join, Abandon, Return, TimerFollows
  <2>3. Confirmed'
    BY <1>17 DEF ReceiveError, Answered, Join, Abandon, Return, TimerFollows
  <2> QED
    BY <2>1, <2>2, <2>3 DEF Safety
<1>18. CASE Publish
  <2>1. Accounting' /\ Generations' /\ Epochs' /\ Cancelling' /\ Pausing'
    BY <1>18 DEF Publish, DefersToRetry
  <2>2. NoTrace' /\ SuppressionSeen'
    BY <1>18 DEF Publish, DefersToRetry
  <2>3. Confirmed'
    BY <1>18 DEF Publish, DefersToRetry
  <2> QED
    BY <2>1, <2>2, <2>3 DEF Safety
<1>19. CASE InvalidateAndDefer
  <2>1. Accounting' /\ Generations' /\ Epochs' /\ Cancelling' /\ Pausing'
    BY <1>19 DEF InvalidateAndDefer, Invalidate, Abandon, DefersToRetry,
       Return, TimerFollows
  <2>2. NoTrace' /\ SuppressionSeen'
    BY <1>19 DEF InvalidateAndDefer, Invalidate, Abandon, DefersToRetry,
       Return, TimerFollows
  <2>3. Confirmed'
    BY <1>19 DEF InvalidateAndDefer, Invalidate, Abandon, DefersToRetry,
       Return, TimerFollows
  <2> QED
    BY <2>1, <2>2, <2>3 DEF Safety
<1>20. CASE InvalidateAndStall
  <2>1. Accounting' /\ Generations' /\ Epochs' /\ Cancelling' /\ Pausing'
    BY <1>20 DEF InvalidateAndStall, Invalidate, Abandon
  <2>2. NoTrace' /\ SuppressionSeen'
    BY <1>20 DEF InvalidateAndStall, Invalidate, Abandon
  <2>3. Confirmed'
    BY <1>20 DEF InvalidateAndStall, Invalidate, Abandon
  <2> QED
    BY <2>1, <2>2, <2>3 DEF Safety
<1>21. CASE Stall
  BY <1>21 DEF Stall, ResumeDeferred
<1>22. CASE RecoverStalled
  <2>1. Accounting' /\ Generations' /\ Epochs' /\ Cancelling' /\ Pausing'
    BY <1>22 DEF RecoverStalled, Return, TimerFollows
  <2>2. NoTrace' /\ SuppressionSeen'
    BY <1>22 DEF RecoverStalled, Return, TimerFollows
  <2>3. Confirmed'
    BY <1>22 DEF RecoverStalled, Return, TimerFollows
  <2> QED
    BY <2>1, <2>2, <2>3 DEF Safety
<1>23. ASSUME NEW w \in Workers, TimesOut(w) PROVE Safety'
  BY <1>23 DEF TimesOut
<1>24. ASSUME NEW w \in Workers, WorkerStarts(w) PROVE Safety'
  BY <1>24 DEF WorkerStarts, ShouldCancel, Finishes, Goes, WorkerOnly
<1>25. ASSUME NEW w \in Workers, WorkerPlaces(w) PROVE Safety'
  BY <1>25 DEF WorkerPlaces, ShouldCancel, Goes, WorkerOnly
<1>26. ASSUME NEW w \in Workers, WorkerPanics(w) PROVE Safety'
  BY <1>26 DEF WorkerPanics, Finishes, Goes, WorkerOnly
<1>27. ASSUME NEW w \in Workers, WorkerChecks(w) PROVE Safety'
  BY <1>27 DEF WorkerChecks, ShouldCancel, Goes, WorkerOnly
<1>28. ASSUME NEW w \in Workers, WorkerReadsPolicy(w) PROVE Safety'
  BY <1>28 DEF WorkerReadsPolicy, Finishes, Goes, WorkerOnly
<1>29. ASSUME NEW w \in Workers, WorkerRecovers(w) PROVE Safety'
  BY <1>29 DEF WorkerRecovers, Finishes, Goes, WorkerOnly
<1>30. CASE ConsoleCancels
  BY <1>30 DEF ConsoleCancels, ConsoleOnly
<1>31. CASE ConsoleInvalidates
  BY <1>31 DEF ConsoleInvalidates, ConsoleOnly
<1>32. CASE ConsoleRestores
  BY <1>32 DEF ConsoleRestores, ConsoleOnly
<1>33. CASE BeginShutdown
  BY <1>33 DEF BeginShutdown, ShutdownStep
<1>34. CASE ShutdownResumesDeferred
  BY <1>34 DEF ShutdownResumesDeferred, ShutdownStep, ResumeDeferred
<1>35. CASE ShutdownCancels
  BY <1>35 DEF ShutdownCancels, ShutdownStep
<1>36. CASE ShutdownInvalidates
  BY <1>36 DEF ShutdownInvalidates, ShutdownStep
<1>37. CASE ShutdownRecovers
  BY <1>37 DEF ShutdownRecovers, ShutdownStep
<1>38. CASE ShutdownRecoversAgain
  BY <1>38 DEF ShutdownRecoversAgain, ShutdownStep
<1>39. CASE ProcessExits
  BY <1>39 DEF ProcessExits, ShutdownStep
<1>40. CASE UNCHANGED vars
  BY <1>40 DEF vars
<1> QED
  BY <1>1, <1>2, <1>3, <1>4, <1>5, <1>6, <1>7, <1>8, <1>9, <1>10, <1>11, <1>12,
     <1>13, <1>14, <1>15, <1>16, <1>17, <1>18, <1>19, <1>20, <1>21, <1>22,
     <1>23, <1>24, <1>25, <1>26, <1>27, <1>28, <1>29, <1>30, <1>31, <1>32,
     <1>33, <1>34, <1>35, <1>36, <1>37, <1>38, <1>39, <1>40
  DEF Next, Retries, Applying, TimeOut, Worker, ShuttingDown, Exited

\* The inductive invariant holds of every behaviour.
THEOREM Invariance == Spec => []IInv
<1>1. Init => IInv
  <2> SUFFICES ASSUME Init PROVE IInv
    OBVIOUS
  <2>1. MainType /\ StateType /\ SharedType
    BY DEF Init, MainType, StateType, SharedType, MainPcs, Callers, Screens
  <2>2. RetryType
    <3>1. used \in BOOLEAN /\ ticking = {} /\ due = {}
      BY Zenon DEF Init
    <3>2. gen \in 0..MaxGen /\ retry \in 0..gen /\ timer \in 0..gen
      BY MaxGenIsNat DEF Init
    <3> QED
      BY <3>1, <3>2 DEF RetryType
  <2>3. WorkType
    BY DEF Init, WorkType, WorkerPcs
  <2>4. Safety
    BY DEF Init, Safety, Accounting, Generations, Epochs, Cancelling, Pausing,
           NoTrace, Confirmed, SuppressionSeen, Shutdown, Waiting, Ended
  <2> QED
    BY <2>1, <2>2, <2>3, <2>4 DEF IInv, TypeOK
<1> QED
  BY <1>1, IInvStep, PTL DEF Spec

\* Types: retries, timers and their messages belong to generations given out.
THEOREM TypeCorrect == Spec => []TypeOK
  BY Invariance, PTL DEF IInv

\* Never two threads placing windows (pending_apply_workers).
THEOREM OneWorkerHolds == Spec => []OneWorker
<1>1. IInv => OneWorker
  BY DEF IInv, Safety, Accounting, OneWorker
<1> QED
  BY <1>1, Invariance, PTL

\* After a timeout has paused tiling, no late placement stays on the screen.
THEOREM StalledRecoveredHolds == Spec => []StalledRecovered
<1>1. IInv => StalledRecovered
  BY DEF IInv, Safety, NoTrace, Dirty, TypeOK, WorkType, StalledRecovered,
         Settled, Shutdown
<1> QED
  BY <1>1, Invariance, PTL

\* The unchanged-layout fast path skips only what is on the screen.
THEOREM FastPathSoundHolds == Spec => []FastPathSound
<1>1. IInv => FastPathSound
  BY LayoutsAreNoMarks
  DEF IInv, Safety, Confirmed, TypeOK, StateType, SharedType, FastPathSound,
      Unchanged, Waiting, Shutdown
<1> QED
  BY <1>1, Invariance, PTL

\* A worker left to the retry does not recover by itself.
THEOREM SuppressionSeenHolds == Spec => []SuppressionSeen
  BY Invariance, PTL DEF IInv, Safety

\* No placement outlives the process's last recovery.
THEOREM ExitRecoveredHolds == Spec => []ExitRecovered
<1>1. IInv => ExitRecovered
  BY DEF IInv, Safety, NoTrace, Dirty, TypeOK, WorkType, ExitRecovered, Settled
<1> QED
  BY <1>1, Invariance, PTL

\* A retry is run by its own message only.
THEOREM RetryOnTimeHolds == Spec => RetryOnTime
<1>1. [Next]_vars =>
        [(retry # 0 /\ caller' = "retry" /\ caller # "retry") => retry \in due]_vars
  <2> SUFFICES ASSUME [Next]_vars, caller' = "retry", caller # "retry", retry # 0
               PROVE  retry \in due
    BY DEF vars, mainVars
  <2>1. CASE \E g \in 1..MaxGen : RetryRuns(g)
    BY <2>1 DEF RetryRuns, RetryTaken, RetryMatches
  <2>2. CASE \E g \in 1..MaxGen :
               RetryStale(g) \/ RetryWhilePaused(g) \/ TimerExpires(g)
    BY <2>2 DEF RetryStale, RetryWhilePaused, TimerExpires, mainVars
  <2>3. CASE \/ Event \/ DisplayChange \/ Pause \/ Resume \/ ReleaseAllWindows
    BY <2>3 DEF Event, DisplayChange, Pause, Resume, ReleaseAllWindows, Call,
       mainVars
  <2>4. CASE Applying
    BY <2>4 DEF Applying, ApplyReaps, ApplySkips, ApplyFastPath, SpawnFails,
       Spawn,
                ReceiveOk, ReceiveAndReapply, ReceiveError, Publish, InvalidateAndDefer,
                InvalidateAndStall, Stall, RecoverStalled, Succeeded, Return
  <2>5. CASE TimeOut \/ \E w \in Workers : Worker(w)
    BY <2>5 DEF TimeOut, TimesOut, Worker, WorkerStarts, WorkerPlaces,
       WorkerPanics,
                WorkerChecks, WorkerReadsPolicy, WorkerRecovers, WorkerOnly, mainVars
  <2>6. CASE \/ ConsoleCancels \/ ConsoleInvalidates \/ ConsoleRestores
             \/ BeginShutdown \/ ShuttingDown
    BY <2>6 DEF ConsoleCancels, ConsoleInvalidates, ConsoleRestores,
       ConsoleOnly,
                BeginShutdown, ShuttingDown, ShutdownResumesDeferred, ShutdownCancels,
                ShutdownInvalidates, ShutdownRecovers, ShutdownRecoversAgain,
                ProcessExits, ShutdownStep, mainVars
  <2>7. CASE Exited \/ UNCHANGED vars
    BY <2>7 DEF Exited, vars, mainVars
  <2> QED
    BY <2>1, <2>2, <2>3, <2>4, <2>5, <2>6, <2>7 DEF Next, Retries
<1> QED
  BY <1>1, PTL DEF Spec, RetryOnTime

(***************************************************************************)
(* The placement mover.                                                    *)
(***************************************************************************)
Working(w) == pc # "idle" /\ job.window = w

JobType ==
    [window : Windows, lifetime : 1..MaxMarks, generation : 1..MaxMarks,
     correction : SUBSET M!Corrections, target : SUBSET Targets,
     moved : BOOLEAN, retry : BOOLEAN, completed : BOOLEAN]

MoverTypes ==
    /\ slots \in [Windows -> M!Slot] /\ ready \in Seq(Windows)
    /\ next_generation \in 0..MaxMarks
    /\ pc \in {"idle", "picked", "recover", "move", "finish"}
    /\ pc = "idle" => in_flight = {}
    /\ waiting \subseteq Windows /\ stale \subseteq Windows
    /\ at \in [Windows -> M!Places] /\ goal \in [Windows -> Targets \cup {"any"}]
    /\ late \subseteq Windows /\ held \subseteq Windows
    /\ observed \subseteq [window : Windows, to : Targets, rect : M!Places]
    /\ frame \subseteq [Windows -> 0..MaxMarks]
    /\ \A w \in Windows, f \in frame : f[w] <= next_generation

\* The thread works on one window, with one target or one correction, for a
\* slot that can only have become newer since: with a correction or a cancel.
JobFits ==
    pc # "idle" =>
      /\ job \in JobType /\ in_flight = {<<job.window, job.lifetime>>}
      /\ \/ job.correction = {} /\ \E t \in Targets : job.target = {t}
         \/ job.target = {} /\ \E c \in M!Corrections : job.correction = {c}
      /\ job.lifetime <= next_generation /\ job.generation <= next_generation
      /\ slots[job.window].lifetime = job.lifetime =>
           job.generation <= slots[job.window].generation
      /\ M!IsCurrent => slots[job.window].correction = {}
      /\ slots[job.window].lifetime = job.lifetime /\ slots[job.window].correction = {} =>
           \/ slots[job.window].generation = job.generation
           \/ slots[job.window].generation = slots[job.window].cancelled
      /\ pc \in {"recover", "move"} => job.moved = TRUE
      /\ job.completed = TRUE => /\ pc = "finish" /\ job.correction # {}
                                 /\ M!Destination # "recover"
                                 /\ at[job.window] = M!Destination
      /\ job.retry = TRUE => pc = "finish" /\ job.correction # {}

Queue ==
    /\ IsInjective(ready)
    /\ \A w \in Range(ready) : M!HasWork(slots[w])
    /\ \A w \in Windows : M!HasWork(slots[w]) => w \in Range(ready) \/ M!InFlight(w)

SlotFits(w) ==
    /\ slots[w].lifetime <= slots[w].generation
    /\ slots[w].cancelled <= slots[w].generation
    /\ slots[w].generation <= next_generation
    /\ \A c, d \in slots[w].correction : c = d
    /\ \A t, u \in slots[w].pending : t = u
    /\ slots[w].lifetime = 0 => slots[w] = M!NoSlot

\* What was asked for last is in the slot, with the thread or on the screen.
Promised(w) ==
    IF slots[w].pending # {} THEN slots[w].pending = {goal[w]}
    ELSE \/ goal[w] = "any"
         \/ /\ slots[w].correction # {}
            /\ \A c \in slots[w].correction : c.to = goal[w]
         \/ /\ slots[w].correction = {} /\ Working(w) /\ M!IsCurrent
            /\ IF pc = "finish" /\ job.retry = FALSE THEN at[w] = goal[w]
               ELSE M!Destination = goal[w]
         \/ slots[w].correction = {} /\ ~Working(w) /\ at[w] = goal[w]

\* A correction that was completed is still where it was put.
Completed(w) ==
    slots[w].completed # {} =>
        IF Working(w) THEN M!IsCurrent ELSE slots[w].completed = {at[w]}

\* Who is to undo a late move, or to follow it.
Recovers(w) ==
    \/ slots[w].correction # {}
    \/ /\ Working(w) /\ job.correction # {} /\ M!IsCurrent
       /\ pc = "finish" => job.retry = TRUE
    \/ /\ Working(w) /\ pc = "finish" /\ job.moved = TRUE
       /\ slots[w].lifetime = job.lifetime
       /\ slots[w].cancelled > job.generation /\ slots[w].generation = slots[w].cancelled

WindowFits(w) ==
    /\ Promised(w) /\ Completed(w)
    /\ w \in late => Recovers(w)
    /\ w \in held => M!Quiet(w)
    /\ w \in stale /\ M!Marked(w) => \A f \in frame : f[w] < slots[w].generation

MoverInv ==
    /\ MoverTypes /\ JobFits /\ Queue
    /\ \A w \in Windows : SlotFits(w) /\ WindowFits(w)

\* What the invariant says of the queue is what PlacementMover says of it.
LEMMA QueueIsSound == MoverInv => M!QueueSound
<1> SUFFICES ASSUME MoverInv PROVE M!QueueSound
  OBVIOUS
<1>1. ready \in Seq(Windows) /\ DOMAIN ready = 1..Len(ready)
  BY LenProperties DEF MoverInv, MoverTypes
<1>2. M!WorkIsQueued
  BY <1>1 DEF MoverInv, Queue, M!WorkIsQueued, M!IsInjective, IsInjective, M!Contains, Range
<1>3. in_flight \subseteq Windows \X (1..MaxMarks) /\ (in_flight = {} <=> pc = "idle")
  <2>1. pc = "idle" => in_flight = {}
    BY DEF MoverInv, MoverTypes
  <2>2. ASSUME pc # "idle"
        PROVE  /\ job.window \in Windows /\ job.lifetime \in 1..MaxMarks
               /\ in_flight = {<<job.window, job.lifetime>>}
    BY <2>2 DEF MoverInv, JobFits, JobType
  <2>3. ASSUME pc # "idle"
        PROVE  in_flight # {} /\ in_flight \subseteq Windows \X (1..MaxMarks)
    <3>1. <<job.window, job.lifetime>> \in Windows \X (1..MaxMarks)
      BY <2>2, <2>3
    <3> QED
      BY <2>2, <2>3, <3>1
  <2> QED
    BY <2>1, <2>3
<1>4. M!TypeOK
  BY <1>3 DEF M!TypeOK, MoverInv, MoverTypes, SlotFits
<1> QED
  BY <1>2, <1>4 DEF M!QueueSound

LEMMA MoverImplies == MoverInv => MoverTracks
<1> SUFFICES ASSUME MoverInv PROVE MoverTracks
  OBVIOUS
<1>1. ASSUME NEW w \in Windows, M!Quiet(w)
      PROVE  slots[w].pending = {} /\ slots[w].correction = {} /\ ~Working(w)
  <2>1. Working(w) => in_flight = {<<w, job.lifetime>>}
    BY DEF Working, MoverInv, JobFits
  <2>2. ASSUME in_flight = {<<w, job.lifetime>>} PROVE FALSE
    BY <1>1, <2>2 DEF M!Quiet
  <2> QED
    BY <1>1, <2>1, <2>2 DEF M!Quiet, M!HasWork
<1>2. M!LastTargetWins
  BY <1>1 DEF M!LastTargetWins, MoverInv, WindowFits, Promised
<1>3. M!LateMovesRecovered
  BY <1>1 DEF M!LateMovesRecovered, MoverInv, MoverTypes, WindowFits, Recovers
<1> QED
  BY <1>2, <1>3, QueueIsSound DEF MoverTracks

LEMMA MoverInit == PlacingInit => MoverInv
<1> SUFFICES ASSUME M!Init PROVE MoverInv
  BY DEF PlacingInit
<1>0. MaxMarks \in Nat
  BY PlacingAssumption DEF M!PlacementMoverAssumption
<1>1. M!NoSlot \in M!Slot
  BY <1>0 DEF M!NoSlot, M!Slot
<1>2. MoverTypes
  BY <1>0, <1>1, EmptySeq DEF M!Init, MoverTypes, M!Places
<1>3. JobFits /\ Queue
  BY <1>1 DEF M!Init, JobFits, Queue, IsInjective, Range, M!HasWork, M!NoSlot
<1>4. \A w \in Windows : SlotFits(w) /\ WindowFits(w)
  BY <1>0, <1>1 DEF M!Init, SlotFits, WindowFits, Promised, Completed, M!NoSlot, M!Marked, Working
<1> QED
  BY <1>2, <1>3, <1>4 DEF MoverInv

(***************************************************************************)
(* What the steps do to the queue, to a slot and to the work in hand.      *)
(***************************************************************************)
LEMMA QueueTyped ==
    MoverInv => ready \in Seq(Windows) /\ IsInjective(ready) /\ Range(ready) \subseteq Windows
BY SeqDef DEF MoverInv, MoverTypes, Queue, Range

\* A window leaves the queue, or goes to its end; several leave it.
LEMMA QueueEdits ==
    ASSUME MoverInv, NEW w \in Windows
    PROVE  /\ M!Without(w) \in Seq(Windows) /\ IsInjective(M!Without(w))
           /\ Range(M!Without(w)) = Range(ready) \ {w}
           /\ Append(M!Without(w), w) \in Seq(Windows) /\ IsInjective(Append(M!Without(w), w))
           /\ Range(Append(M!Without(w), w)) = Range(ready) \cup {w}
<1>1. ready \in Seq(Windows) /\ IsInjective(ready) /\ Range(ready) \subseteq Windows
  BY QueueTyped
<1>2. M!Without(w) = Retained(ready, Windows \ {w})
  BY DEF M!Without, M!Retained, M!Kept, Retained, Kept
<1>3. /\ M!Without(w) \in Seq(Windows) /\ IsInjective(M!Without(w))
      /\ Range(M!Without(w)) = Range(ready) \ {w}
  BY <1>1, <1>2, RetainedProperties
<1> QED
  BY <1>3, AppendRange

LEMMA QueueWithout ==
    ASSUME MoverInv, NEW ws \in SUBSET Windows
    PROVE  LET q == M!Retained(ready, Windows \ ws)
           IN  q \in Seq(Windows) /\ IsInjective(q) /\ Range(q) = Range(ready) \ ws
<1>1. ready \in Seq(Windows) /\ IsInjective(ready) /\ Range(ready) \subseteq Windows
  BY QueueTyped
<1> DEFINE q == M!Retained(ready, Windows \ ws)
<1>2. q = Retained(ready, Windows \ ws)
  BY DEF M!Retained, M!Kept, Retained, Kept
<1> HIDE DEF q
<1>3. q \in Seq(Windows) /\ IsInjective(q) /\ Range(q) = Range(ready) \cap (Windows \ ws)
  BY <1>1, <1>2, RetainedProperties
<1>4. Range(ready) \cap (Windows \ ws) = Range(ready) \ ws
  BY <1>1
<1> QED
  BY <1>3, <1>4 DEF q

LEMMA QueueTail ==
    ASSUME MoverInv, ready # <<>>
    PROVE  /\ Head(ready) \in Windows /\ Head(ready) \in Range(ready)
           /\ Tail(ready) \in Seq(Windows) /\ IsInjective(Tail(ready))
           /\ Range(Tail(ready)) = Range(ready) \ {Head(ready)}
<1> DEFINE q == ready
           t == Tail(ready)
<1>1. q \in Seq(Windows) /\ IsInjective(q)
  BY DEF MoverInv, MoverTypes, Queue
<1>2. /\ Head(q) = q[1] /\ t \in Seq(Windows) /\ Len(t) = Len(q) - 1
      /\ Len(q) \in Nat /\ Len(q) # 0 /\ DOMAIN q = 1..Len(q) /\ DOMAIN t = 1..Len(t)
      /\ \A i \in 1..Len(t) : t[i] = q[i + 1]
  BY <1>1, HeadTailProperties, LenProperties, EmptySeq
<1> HIDE DEF q, t
<1>3. 1 \in DOMAIN q /\ q[1] \in Windows /\ q[1] \in Range(q)
  BY <1>1, <1>2, ElementOfSeq DEF Range
<1>4. IsInjective(t)
  <2> SUFFICES ASSUME NEW i \in DOMAIN t, NEW j \in DOMAIN t, t[i] = t[j] PROVE i = j
    BY DEF IsInjective
  <2>1. i + 1 \in DOMAIN q /\ j + 1 \in DOMAIN q /\ q[i + 1] = q[j + 1]
    BY <1>2
  <2>2. i + 1 = j + 1
    BY <1>1, <2>1 DEF IsInjective
  <2> QED
    BY <1>2, <2>2
<1>5. Range(t) \subseteq Range(q) \ {q[1]}
  <2> SUFFICES ASSUME NEW i \in DOMAIN t PROVE t[i] \in Range(q) /\ t[i] # q[1]
    BY DEF Range
  <2>1. i + 1 \in DOMAIN q /\ i + 1 # 1 /\ t[i] = q[i + 1]
    BY <1>2
  <2> QED
    BY <1>1, <1>3, <2>1 DEF Range, IsInjective
<1>6. Range(q) \ {q[1]} \subseteq Range(t)
  <2> SUFFICES ASSUME NEW i \in DOMAIN q, q[i] # q[1] PROVE q[i] \in Range(t)
    BY DEF Range
  <2>1. i - 1 \in DOMAIN t /\ (i - 1) + 1 = i
    BY <1>2
  <2> QED
    BY <1>2, <2>1 DEF Range
<1> QED
  BY <1>2, <1>3, <1>4, <1>5, <1>6 DEF q, t

\* One slot is written.
LEMMA OneSlot ==
    ASSUME MoverInv, NEW w \in Windows, NEW new \in M!Slot, slots' = [slots EXCEPT ![w] = new]
    PROVE  /\ slots' \in [Windows -> M!Slot] /\ slots'[w] = new
           /\ \A v \in Windows \ {w} : slots'[v] = slots[v]
BY DEF MoverInv, MoverTypes

\* A window nobody touched.
LEMMA Untouched ==
    ASSUME NEW v \in Windows, SlotFits(v), WindowFits(v),
           slots'[v] = slots[v], goal'[v] = goal[v], at'[v] = at[v],
           v \in late' => v \in late, v \in held' => v \in held, v \in stale' => v \in stale,
           stale' = {} \/ frame' = frame, next_generation \in Nat, next_generation' \in Nat,
           slots[v].generation \in Nat, next_generation <= next_generation',
           \/ UNCHANGED <<pc, job, in_flight>>
           \/ ~Working(v) /\ ~Working(v)' /\ \A f \in in_flight' : f[1] # v
    PROVE  SlotFits(v)' /\ WindowFits(v)'
<1>1. SlotFits(v)'
  BY DEF SlotFits
<1>2. CASE UNCHANGED <<pc, job, in_flight>>
  <2>1. Working(v)' = Working(v) /\ (Working(v) => M!IsCurrent' = M!IsCurrent)
        /\ M!Destination' = M!Destination
    BY <1>2 DEF Working, M!IsCurrent, M!Destination
  <2>2. Promised(v)'
    BY <1>2, <2>1 DEF WindowFits, Promised
  <2>3. Completed(v)'
    BY <1>2, <2>1 DEF WindowFits, Completed
  <2>4. v \in late' => Recovers(v)'
    BY <1>2, <2>1 DEF WindowFits, Recovers
  <2>5. v \in held' => M!Quiet(v)'
    BY <1>2 DEF WindowFits, M!Quiet, M!HasWork
  <2>6. v \in stale' /\ M!Marked(v)' => \A f \in frame' : f[v] < slots'[v].generation
    BY DEF WindowFits, M!Marked
  <2> QED
    BY <1>1, <2>2, <2>3, <2>4, <2>5, <2>6 DEF WindowFits
<1>3. CASE ~Working(v) /\ ~Working(v)' /\ \A f \in in_flight' : f[1] # v
  <2>2. Promised(v)'
    BY <1>3 DEF WindowFits, Promised
  <2>3. Completed(v)'
    BY <1>3 DEF WindowFits, Completed
  <2>4. v \in late' => Recovers(v)'
    BY <1>3 DEF WindowFits, Recovers
  <2>5. v \in held' => M!Quiet(v)'
    BY <1>3 DEF WindowFits, M!Quiet, M!HasWork
  <2>6. v \in stale' /\ M!Marked(v)' => \A f \in frame' : f[v] < slots'[v].generation
    BY DEF WindowFits, M!Marked
  <2> QED
    BY <1>1, <2>2, <2>3, <2>4, <2>5, <2>6 DEF WindowFits
<1> QED
  BY <1>2, <1>3

\* The thread's work when a caller changes its slot, or does not.
LEMMA JobKept ==
    ASSUME MoverInv, UNCHANGED <<pc, job, in_flight, at>>,
           next_generation' \in Nat, next_generation <= next_generation',
           \A w \in Windows :
              \/ slots'[w].lifetime = 0
              \/ slots'[w].lifetime > next_generation
              \/ /\ slots'[w].generation > next_generation /\ slots'[w].generation \in Nat
                 /\ slots'[w].correction = {} => slots'[w].cancelled = slots'[w].generation
              \/ /\ slots'[w].lifetime = slots[w].lifetime
                 /\ slots'[w].generation = slots[w].generation
                 /\ slots'[w].cancelled = slots[w].cancelled
                 /\ slots'[w].correction = slots[w].correction
    PROVE  JobFits'
<1> SUFFICES ASSUME pc # "idle" PROVE JobFits'
  BY DEF JobFits
<1>1. /\ job \in JobType /\ in_flight = {<<job.window, job.lifetime>>}
      /\ job.lifetime <= next_generation /\ job.generation <= next_generation
      /\ next_generation \in Nat /\ job.window \in Windows
      /\ job.lifetime \in Nat \ {0} /\ job.generation \in Nat
  BY PlacingAssumption DEF MoverInv, MoverTypes, JobFits, JobType, M!PlacementMoverAssumption
<1>2. slots'[job.window].lifetime = job.lifetime => job.generation <= slots'[job.window].generation
  BY <1>1 DEF MoverInv, JobFits
<1>3. M!IsCurrent' => slots'[job.window].correction = {}
  BY <1>1 DEF MoverInv, JobFits, M!IsCurrent
<1>4. M!Destination' = M!Destination
  BY DEF M!Destination
<1>5. slots'[job.window].lifetime = job.lifetime /\ slots'[job.window].correction = {} =>
        \/ slots'[job.window].generation = job.generation
        \/ slots'[job.window].generation = slots'[job.window].cancelled
  BY <1>1 DEF MoverInv, JobFits
<1> QED
  BY <1>1, <1>2, <1>3, <1>4, <1>5 DEF MoverInv, JobFits

(***************************************************************************)
(* The callers.                                                            *)
(***************************************************************************)
\* Nothing but what the callers keep for themselves.
LEMMA MoverRests ==
    ASSUME MoverInv, UNCHANGED <<slots, ready, next_generation, pc, job, in_flight, at, goal, late>>,
           waiting' \subseteq Windows, stale' \subseteq Windows, held' \subseteq Windows,
           observed' \subseteq [window : Windows, to : Targets, rect : M!Places],
           \/ stale' = {} /\ frame' \subseteq [Windows -> 0..MaxMarks]
                          /\ \A w \in Windows, f \in frame' : f[w] <= next_generation
           \/ stale' \subseteq stale /\ frame' = frame,
           \A w \in held' : w \in held \/ M!Quiet(w)
    PROVE  MoverInv'
<1>1. MoverTypes'
  BY DEF MoverInv, MoverTypes
<1>2. JobFits' /\ Queue'
  BY DEF MoverInv, JobFits, Queue, M!IsCurrent, M!Destination, M!InFlight
<1>3. ASSUME NEW w \in Windows PROVE SlotFits(w)' /\ WindowFits(w)'
  <2>1. SlotFits(w) /\ WindowFits(w)
    BY DEF MoverInv
  <2>2. SlotFits(w)'
    BY <2>1 DEF SlotFits
  <2>3. Promised(w)' /\ Completed(w)'
    BY <2>1 DEF WindowFits, Promised, Completed, Working, M!IsCurrent, M!Destination
  <2>4. w \in late' => Recovers(w)'
    BY <2>1 DEF WindowFits, Recovers, Working, M!IsCurrent
  <2>5. w \in held' => M!Quiet(w)'
    BY <2>1 DEF WindowFits, M!Quiet
  <2>6. w \in stale' /\ M!Marked(w)' => \A f \in frame' : f[w] < slots'[w].generation
    BY <2>1 DEF WindowFits, M!Marked
  <2> QED
    BY <2>2, <2>3, <2>4, <2>5, <2>6 DEF WindowFits
<1> QED
  BY <1>1, <1>2, <1>3 DEF MoverInv

LEMMA Observing ==
    ASSUME MoverInv,
           \/ \E w \in Windows, t \in Targets : M!SealObserves(w, t)
           \/ \E s \in observed : M!SealUnmarked(s)
           \/ M!FramePrepared \/ M!CancelReturns \/ M!CancelTimesOut
    PROVE  MoverInv'
<1>0. MoverTypes
  BY DEF MoverInv
<1>1. CASE \E w \in Windows, t \in Targets : M!SealObserves(w, t)
  BY <1>0, <1>1, MoverRests DEF M!SealObserves, MoverTypes
<1>2. CASE \E s \in observed : M!SealUnmarked(s)
  BY <1>0, <1>2, MoverRests DEF M!SealUnmarked, MoverTypes
<1>3. CASE M!FramePrepared
  <2> DEFINE f == [w \in Windows |-> slots[w].generation]
  <2>1. f \in [Windows -> 0..MaxMarks]
    BY <1>0 DEF MoverTypes, M!Slot
  <2>2. \A w \in Windows : f[w] <= next_generation
    BY DEF MoverInv, SlotFits
  <2>3. frame' = {f} /\ stale' = {}
    BY <1>3 DEF M!FramePrepared
  <2> HIDE DEF f
  <2> QED
    BY <1>0, <1>3, <2>1, <2>2, <2>3, MoverRests DEF M!FramePrepared, MoverTypes
<1>4. CASE M!CancelReturns
  BY <1>0, <1>4, MoverRests DEF M!CancelReturns, MoverTypes
<1>5. CASE M!CancelTimesOut
  BY <1>0, <1>5, MoverRests DEF M!CancelTimesOut, MoverTypes
<1> QED
  BY <1>1, <1>2, <1>3, <1>4, <1>5

\* The numbers and the slot of a window, as they are typed.
LEMMA SlotTyped ==
    ASSUME MoverInv, NEW w \in Windows
    PROVE  /\ slots[w] \in M!Slot /\ MaxMarks \in Nat /\ next_generation \in 0..MaxMarks
           /\ slots[w].lifetime \in 0..MaxMarks /\ slots[w].generation \in 0..MaxMarks
           /\ slots[w].cancelled \in 0..MaxMarks
           /\ slots[w].pending \in SUBSET Targets /\ slots[w].completed \in SUBSET Targets
           /\ slots[w].correction \in SUBSET M!Corrections
           /\ SlotFits(w) /\ WindowFits(w)
BY PlacingAssumption DEF MoverInv, MoverTypes, M!Slot, M!PlacementMoverAssumption

LEMMA Marking == ASSUME MoverInv, NEW w \in Windows, M!Mark(w) PROVE MoverInv'
<1> DEFINE n == next_generation + 1
           new == [M!NoSlot EXCEPT !.lifetime = n, !.generation = n]
<1>1. /\ slots[w].lifetime = 0 /\ slots[w] = M!NoSlot /\ next_generation < MaxMarks
      /\ next_generation' = n /\ slots' = [slots EXCEPT ![w] = new]
      /\ UNCHANGED <<ready, in_flight, pc, job, observed, frame, waiting, at, goal, late, held, stale>>
  BY SlotTyped DEF M!Mark, M!Marked, SlotFits
<1>2. n \in 1..MaxMarks /\ next_generation < n /\ next_generation \in Nat /\ n \in Nat /\ MaxMarks \in Nat
  BY <1>1, SlotTyped
<1>3. /\ new \in M!Slot /\ new.lifetime = n /\ new.generation = n /\ new.cancelled = 0
      /\ new.pending = {} /\ new.correction = {} /\ new.completed = {}
      /\ slots[w].pending = {} /\ slots[w].correction = {} /\ slots[w].completed = {}
  <2>1. ASSUME NEW s \in M!Slot, NEW a \in 0..MaxMarks
        PROVE  [s EXCEPT !.lifetime = a, !.generation = a] \in M!Slot
    BY DEF M!Slot
  <2>2. ASSUME NEW s \in M!Slot, NEW a \in 0..MaxMarks
        PROVE  LET r == [s EXCEPT !.lifetime = a, !.generation = a]
               IN  /\ r.lifetime = a /\ r.generation = a /\ r.cancelled = s.cancelled
                   /\ r.pending = s.pending /\ r.correction = s.correction
                   /\ r.completed = s.completed
    BY DEF M!Slot
  <2>3. M!NoSlot \in M!Slot /\ n \in 0..MaxMarks
    BY <1>1, <1>2, SlotTyped
  <2>4. /\ M!NoSlot.cancelled = 0 /\ M!NoSlot.pending = {} /\ M!NoSlot.correction = {}
        /\ M!NoSlot.completed = {}
    BY DEF M!NoSlot
  <2> HIDE DEF n
  <2>5. new \in M!Slot
    BY <2>1, <2>3
  <2>6. /\ new.lifetime = n /\ new.generation = n /\ new.cancelled = M!NoSlot.cancelled
        /\ new.pending = M!NoSlot.pending /\ new.correction = M!NoSlot.correction
        /\ new.completed = M!NoSlot.completed
    BY <2>2, <2>3
  <2> QED
    BY <1>1, <2>4, <2>5, <2>6
<1> HIDE DEF new, n
<1>4. /\ slots' \in [Windows -> M!Slot] /\ slots'[w] = new
      /\ \A v \in Windows \ {w} : slots'[v] = slots[v]
  BY <1>1, <1>3, OneSlot
<1>5. MoverTypes'
  BY <1>1, <1>2, <1>4 DEF MoverInv, MoverTypes
<1>6. JobFits'
  BY <1>1, <1>2, <1>3, <1>4, JobKept
<1>7. Queue'
  BY <1>1, <1>3, <1>4 DEF MoverInv, Queue, M!HasWork, M!InFlight
<1>8. \A v \in Windows \ {w} : SlotFits(v)' /\ WindowFits(v)'
  BY <1>1, <1>2, <1>4, Untouched, SlotTyped
<1>9. SlotFits(w)'
  BY <1>2, <1>3, <1>4, <1>1 DEF SlotFits
<1>10. WindowFits(w)'
  <2>1. WindowFits(w) /\ JobFits
    BY DEF MoverInv
  <2>2. Working(w) => ~M!IsCurrent
    BY <1>1 DEF Working, M!IsCurrent, MoverInv, JobFits, JobType
  <2>3. Promised(w)'
    BY <1>1, <1>3, <1>4, <2>1, <2>2 DEF WindowFits, Promised, Working
  <2>4. Completed(w)'
    BY <1>3, <1>4 DEF Completed
  <2>5. w \notin late
    BY <1>1, <1>3, <2>1, <2>2 DEF WindowFits, Recovers, MoverInv, JobFits, JobType, Working
  <2>6. w \in held' => M!Quiet(w)'
    BY <1>1, <1>3, <1>4, <2>1 DEF WindowFits, M!Quiet, M!HasWork
  <2>7. \A f \in frame' : f[w] < slots'[w].generation
    BY <1>1, <1>2, <1>3, <1>4 DEF MoverInv, MoverTypes
  <2> QED
    BY <1>1, <2>3, <2>4, <2>5, <2>6, <2>7 DEF WindowFits
<1> QED
  BY <1>5, <1>6, <1>7, <1>8, <1>9, <1>10 DEF MoverInv

LEMMA Forgetting == ASSUME MoverInv, NEW w \in Windows, M!Forget(w) PROVE MoverInv'
<1>1. /\ slots' = [slots EXCEPT ![w] = M!NoSlot] /\ ready' = M!Without(w)
      /\ goal' = [goal EXCEPT ![w] = "any"] /\ late' = late \ {w} /\ held' = held \ {w}
      /\ UNCHANGED <<next_generation, in_flight, pc, job, observed, frame, waiting, at, stale>>
  BY DEF M!Forget
<1>2. /\ M!NoSlot \in M!Slot /\ M!NoSlot.lifetime = 0 /\ M!NoSlot.generation = 0
      /\ M!NoSlot.cancelled = 0 /\ M!NoSlot.pending = {} /\ M!NoSlot.correction = {}
      /\ M!NoSlot.completed = {}
  BY SlotTyped DEF M!NoSlot, M!Slot
<1>3. /\ slots' \in [Windows -> M!Slot] /\ slots'[w] = M!NoSlot
      /\ \A v \in Windows \ {w} : slots'[v] = slots[v]
  BY <1>1, <1>2, OneSlot
<1>4. next_generation \in Nat /\ MoverTypes
  BY SlotTyped DEF MoverInv
<1>5. goal' \in [Windows -> Targets \cup {"any"}] /\ goal'[w] = "any"
      /\ \A v \in Windows \ {w} : goal'[v] = goal[v]
  BY <1>1, <1>4 DEF MoverTypes
<1>6. MoverTypes'
  BY <1>1, <1>3, <1>4, <1>5, QueueEdits DEF MoverTypes
<1>7. JobFits'
  BY <1>1, <1>2, <1>3, <1>4, JobKept
<1>8. Queue'
  <2>1. ~M!HasWork(slots'[w])
    BY <1>2, <1>3 DEF M!HasWork
  <2>2. \A v \in Windows \ {w} : M!InFlight(v)' = M!InFlight(v)
    BY <1>1, <1>3 DEF M!InFlight
  <2>3. IsInjective(ready') /\ Range(ready') = Range(ready) \ {w} /\ Range(ready) \subseteq Windows
    BY <1>1, QueueTyped, QueueEdits
  <2> QED
    BY <1>3, <2>1, <2>2, <2>3 DEF MoverInv, Queue
<1>9. \A v \in Windows \ {w} : SlotFits(v)' /\ WindowFits(v)'
  BY <1>1, <1>3, <1>4, <1>5, Untouched, SlotTyped
<1>10. SlotFits(w)'
  BY <1>1, <1>2, <1>3, <1>4 DEF SlotFits
<1>11. WindowFits(w)'
  BY <1>1, <1>2, <1>3, <1>5 DEF WindowFits, Promised, Completed, M!Marked
<1> QED
  BY <1>6, <1>7, <1>8, <1>9, <1>10, <1>11 DEF MoverInv

LEMMA Skipping == ASSUME MoverInv, NEW s \in observed, M!SealSkips(s) PROVE MoverInv'
<1> DEFINE w == s.window
<1>1. /\ w \in Windows /\ s.to \in Targets
      /\ slots[w].completed = {s.to} /\ slots[w].pending = {} /\ slots[w].correction = {}
      /\ ~M!InFlight(w) /\ goal' = [goal EXCEPT ![w] = s.to] /\ observed' = {}
      /\ UNCHANGED <<slots, ready, next_generation, in_flight, pc, job, frame, waiting, at, late, held, stale>>
  BY DEF M!SealSkips, M!Landed, M!HasWork, MoverInv, MoverTypes
<1> HIDE DEF w
<1>2. goal' \in [Windows -> Targets \cup {"any"}] /\ goal'[w] = s.to
      /\ \A v \in Windows \ {w} : goal'[v] = goal[v]
  BY <1>1 DEF MoverInv, MoverTypes
<1>3. next_generation \in Nat /\ MoverTypes /\ WindowFits(w) /\ SlotFits(w)
  BY <1>1, SlotTyped DEF MoverInv
<1>4. ~Working(w)
  BY <1>1, <1>3 DEF WindowFits, Completed, Working, M!IsCurrent, M!InFlight, MoverInv, JobFits
<1>5. at[w] = s.to
  BY <1>1, <1>3, <1>4 DEF WindowFits, Completed
<1>6. MoverTypes'
  BY <1>1, <1>2, <1>3 DEF MoverTypes
<1>7. JobFits'
  BY <1>1, <1>3, JobKept
<1>8. Queue'
  BY <1>1 DEF MoverInv, Queue, M!InFlight
<1>9. \A v \in Windows \ {w} : SlotFits(v)' /\ WindowFits(v)'
  BY <1>1, <1>2, <1>3, Untouched, SlotTyped
<1>10. SlotFits(w)'
  BY <1>1, <1>3 DEF SlotFits
<1>11. WindowFits(w)'
  <2>1. Promised(w)' /\ Completed(w)'
    BY <1>1, <1>2, <1>3, <1>4, <1>5 DEF WindowFits, Promised, Completed, Working
  <2> QED
    BY <1>1, <1>3, <2>1 DEF WindowFits, Recovers, Working, M!IsCurrent, M!Quiet, M!Marked
<1> QED
  BY <1>6, <1>7, <1>8, <1>9, <1>10, <1>11 DEF MoverInv

LEMMA Correcting == ASSUME MoverInv, NEW s \in observed, M!SealCorrects(s) PROVE MoverInv'
<1> DEFINE w == s.window
           n == next_generation + 1
           c == [to |-> s.to, tried |-> FALSE]
           new == [slots[w] EXCEPT !.generation = n, !.pending = {}, !.completed = {},
                                   !.correction = {c}]
<1>1. /\ w \in Windows /\ s.to \in Targets /\ slots[w].lifetime # 0
      /\ next_generation < MaxMarks /\ observed' = {} /\ next_generation' = n
      /\ slots' = [slots EXCEPT ![w] = new]
      /\ ready' = IF M!InFlight(w) THEN M!Without(w) ELSE Append(M!Without(w), w)
      /\ goal' = [goal EXCEPT ![w] = s.to] /\ held' = held \ {w}
      /\ UNCHANGED <<in_flight, pc, job, frame, waiting, at, late, stale>>
  <2>1. w \in Windows /\ s.to \in Targets
    BY DEF MoverInv, MoverTypes
  <2>2. slots' = [slots EXCEPT ![w] = new]
    BY DEF M!SealCorrects, MoverInv, MoverTypes
  <2> QED
    BY <2>1, <2>2 DEF M!SealCorrects, M!Marked, M!SealQueues
<1>2. n \in 1..MaxMarks /\ next_generation < n /\ next_generation \in Nat /\ n \in Nat /\ MaxMarks \in Nat
  BY <1>1, SlotTyped
<1>3. c \in M!Corrections /\ c.to = s.to
  BY <1>1 DEF M!Corrections
<1> HIDE DEF c, n, w
<1>4. /\ new \in M!Slot /\ new.lifetime = slots[w].lifetime /\ new.generation = n
      /\ new.cancelled = slots[w].cancelled /\ new.pending = {} /\ new.correction = {c}
      /\ new.completed = {}
  <2>1. slots[w] \in M!Slot /\ n \in 0..MaxMarks
    BY <1>1, <1>2, SlotTyped
  <2>2. ASSUME NEW old \in M!Slot, NEW g \in 0..MaxMarks, NEW cs \in SUBSET M!Corrections
        PROVE  LET r == [old EXCEPT !.generation = g, !.pending = {}, !.completed = {}, !.correction = cs]
               IN  /\ r.lifetime = old.lifetime /\ r.generation = g /\ r.cancelled = old.cancelled
                   /\ r.pending = {} /\ r.correction = cs /\ r.completed = {}
    BY DEF M!Slot
  <2>3. ASSUME NEW old \in M!Slot, NEW g \in 0..MaxMarks, NEW cs \in SUBSET M!Corrections
        PROVE  [old EXCEPT !.generation = g, !.pending = {}, !.completed = {}, !.correction = cs]
                 \in M!Slot
    BY DEF M!Slot
  <2>4. new \in M!Slot
    BY <1>3, <2>1, <2>3
  <2> QED
    BY <1>3, <2>1, <2>2, <2>4
<1> HIDE DEF new
<1>5. /\ slots' \in [Windows -> M!Slot] /\ slots'[w] = new
      /\ \A v \in Windows \ {w} : slots'[v] = slots[v]
  BY <1>1, <1>4, OneSlot
<1>6. goal' \in [Windows -> Targets \cup {"any"}] /\ goal'[w] = s.to
      /\ \A v \in Windows \ {w} : goal'[v] = goal[v]
  BY <1>1 DEF MoverInv, MoverTypes
<1>7. MoverTypes /\ WindowFits(w) /\ SlotFits(w) /\ slots[w].lifetime \in Nat
      /\ slots[w].generation \in Nat /\ slots[w].cancelled \in Nat
  BY <1>1, SlotTyped DEF MoverInv
<1>8. ready' \in Seq(Windows) /\ IsInjective(ready')
      /\ Range(ready') = IF M!InFlight(w) THEN Range(ready) \ {w} ELSE Range(ready) \cup {w}
  BY <1>1, QueueEdits
<1>9. MoverTypes'
  BY <1>1, <1>2, <1>5, <1>6, <1>7, <1>8 DEF MoverTypes
<1>10. JobFits'
  <2>1. slots'[w].generation > next_generation /\ slots'[w].generation \in Nat
        /\ slots'[w].correction # {}
    BY <1>2, <1>4, <1>5
  <2> QED
    BY <1>1, <1>2, <1>5, <2>1, JobKept
<1>11. Queue'
  <2>1. M!HasWork(slots'[w])
    BY <1>4, <1>5 DEF M!HasWork
  <2>2. M!InFlight(w)' = M!InFlight(w)
    BY <1>1, <1>4, <1>5 DEF M!InFlight
  <2> QED
    BY <1>1, <1>5, <1>8, <2>1, <2>2 DEF MoverInv, Queue, M!InFlight
<1>12. \A v \in Windows \ {w} : SlotFits(v)' /\ WindowFits(v)'
  BY <1>1, <1>2, <1>5, <1>6, Untouched, SlotTyped
<1>13. SlotFits(w)'
  BY <1>1, <1>2, <1>4, <1>5, <1>7 DEF SlotFits
<1>14. WindowFits(w)'
  <2>1. Promised(w)'
    BY <1>3, <1>4, <1>5, <1>6 DEF Promised
  <2>2. Completed(w)' /\ Recovers(w)' /\ w \notin held'
    BY <1>1, <1>4, <1>5 DEF Completed, Recovers
  <2>3. w \in stale' /\ M!Marked(w)' => \A f \in frame' : f[w] < slots'[w].generation
    BY <1>1, <1>2, <1>4, <1>5, <1>7 DEF MoverTypes
  <2> QED
    BY <2>1, <2>2, <2>3 DEF WindowFits
<1> QED
  BY <1>9, <1>10, <1>11, <1>12, <1>13, <1>14 DEF MoverInv

LEMMA Submitting ==
    ASSUME MoverInv, NEW w \in Windows, NEW t \in Targets, NEW f \in frame, M!Submit(w, t, f)
    PROVE  MoverInv'
<1> DEFINE new == [slots[w] EXCEPT !.pending = {t}, !.completed = {}]
<1>1. /\ slots[w].lifetime # 0 /\ f[w] = slots[w].generation
      /\ slots' = [slots EXCEPT ![w] = new]
      /\ ready' = IF w \in Range(ready) THEN ready ELSE Append(ready, w)
      /\ goal' = [goal EXCEPT ![w] = t]
      /\ held' = IF w \in stale THEN held ELSE held \ {w}
      /\ UNCHANGED <<next_generation, in_flight, pc, job, observed, frame, waiting, at, late, stale>>
  <2>1. slots' = [slots EXCEPT ![w] = new]
    BY DEF M!Submit, MoverInv, MoverTypes
  <2>2. M!Contains(ready, w) <=> w \in Range(ready)
    BY LenProperties DEF MoverInv, MoverTypes, M!Contains, Range
  <2> QED
    BY <2>1, <2>2 DEF M!Submit, M!Admits, M!Marked
<1>2. MoverTypes /\ WindowFits(w) /\ SlotFits(w) /\ slots[w] \in M!Slot /\ next_generation \in Nat
      /\ slots[w].generation \in Nat
  BY SlotTyped DEF MoverInv
<1>3. /\ new \in M!Slot /\ new.lifetime = slots[w].lifetime /\ new.generation = slots[w].generation
      /\ new.cancelled = slots[w].cancelled /\ new.pending = {t}
      /\ new.correction = slots[w].correction /\ new.completed = {}
  <2>1. ASSUME NEW old \in M!Slot
        PROVE  LET r == [old EXCEPT !.pending = {t}, !.completed = {}]
               IN  /\ r.lifetime = old.lifetime /\ r.generation = old.generation
                   /\ r.cancelled = old.cancelled /\ r.pending = {t}
                   /\ r.correction = old.correction /\ r.completed = {}
    BY DEF M!Slot
  <2>2. ASSUME NEW old \in M!Slot PROVE [old EXCEPT !.pending = {t}, !.completed = {}] \in M!Slot
    BY DEF M!Slot
  <2>3. new \in M!Slot
    BY <1>2, <2>2
  <2> QED
    BY <1>2, <2>1, <2>3
<1> HIDE DEF new
<1>4. /\ slots' \in [Windows -> M!Slot] /\ slots'[w] = new
      /\ \A v \in Windows \ {w} : slots'[v] = slots[v]
  BY <1>1, <1>3, OneSlot
<1>5. goal' \in [Windows -> Targets \cup {"any"}] /\ goal'[w] = t
      /\ \A v \in Windows \ {w} : goal'[v] = goal[v]
  BY <1>1, <1>2 DEF MoverTypes
<1>6. ready' \in Seq(Windows) /\ IsInjective(ready') /\ Range(ready') = Range(ready) \cup {w}
  BY <1>1, <1>2, AppendRange DEF MoverTypes, MoverInv, Queue
\* A window that a cancel left alone is not the frame's to move.
<1>7. w \notin held'
  BY <1>1, <1>2 DEF WindowFits, M!Marked, MoverTypes
<1>8. MoverTypes'
  BY <1>1, <1>2, <1>4, <1>5, <1>6 DEF MoverTypes
<1>9. JobFits'
  BY <1>1, <1>2, <1>3, <1>4, JobKept
<1>10. Queue'
  <2>1. M!HasWork(slots'[w])
    BY <1>3, <1>4 DEF M!HasWork
  <2>2. \A v \in Windows : M!InFlight(v)' = M!InFlight(v)
    BY <1>1, <1>3, <1>4 DEF M!InFlight
  <2>3. \A v \in Windows \ {w} : M!HasWork(slots'[v]) = M!HasWork(slots[v])
    BY <1>4
  <2>4. Range(ready) \subseteq Windows
    BY QueueTyped
  <2> QED
    BY <1>6, <2>1, <2>2, <2>3, <2>4 DEF MoverInv, Queue
<1>11. \A v \in Windows \ {w} : SlotFits(v)' /\ WindowFits(v)'
  BY <1>1, <1>2, <1>4, <1>5, Untouched, SlotTyped
<1>12. SlotFits(w)'
  BY <1>1, <1>2, <1>3, <1>4 DEF SlotFits
<1>13. WindowFits(w)'
  <2>1. Promised(w)' /\ Completed(w)'
    BY <1>3, <1>4, <1>5 DEF Promised, Completed
  <2>2. w \in late' => Recovers(w)'
    BY <1>1, <1>2, <1>3, <1>4 DEF WindowFits, Recovers, Working, M!IsCurrent
  <2>3. w \in stale' /\ M!Marked(w)' => \A g \in frame' : g[w] < slots'[w].generation
    BY <1>1, <1>2, <1>3, <1>4 DEF WindowFits, M!Marked
  <2> QED
    BY <1>7, <2>1, <2>2, <2>3 DEF WindowFits
<1> QED
  BY <1>8, <1>9, <1>10, <1>11, <1>12, <1>13 DEF MoverInv

LEMMA CancellingMoves == ASSUME MoverInv, NEW ws \in SUBSET Windows, M!Cancel(ws) PROVE MoverInv'
<1> DEFINE n == next_generation + 1
           new(w) == [slots[w] EXCEPT !.generation = n, !.cancelled = n, !.pending = {},
                                      !.correction = {}, !.completed = {}]
<1>1. /\ next_generation < MaxMarks /\ waiting' = ws /\ next_generation' = n
      /\ ready' = M!Retained(ready, Windows \ ws)
      /\ slots' = [w \in Windows |-> IF w \in ws /\ slots[w].lifetime # 0 THEN new(w) ELSE slots[w]]
      /\ goal' = [w \in Windows |-> IF w \in ws THEN "any" ELSE goal[w]]
      /\ late' = late \ ws /\ stale' = stale \cup ws
      /\ UNCHANGED <<in_flight, pc, job, observed, frame, at, held>>
  BY DEF M!Cancel, M!Cancelled, M!Marked
<1>2. n \in 1..MaxMarks /\ next_generation < n /\ next_generation \in Nat /\ n \in Nat
      /\ MoverTypes /\ \A w \in Windows : slots[w] \in M!Slot
  <2>1. MoverTypes /\ next_generation \in 0..MaxMarks /\ MaxMarks \in Nat
    BY PlacingAssumption DEF MoverInv, MoverTypes, M!PlacementMoverAssumption
  <2> HIDE DEF new
  <2> QED
    BY <1>1, <2>1 DEF MoverTypes
<1> HIDE DEF n
<1>3. ASSUME NEW w \in Windows
      PROVE  /\ new(w) \in M!Slot /\ new(w).lifetime = slots[w].lifetime
             /\ new(w).generation = n /\ new(w).cancelled = n /\ new(w).pending = {}
             /\ new(w).correction = {} /\ new(w).completed = {}
  <2>1. n \in 0..MaxMarks
    BY <1>2
  <2>2. ASSUME NEW old \in M!Slot
        PROVE  LET r == [old EXCEPT !.generation = n, !.cancelled = n, !.pending = {},
                                    !.correction = {}, !.completed = {}]
               IN  /\ r.lifetime = old.lifetime /\ r.generation = n /\ r.cancelled = n
                   /\ r.pending = {} /\ r.correction = {} /\ r.completed = {}
    BY DEF M!Slot
  <2>3. ASSUME NEW old \in M!Slot
        PROVE  [old EXCEPT !.generation = n, !.cancelled = n, !.pending = {},
                           !.correction = {}, !.completed = {}] \in M!Slot
    BY <2>1 DEF M!Slot
  <2>4. new(w) \in M!Slot
    BY <1>2, <2>3
  <2> QED
    BY <1>2, <2>2, <2>4
<1> HIDE DEF new
\* The slot of a window that is cancelled, marked or not.
<1>4. ASSUME NEW w \in ws
      PROVE  /\ slots'[w].pending = {} /\ slots'[w].correction = {} /\ slots'[w].completed = {}
             /\ slots'[w].lifetime = slots[w].lifetime
             /\ slots[w].lifetime # 0 => slots'[w].generation = n /\ slots'[w].cancelled = n
             /\ slots[w].lifetime = 0 => slots'[w] = slots[w]
  <2>1. CASE slots[w].lifetime # 0
    BY <1>1, <1>3, <2>1
  <2>2. CASE slots[w].lifetime = 0
    <3>1. slots'[w] = slots[w] /\ slots[w] = M!NoSlot
      BY <1>1, <2>2 DEF MoverInv, SlotFits
    <3> QED
      BY <2>2, <3>1 DEF M!NoSlot
  <2> QED
    BY <2>1, <2>2
<1>5. /\ slots' \in [Windows -> M!Slot] /\ \A w \in Windows \ ws : slots'[w] = slots[w]
  BY <1>1, <1>2, <1>3
<1>6. /\ goal' \in [Windows -> Targets \cup {"any"}] /\ \A w \in ws : goal'[w] = "any"
      /\ \A w \in Windows \ ws : goal'[w] = goal[w]
  BY <1>1, <1>2 DEF MoverTypes
<1>7. ready' \in Seq(Windows) /\ IsInjective(ready') /\ Range(ready') = Range(ready) \ ws
  BY <1>1, QueueWithout
<1>8. MoverTypes'
  BY <1>1, <1>2, <1>5, <1>6, <1>7 DEF MoverTypes
<1>9. JobFits'
  <2>1. ASSUME NEW w \in Windows
        PROVE  \/ slots'[w].lifetime = 0
               \/ /\ slots'[w].generation > next_generation /\ slots'[w].generation \in Nat
                  /\ slots'[w].cancelled = slots'[w].generation
               \/ /\ slots'[w].lifetime = slots[w].lifetime
                  /\ slots'[w].generation = slots[w].generation
                  /\ slots'[w].cancelled = slots[w].cancelled
                  /\ slots'[w].correction = slots[w].correction
    BY <1>2, <1>4, <1>5
  <2> QED
    BY <1>1, <1>2, <2>1, JobKept
<1>10. Queue'
  <2>1. \A w \in ws : ~M!HasWork(slots'[w])
    BY <1>4 DEF M!HasWork
  <2>2. \A w \in Windows : M!InFlight(w)' = M!InFlight(w)
    BY <1>1, <1>4, <1>5 DEF M!InFlight
  <2>3. Range(ready) \subseteq Windows
    BY QueueTyped
  <2> QED
    BY <1>5, <1>7, <2>1, <2>2, <2>3 DEF MoverInv, Queue
<1>11. ASSUME NEW w \in Windows \ ws PROVE SlotFits(w)' /\ WindowFits(w)'
  BY <1>1, <1>2, <1>5, <1>6, Untouched, SlotTyped
<1>12. ASSUME NEW w \in ws PROVE SlotFits(w)' /\ WindowFits(w)'
  <2>1. /\ WindowFits(w) /\ SlotFits(w) /\ slots[w].lifetime \in Nat
        /\ slots[w].generation \in Nat /\ slots[w].cancelled \in Nat
    BY SlotTyped
  <2>2. SlotFits(w)'
    <3>1. next_generation' = n /\ n \in Nat /\ next_generation < n
      BY <1>1, <1>2
    <3>2. slots'[w].lifetime <= slots'[w].generation
      BY <1>2, <1>4, <2>1, <3>1 DEF SlotFits
    <3>3. slots'[w].cancelled <= slots'[w].generation
      BY <1>4, <2>1, <3>1 DEF SlotFits
    <3>4. slots'[w].generation <= n
      BY <1>2, <1>4, <2>1, <3>1 DEF SlotFits
    <3>5. slots'[w].lifetime = 0 => slots'[w] = M!NoSlot
      BY <1>4, <2>1 DEF SlotFits
    <3> QED
      BY <1>4, <3>1, <3>2, <3>3, <3>4, <3>5 DEF SlotFits
  <2>3. Promised(w)' /\ Completed(w)' /\ w \notin late'
    BY <1>1, <1>4, <1>6 DEF Promised, Completed
  <2>4. w \in held' => M!Quiet(w)'
    BY <1>1, <1>4, <2>1 DEF WindowFits, M!Quiet, M!HasWork
  <2>5. M!Marked(w)' => \A f \in frame' : f[w] < slots'[w].generation
    <3> SUFFICES ASSUME slots'[w].lifetime # 0, NEW f \in frame PROVE f[w] < slots'[w].generation
      BY <1>1 DEF M!Marked
    <3>1. slots'[w].generation = n
      BY <1>4
    <3>2. f[w] \in 0..MaxMarks /\ f[w] <= next_generation
      BY <1>2 DEF MoverTypes
    <3> QED
      BY <1>2, <3>1, <3>2
  <2> QED
    BY <2>2, <2>3, <2>4, <2>5 DEF WindowFits
<1> QED
  BY <1>8, <1>9, <1>10, <1>11, <1>12 DEF MoverInv

(***************************************************************************)
(* The thread.                                                             *)
(***************************************************************************)
\* Where the work in hand takes its window.
LEMMA DestinationIs ==
    ASSUME NEW d \in Targets \cup {"recover"},
           \/ job.correction = {} /\ job.target = {d}
           \/ job.target = {} /\ \E c : job.correction = {c} /\ c.to = d
    PROVE  M!Destination = d
<1> DEFINE Leads(t) == t \in job.target \/ \E c \in job.correction : c.to = t
<1>1. \A t : Leads(t) <=> t = d
  OBVIOUS
<1>2. M!Destination = CHOOSE t \in Targets \cup {"recover"} : Leads(t)
  BY DEF M!Destination
<1> HIDE DEF Leads
<1> QED
  BY <1>1, <1>2

\* What is known of the work in hand and its window.
LEMMA InHand ==
    ASSUME MoverInv, pc # "idle"
    PROVE  LET w == job.window
           IN  /\ JobFits /\ MoverTypes /\ job \in JobType /\ w \in Windows
               /\ in_flight = {<<w, job.lifetime>>}
               /\ SlotFits(w) /\ WindowFits(w) /\ w \notin held
               /\ slots[w] \in M!Slot /\ next_generation \in Nat
               /\ job.lifetime \in Nat \ {0} /\ job.generation \in Nat
               /\ slots[w].lifetime \in Nat /\ slots[w].generation \in Nat
               /\ slots[w].cancelled \in Nat
               /\ M!Destination \in Targets \cup {"recover"}
               /\ \A c \in job.correction : c.to = M!Destination
               /\ job.target # {} => job.correction = {}
               /\ job.correction = {} => job.target # {}
<1> DEFINE w == job.window
<1>1. JobFits /\ MoverTypes /\ job \in JobType /\ w \in Windows /\ in_flight = {<<w, job.lifetime>>}
  BY DEF MoverInv, JobFits, JobType
<1>2. SlotFits(w) /\ WindowFits(w)
  BY <1>1 DEF MoverInv
<1>3. w \notin held
  BY <1>1, <1>2 DEF WindowFits, M!Quiet
<1>4. /\ slots[w] \in M!Slot /\ next_generation \in Nat
      /\ slots[w].lifetime \in Nat /\ slots[w].generation \in Nat /\ slots[w].cancelled \in Nat
  BY <1>1, SlotTyped
<1>5. job.lifetime \in Nat \ {0} /\ job.generation \in Nat
  BY <1>1, PlacingAssumption DEF JobType, M!PlacementMoverAssumption
<1>6. CASE job.correction = {} /\ \E t \in Targets : job.target = {t}
  <2>1. PICK t \in Targets : job.target = {t}
    BY <1>6
  <2>2. M!Destination = t
    BY <1>6, <2>1, DestinationIs
  <2> QED
    BY <1>1, <1>2, <1>3, <1>4, <1>5, <1>6, <2>1, <2>2
<1>7. CASE job.target = {} /\ \E c \in M!Corrections : job.correction = {c}
  <2>1. PICK c \in M!Corrections : job.correction = {c}
    BY <1>7
  <2>2. c.to \in Targets \cup {"recover"}
    BY DEF M!Corrections
  <2>3. M!Destination = c.to
    BY <1>7, <2>1, <2>2, DestinationIs
  <2> QED
    BY <1>1, <1>2, <1>3, <1>4, <1>5, <1>7, <2>1, <2>2, <2>3
<1> QED
  BY <1>1, <1>6, <1>7 DEF JobFits

\* The thread goes on with its window; it is no step of another.
LEMMA WorkGoesOn ==
    ASSUME MoverInv, pc # "idle", pc' \in {"recover", "move", "finish"},
           UNCHANGED <<slots, ready, in_flight>>, M!CallersOnly, job'.window = job.window,
           at' \in [Windows -> M!Places], goal' \in [Windows -> Targets \cup {"any"}],
           \A v \in Windows \ {job.window} : at'[v] = at[v] /\ goal'[v] = goal[v],
           late' \subseteq late \cup {job.window},
           JobFits', Promised(job.window)', Completed(job.window)',
           job.window \in late' => Recovers(job.window)'
    PROVE  MoverInv'
<1> DEFINE w == job.window
<1>1. w \in Windows /\ WindowFits(w) /\ SlotFits(w) /\ w \notin held /\ next_generation \in Nat
      /\ in_flight = {<<w, job.lifetime>>} /\ MoverTypes
  BY InHand
<1>2. UNCHANGED <<next_generation, observed, frame, waiting, held, stale>>
  BY DEF M!CallersOnly
<1>3. MoverTypes'
  BY <1>1, <1>2 DEF MoverTypes
<1>4. Queue'
  BY DEF MoverInv, Queue, M!InFlight
<1>5. ASSUME NEW v \in Windows \ {w} PROVE SlotFits(v)' /\ WindowFits(v)'
  <2>1. ~Working(v) /\ ~Working(v)' /\ \A f \in in_flight' : f[1] # v
    BY <1>1 DEF Working
  <2> QED
    BY <1>1, <1>2, <2>1, Untouched, SlotTyped
<1>6. SlotFits(w)'
  BY <1>1, <1>2 DEF SlotFits
<1>7. WindowFits(w)'
  BY <1>1, <1>2 DEF WindowFits, M!Marked
<1> QED
  BY <1>1, <1>3, <1>4, <1>5, <1>6, <1>7 DEF MoverInv

\* Nothing but the progress of the work in hand.
LEMMA JobGoesOn ==
    ASSUME MoverInv, pc # "idle", UNCHANGED <<slots, in_flight, next_generation>>,
           job' \in JobType, job'.window = job.window, job'.lifetime = job.lifetime,
           job'.generation = job.generation, job'.correction = job.correction,
           job'.target = job.target,
           pc' \in {"recover", "move"} => job'.moved = TRUE,
           job'.completed = TRUE => /\ pc' = "finish" /\ job.correction # {}
                                    /\ M!Destination # "recover"
                                    /\ at'[job.window] = M!Destination,
           job'.retry = TRUE => pc' = "finish" /\ job.correction # {}
    PROVE  JobFits' /\ M!Destination' = M!Destination /\ M!IsCurrent' = M!IsCurrent
<1>1. M!Destination' = M!Destination /\ M!IsCurrent' = M!IsCurrent
  BY DEF M!Destination, M!IsCurrent
<1>2. /\ in_flight' = {<<job'.window, job'.lifetime>>}
      /\ \/ job'.correction = {} /\ \E t \in Targets : job'.target = {t}
         \/ job'.target = {} /\ \E c \in M!Corrections : job'.correction = {c}
      /\ job'.lifetime <= next_generation' /\ job'.generation <= next_generation'
  BY DEF MoverInv, JobFits
<1>3. /\ slots'[job'.window].lifetime = job'.lifetime =>
           job'.generation <= slots'[job'.window].generation
      /\ M!IsCurrent' => slots'[job'.window].correction = {}
      /\ slots'[job'.window].lifetime = job'.lifetime /\ slots'[job'.window].correction = {} =>
           \/ slots'[job'.window].generation = job'.generation
           \/ slots'[job'.window].generation = slots'[job'.window].cancelled
  BY <1>1 DEF MoverInv, JobFits
<1> QED
  BY <1>1, <1>2, <1>3 DEF JobFits

LEMMA Outdated ==
    ASSUME MoverInv, M!Superseded \/ M!RecoverySuperseded
    PROVE  MoverInv'
<1>1. /\ pc \in {"picked", "recover"} /\ pc' = "finish" /\ ~M!IsCurrent /\ M!CallersOnly
      /\ UNCHANGED <<slots, ready, in_flight, job, at, goal, late>>
  BY DEF M!Superseded, M!RecoverySuperseded
<1>2. MoverTypes /\ JobFits /\ WindowFits(job.window) /\ job \in JobType
  BY <1>1, InHand
<1>3. job.completed # TRUE /\ job.retry # TRUE
  BY <1>1, <1>2 DEF JobFits
<1>4. JobFits' /\ M!Destination' = M!Destination /\ M!IsCurrent' = M!IsCurrent
  BY <1>1, <1>2, <1>3, JobGoesOn DEF M!CallersOnly
<1>5. Promised(job.window)' /\ Completed(job.window)'
      /\ (job.window \in late' => Recovers(job.window)')
  BY <1>1, <1>2, <1>3, <1>4 DEF WindowFits, Promised, Completed, Recovers, Working
<1> QED
  BY <1>1, <1>2, <1>4, <1>5, WorkGoesOn DEF MoverTypes

LEMMA GoingOn ==
    ASSUME MoverInv, M!OwnerAnswers \/ M!RecoveryGoesOn
    PROVE  MoverInv'
<1>1. /\ pc \in {"picked", "recover"} /\ pc' \in {"recover", "move"} /\ M!IsCurrent /\ M!CallersOnly
      /\ (job' = job /\ pc = "recover") \/ job' = [job EXCEPT !.moved = TRUE]
      /\ UNCHANGED <<slots, ready, in_flight, at, goal, late>>
  BY DEF M!OwnerAnswers, M!RecoveryGoesOn
<1>2. MoverTypes /\ JobFits /\ WindowFits(job.window) /\ job \in JobType
  BY <1>1, InHand
<1>3. /\ job'.window = job.window /\ job'.lifetime = job.lifetime
      /\ job'.generation = job.generation /\ job'.correction = job.correction
      /\ job'.target = job.target /\ job'.moved = TRUE /\ job'.retry = job.retry
      /\ job'.completed = job.completed /\ job' \in JobType
  BY <1>1, <1>2 DEF JobType, JobFits
<1>4. job.completed # TRUE /\ job.retry # TRUE
  BY <1>1, <1>2 DEF JobFits
<1>5. JobFits' /\ M!Destination' = M!Destination /\ M!IsCurrent' = M!IsCurrent
  BY <1>1, <1>2, <1>3, <1>4, JobGoesOn DEF M!CallersOnly
<1>6. Promised(job.window)' /\ Completed(job.window)'
      /\ (job.window \in late' => Recovers(job.window)')
  BY <1>1, <1>2, <1>3, <1>4, <1>5 DEF WindowFits, Promised, Completed, Recovers, Working
<1> QED
  BY <1>1, <1>2, <1>3, <1>5, <1>6, WorkGoesOn DEF MoverTypes

\* Work that is given up is no longer promised.
LEMMA GivingUp ==
    ASSUME MoverInv, pc # "idle", M!GivesUp
    PROVE  /\ goal' \in [Windows -> Targets \cup {"any"}]
           /\ \A v \in Windows \ {job.window} : goal'[v] = goal[v]
           /\ IF M!IsCurrent /\ slots[job.window].pending = {}
              THEN goal'[job.window] = "any" ELSE goal' = goal
BY InHand DEF M!GivesUp, MoverTypes

LEMMA Failing ==
    ASSUME MoverInv, M!Expires \/ M!CallFails
    PROVE  MoverInv'
<1>1. /\ pc \in {"picked", "move"} /\ pc' = "finish" /\ M!GivesUp /\ M!CallersOnly
      /\ late' = (IF M!IsCurrent THEN late \ {job.window} ELSE late)
      /\ UNCHANGED <<slots, ready, in_flight, job, at>>
  BY DEF M!Expires, M!CallFails
<1>2. MoverTypes /\ JobFits /\ WindowFits(job.window) /\ job \in JobType
  BY <1>1, InHand
<1>3. job.completed # TRUE /\ job.retry # TRUE
  BY <1>1, <1>2 DEF JobFits
<1>4. JobFits' /\ M!Destination' = M!Destination /\ M!IsCurrent' = M!IsCurrent
  BY <1>1, <1>2, <1>3, JobGoesOn DEF M!CallersOnly
<1>5. /\ goal' \in [Windows -> Targets \cup {"any"}]
      /\ \A v \in Windows \ {job.window} : goal'[v] = goal[v]
      /\ IF M!IsCurrent /\ slots[job.window].pending = {}
         THEN goal'[job.window] = "any" ELSE goal' = goal
  BY <1>1, GivingUp
<1>6. Promised(job.window)'
  BY <1>1, <1>2, <1>3, <1>4, <1>5 DEF WindowFits, Promised, Working
<1>7. Completed(job.window)' /\ (job.window \in late' => Recovers(job.window)')
  BY <1>1, <1>2, <1>3, <1>4 DEF WindowFits, Completed, Recovers, Working
<1> QED
  BY <1>1, <1>2, <1>4, <1>5, <1>6, <1>7, WorkGoesOn DEF MoverTypes

LEMMA Silence == ASSUME MoverInv, M!OwnerSilent PROVE MoverInv'
<1> DEFINE again == M!IsCurrent /\ job.correction # {}
<1>1. /\ pc = "picked" /\ pc' = "finish" /\ job' = [job EXCEPT !.retry = again]
      /\ IF job.target # {} THEN M!GivesUp ELSE goal' = goal
      /\ M!CallersOnly /\ UNCHANGED <<slots, ready, in_flight, at, late>>
  BY DEF M!OwnerSilent, M!Retries
<1>2. MoverTypes /\ JobFits /\ WindowFits(job.window) /\ job \in JobType
      /\ (job.target # {} => job.correction = {}) /\ (job.correction = {} => job.target # {})
  BY <1>1, InHand
<1>3. again \in BOOLEAN
  BY DEF M!IsCurrent
<1> HIDE DEF again
<1>4. /\ job'.window = job.window /\ job'.lifetime = job.lifetime
      /\ job'.generation = job.generation /\ job'.correction = job.correction
      /\ job'.target = job.target /\ job'.moved = job.moved /\ job'.retry = again
      /\ job'.completed = job.completed /\ job' \in JobType
  BY <1>1, <1>2, <1>3 DEF JobType
<1>5. job.completed # TRUE /\ job.retry # TRUE
  BY <1>1, <1>2 DEF JobFits
<1>6. JobFits' /\ M!Destination' = M!Destination /\ M!IsCurrent' = M!IsCurrent
  BY <1>1, <1>2, <1>4, <1>5, JobGoesOn DEF M!CallersOnly, again
<1>7. /\ goal' \in [Windows -> Targets \cup {"any"}]
      /\ \A v \in Windows \ {job.window} : goal'[v] = goal[v]
      /\ IF job.target # {} /\ M!IsCurrent /\ slots[job.window].pending = {}
         THEN goal'[job.window] = "any" ELSE goal' = goal
  BY <1>1, <1>2, GivingUp DEF MoverTypes
<1>8. Promised(job.window)'
  BY <1>1, <1>2, <1>4, <1>5, <1>6, <1>7, ZenonT(40) DEF WindowFits, Promised, Working, again
<1>9. Completed(job.window)' /\ (job.window \in late' => Recovers(job.window)')
  BY <1>1, <1>2, <1>4, <1>5, <1>6 DEF WindowFits, Completed, Recovers, Working, again
<1> QED
  BY <1>1, <1>2, <1>4, <1>6, <1>7, <1>8, <1>9, WorkGoesOn DEF MoverTypes

LEMMA Landing == ASSUME MoverInv, M!Lands PROVE MoverInv'
<1> DEFINE w == job.window
           d == M!Destination
           put == job.correction # {} /\ d # "recover"
           came == /\ slots[w].lifetime = job.lifetime
                   /\ slots[w].cancelled > job.generation
                   /\ d # "recover"
<1>1. /\ pc = "move" /\ pc' = "finish" /\ job' = [job EXCEPT !.completed = put]
      /\ at' = [at EXCEPT ![w] = IF d = "recover" THEN "home" ELSE d]
      /\ late' = IF came THEN late \cup {w} ELSE late \ {w}
      /\ M!CallersOnly /\ UNCHANGED <<slots, ready, in_flight, goal>>
  BY DEF M!Lands
<1>2. /\ MoverTypes /\ JobFits /\ WindowFits(w) /\ SlotFits(w) /\ job \in JobType /\ w \in Windows
      /\ d \in Targets \cup {"recover"} /\ job.generation \in Nat
      /\ slots[w].generation \in Nat /\ slots[w].cancelled \in Nat
  BY <1>1, InHand
<1>3. "recover" \notin Targets
  BY PlacingAssumption DEF M!PlacementMoverAssumption
<1>4. put \in BOOLEAN
  OBVIOUS
<1>5. /\ at' \in [Windows -> M!Places] /\ (d # "recover" => at'[w] = d)
      /\ \A v \in Windows \ {w} : at'[v] = at[v]
  BY <1>1, <1>2 DEF MoverTypes, M!Places
<1> HIDE DEF d
<1>6. /\ job'.window = job.window /\ job'.lifetime = job.lifetime
      /\ job'.generation = job.generation /\ job'.correction = job.correction
      /\ job'.target = job.target /\ job'.moved = job.moved /\ job'.retry = job.retry
      /\ job'.completed = put /\ job' \in JobType
  BY <1>1, <1>2, <1>4 DEF JobType
<1>7. job.moved = TRUE /\ job.retry = FALSE
  BY <1>1, <1>2 DEF JobFits, JobType
<1>8. JobFits' /\ M!Destination' = M!Destination /\ M!IsCurrent' = M!IsCurrent
  BY <1>1, <1>2, <1>5, <1>6, <1>7, JobGoesOn DEF M!CallersOnly, d
<1>9. Promised(w)'
  <2>1. d = goal[w] /\ goal[w] # "any" => at'[w] = goal[w]
    BY <1>2, <1>3, <1>5 DEF MoverTypes
  <2> QED
    BY <1>1, <1>2, <1>6, <1>7, <1>8, <2>1 DEF WindowFits, Promised, Working, d
<1>10. Completed(w)'
  BY <1>1, <1>2, <1>6, <1>8 DEF WindowFits, Completed, Working
<1>11. w \in late' => Recovers(w)'
  <2>1. CASE slots[w].correction # {}
    BY <1>1, <1>6, <2>1 DEF Recovers
  <2>2. CASE slots[w].correction = {} /\ came
    <3>1. slots[w].generation = slots[w].cancelled
      BY <1>1, <1>2, <2>2 DEF JobFits, SlotFits
    <3>2. /\ slots'[w] = slots[w] /\ job'.window = w /\ pc' = "finish" /\ job'.moved = TRUE
          /\ slots[w].lifetime = job'.lifetime /\ slots[w].cancelled > job'.generation
      BY <1>1, <1>6, <1>7, <2>2
    <3> QED
      BY <3>1, <3>2 DEF Recovers, Working
  <2>3. CASE ~came
    BY <1>1, <2>3
  <2> QED
    BY <2>1, <2>2, <2>3
<1>12. late' \subseteq late \cup {w}
  BY <1>1
<1> QED
  BY <1>1, <1>2, <1>5, <1>6, <1>8, <1>9, <1>10, <1>11, <1>12, WorkGoesOn DEF MoverTypes

LEMMA Picking == ASSUME MoverInv, M!Pick PROVE MoverInv'
<1>0. PICK w \in Windows : w = Head(ready)
  BY QueueTail DEF M!Pick
<1> DEFINE byTarget == slots[w].correction = {}
           corr == IF byTarget THEN {} ELSE slots[w].correction
           targ == IF byTarget THEN slots[w].pending ELSE {}
           left == IF byTarget THEN {} ELSE slots[w].pending
           new == [slots[w] EXCEPT !.correction = {}, !.pending = left]
<1>1. /\ pc = "idle" /\ ready # <<>> /\ M!HasWork(slots[w]) /\ pc' = "picked"
      /\ in_flight' = {<<w, slots[w].lifetime>>} /\ ready' = Tail(ready)
      /\ job' = [M!NoJob EXCEPT !.window = w, !.lifetime = slots[w].lifetime,
                                !.generation = slots[w].generation,
                                !.correction = corr, !.target = targ]
      /\ M!CallersOnly /\ UNCHANGED <<at, goal, late>>
  BY <1>0 DEF M!Pick, M!TakesTarget
<1>2. /\ w \in Windows /\ w \in Range(ready) /\ ready' \in Seq(Windows) /\ IsInjective(ready')
      /\ Range(ready') = Range(ready) \ {w}
  BY <1>0, <1>1, QueueTail
<1>3. slots' = [slots EXCEPT ![w] = new]
  <2>1. slots' = [slots EXCEPT ![w].correction = IF byTarget THEN @ ELSE {},
                               ![w].pending = IF byTarget THEN {} ELSE @]
    BY <1>0 DEF M!Pick, M!TakesTarget
  <2>2. byTarget => slots[w].correction = {}
    OBVIOUS
  <2> QED
    BY <1>2, <2>1, <2>2 DEF MoverInv, MoverTypes
<1>4. /\ MoverTypes /\ SlotFits(w) /\ WindowFits(w) /\ slots[w] \in M!Slot
      /\ next_generation \in 0..MaxMarks /\ MaxMarks \in Nat
      /\ slots[w].lifetime \in 0..MaxMarks /\ slots[w].generation \in 0..MaxMarks
      /\ slots[w].pending \in SUBSET Targets /\ slots[w].correction \in SUBSET M!Corrections
  BY <1>2, SlotTyped DEF MoverInv
<1>5. /\ new \in M!Slot /\ new.lifetime = slots[w].lifetime /\ new.generation = slots[w].generation
      /\ new.cancelled = slots[w].cancelled /\ new.pending = left /\ new.correction = {}
      /\ new.completed = slots[w].completed
  <2>1. left \in SUBSET Targets /\ slots[w] \in M!Slot
    BY <1>4
  <2> HIDE DEF left
  <2>2. ASSUME NEW old \in M!Slot
        PROVE  LET r == [old EXCEPT !.correction = {}, !.pending = left]
               IN  /\ r.lifetime = old.lifetime /\ r.generation = old.generation
                   /\ r.cancelled = old.cancelled /\ r.pending = left
                   /\ r.correction = {} /\ r.completed = old.completed
    BY DEF M!Slot
  <2>3. ASSUME NEW old \in M!Slot
        PROVE  [old EXCEPT !.correction = {}, !.pending = left] \in M!Slot
    BY <2>1 DEF M!Slot
  <2>4. new \in M!Slot
    BY <2>1, <2>3
  <2> QED
    BY <2>1, <2>2, <2>4
<1>6. slots[w].lifetime # 0 /\ slots[w].lifetime \in 1..MaxMarks /\ slots[w].generation \in 1..MaxMarks
  <2>1. slots[w].lifetime # 0
    BY <1>1, <1>4 DEF SlotFits, M!HasWork, M!NoSlot
  <2> QED
    BY <1>4, <2>1 DEF SlotFits
<1>7. /\ job'.window = w /\ job'.lifetime = slots[w].lifetime
      /\ job'.generation = slots[w].generation /\ job'.correction = corr /\ job'.target = targ
      /\ job'.moved = FALSE /\ job'.retry = FALSE /\ job'.completed = FALSE /\ job' \in JobType
  <2>1. corr \in SUBSET M!Corrections /\ targ \in SUBSET Targets
    BY <1>4
  <2> HIDE DEF corr, targ
  <2>2. job' = [window |-> w, lifetime |-> slots[w].lifetime, generation |-> slots[w].generation,
                correction |-> corr, target |-> targ, moved |-> FALSE, retry |-> FALSE,
                completed |-> FALSE]
    BY <1>1 DEF M!NoJob
  <2> QED
    BY <1>2, <1>6, <2>1, <2>2 DEF JobType
<1> HIDE DEF new
<1>8. /\ slots' \in [Windows -> M!Slot] /\ slots'[w] = new
      /\ \A v \in Windows \ {w} : slots'[v] = slots[v]
  BY <1>2, <1>3, <1>5, OneSlot
<1>9. UNCHANGED <<next_generation, observed, frame, waiting, held, stale>>
  BY <1>1 DEF M!CallersOnly
<1>10. MoverTypes'
  BY <1>1, <1>2, <1>4, <1>8, <1>9 DEF MoverTypes
\* There is one thing to do, and it goes to one place.
<1>11. \/ /\ byTarget /\ corr = {} /\ left = {}
          /\ \E t \in Targets : targ = {t} /\ slots[w].pending = {t} /\ M!Destination' = t
       \/ /\ ~byTarget /\ targ = {} /\ left = slots[w].pending
          /\ \E c \in M!Corrections :
                corr = {c} /\ slots[w].correction = {c} /\ M!Destination' = c.to
  <2>1. CASE byTarget
    <3>1. PICK t \in slots[w].pending : TRUE
      BY <1>1, <2>1 DEF M!HasWork
    <3>2. slots[w].pending = {t} /\ t \in Targets
      BY <1>4 DEF SlotFits
    <3>3. job'.correction = {} /\ job'.target = {t}
      BY <1>7, <2>1, <3>2
    <3>4. M!Destination' = t
      BY <3>2, <3>3 DEF M!Destination
    <3> QED
      BY <2>1, <3>2, <3>4
  <2>2. CASE ~byTarget
    <3>1. PICK c \in slots[w].correction : TRUE
      BY <2>2
    <3>2. slots[w].correction = {c} /\ c \in M!Corrections
      BY <1>4 DEF SlotFits
    <3>3. job'.correction = {c} /\ job'.target = {} /\ c.to \in Targets \cup {"recover"}
      BY <1>7, <2>2, <3>2 DEF M!Corrections
    <3>4. M!Destination' = c.to
      BY <3>3 DEF M!Destination
    <3> QED
      BY <2>2, <3>2, <3>4
  <2> QED
    BY <2>1, <2>2
<1>12. M!IsCurrent'
  BY <1>5, <1>7, <1>8 DEF M!IsCurrent
<1>13. JobFits'
  <2>1. job'.lifetime <= next_generation' /\ job'.generation <= next_generation'
    BY <1>4, <1>6, <1>7, <1>9 DEF SlotFits
  <2>2. slots'[job'.window].generation = job'.generation /\ slots'[job'.window].correction = {}
    BY <1>5, <1>7, <1>8
  <2>3. \/ job'.correction = {} /\ \E t \in Targets : job'.target = {t}
        \/ job'.target = {} /\ \E c \in M!Corrections : job'.correction = {c}
    BY <1>7, <1>11
  <2>4. job'.generation <= slots'[job'.window].generation
    BY <1>4, <1>7, <2>2
  <2> QED
    BY <1>1, <1>7, <2>1, <2>2, <2>3, <2>4 DEF JobFits
<1>14. Queue'
  <2>1. M!InFlight(w)'
    BY <1>1, <1>5, <1>8 DEF M!InFlight
  <2>2. in_flight = {} /\ \A v \in Windows : ~M!InFlight(v)
    BY <1>1, <1>4 DEF MoverTypes, M!InFlight
  <2>3. Range(ready) \subseteq Windows
    BY QueueTyped
  <2> QED
    BY <1>2, <1>8, <2>1, <2>2, <2>3 DEF MoverInv, Queue
<1>15. ASSUME NEW v \in Windows \ {w} PROVE SlotFits(v)' /\ WindowFits(v)'
  <2>1. ~Working(v) /\ ~Working(v)' /\ \A f \in in_flight' : f[1] # v
    BY <1>1, <1>7 DEF Working
  <2>2. next_generation \in Nat
    BY <1>4
  <2> QED
    BY <1>1, <1>8, <1>9, <2>1, <2>2, Untouched, SlotTyped
<1>16. SlotFits(w)'
  BY <1>4, <1>5, <1>6, <1>8, <1>9 DEF SlotFits
<1>17. WindowFits(w)'
  <2>1. Working(w)' /\ ~Working(w)
    BY <1>1, <1>7 DEF Working
  <2>2. Promised(w)'
    BY <1>1, <1>4, <1>5, <1>7, <1>8, <1>11, <1>12, <2>1 DEF WindowFits, Promised
  <2>3. Completed(w)'
    BY <1>12, <2>1 DEF Completed
  <2>4. w \in late' => Recovers(w)'
    <3>1. w \in late => ~byTarget
      BY <1>4, <2>1 DEF WindowFits, Recovers
    <3>2. ~byTarget => corr # {}
      BY <1>11
    <3> HIDE DEF byTarget, corr
    <3> QED
      BY <1>1, <1>7, <1>12, <2>1, <3>1, <3>2 DEF Recovers
  <2>5. w \notin held'
    BY <1>1, <1>4, <1>9 DEF WindowFits, M!Quiet
  <2>6. w \in stale' /\ M!Marked(w)' => \A f \in frame' : f[w] < slots'[w].generation
    BY <1>4, <1>5, <1>8, <1>9 DEF WindowFits, M!Marked
  <2> QED
    BY <2>2, <2>3, <2>4, <2>5, <2>6 DEF WindowFits
<1> QED
  BY <1>10, <1>13, <1>14, <1>15, <1>16, <1>17 DEF MoverInv

\* What becomes of the slot when the thread is done with its window.
LEMMA Settling ==
    ASSUME MoverInv, pc = "finish", NEW w \in Windows, w = job.window,
           slots[w].lifetime = job.lifetime
    PROVE  LET new == M!Settle(slots[w])
           IN  /\ new \in M!Slot /\ new.lifetime = slots[w].lifetime
               /\ new.generation = slots[w].generation /\ new.cancelled = slots[w].cancelled
               /\ new.pending = slots[w].pending /\ \A c, d \in new.correction : c = d
               /\ \/ /\ M!IsCurrent /\ \A c \in new.correction : c.to = M!Destination
                     /\ job.retry = TRUE => new.correction # {}
                     /\ job.retry = FALSE => new.correction = {}
                     /\ new.completed # {} => new.completed = {at[w]}
                  \/ /\ ~M!IsCurrent /\ M!CameLate(slots[w]) /\ new.correction # {}
                     /\ new.completed = slots[w].completed
                  \/ ~M!IsCurrent /\ ~M!CameLate(slots[w]) /\ new = slots[w]
<1> DEFINE new == M!Settle(slots[w])
           again == IF job.retry THEN {M!KeepsDeadline(c) : c \in job.correction} ELSE {}
           done == IF job.completed THEN {M!Destination} ELSE {}
           undo == {[to |-> "recover", tried |-> FALSE]}
<1>1. /\ JobFits /\ job \in JobType /\ slots[w] \in M!Slot /\ SlotFits(w)
      /\ M!Destination \in Targets \cup {"recover"}
      /\ \A c \in job.correction : c.to = M!Destination
  BY InHand
<1>2. job.retry \in BOOLEAN /\ job.completed \in BOOLEAN /\ job.correction \in SUBSET M!Corrections
  BY <1>1 DEF JobType
<1>3. ASSUME NEW old \in M!Slot, NEW cs \in SUBSET M!Corrections
      PROVE  LET r == [old EXCEPT !.correction = cs]
             IN  /\ r.lifetime = old.lifetime /\ r.generation = old.generation
                 /\ r.cancelled = old.cancelled /\ r.pending = old.pending
                 /\ r.correction = cs /\ r.completed = old.completed
  BY DEF M!Slot
<1>4. ASSUME NEW old \in M!Slot, NEW cs \in SUBSET M!Corrections
      PROVE  [old EXCEPT !.correction = cs] \in M!Slot
  BY DEF M!Slot
<1>5. ASSUME NEW old \in M!Slot, NEW cs \in SUBSET M!Corrections, NEW ts \in SUBSET Targets
      PROVE  LET r == [old EXCEPT !.correction = cs, !.completed = ts]
             IN  /\ r.lifetime = old.lifetime /\ r.generation = old.generation
                 /\ r.cancelled = old.cancelled /\ r.pending = old.pending
                 /\ r.correction = cs /\ r.completed = ts
  BY DEF M!Slot
<1>6. ASSUME NEW old \in M!Slot, NEW cs \in SUBSET M!Corrections, NEW ts \in SUBSET Targets
      PROVE  [old EXCEPT !.correction = cs, !.completed = ts] \in M!Slot
  BY DEF M!Slot
<1>7. M!IsCurrent <=> slots[w].generation = job.generation
  BY DEF M!IsCurrent
<1>8. ASSUME NEW c \in M!Corrections
      PROVE  M!KeepsDeadline(c) \in M!Corrections /\ M!KeepsDeadline(c).to = c.to
  BY DEF M!KeepsDeadline, M!Corrections
<1>9. CASE M!IsCurrent
  <2>1. new = [slots[w] EXCEPT !.correction = again, !.completed = done]
    BY <1>7, <1>9 DEF M!Settle
  <2>2. /\ again \in SUBSET M!Corrections /\ \A c, d \in again : c = d
        /\ \A c \in again : c.to = M!Destination
        /\ (job.retry = TRUE => again # {}) /\ (job.retry = FALSE => again = {})
    <3>1. CASE job.retry = TRUE
      <4>1. PICK c \in M!Corrections : job.correction = {c}
        BY <1>1, <3>1 DEF JobFits
      <4>2. again = {M!KeepsDeadline(c)}
        BY <3>1, <4>1
      <4>3. M!KeepsDeadline(c) \in M!Corrections /\ M!KeepsDeadline(c).to = M!Destination
        BY <1>1, <1>8, <4>1
      <4> HIDE DEF again
      <4> QED
        BY <3>1, <4>2, <4>3
    <3>2. CASE job.retry = FALSE
      <4>1. again = {}
        BY <3>2
      <4> HIDE DEF again
      <4> QED
        BY <3>2, <4>1
    <3> QED
      BY <1>2, <3>1, <3>2
  <2>3. done \in SUBSET Targets /\ (done # {} => done = {at[w]})
    BY <1>1, <1>2 DEF JobFits
  <2> HIDE DEF again, done, new
  <2>4. new \in M!Slot
    <3>1. slots[w] \in M!Slot
      BY <1>1
    <3>2. [slots[w] EXCEPT !.correction = again, !.completed = done] \in M!Slot
      BY <1>6, <2>2, <2>3, <3>1
    <3> QED
      BY <2>1, <3>2
  <2>5. /\ new.lifetime = slots[w].lifetime /\ new.generation = slots[w].generation
        /\ new.cancelled = slots[w].cancelled /\ new.pending = slots[w].pending
        /\ new.correction = again /\ new.completed = done
    BY <1>1, <1>5, <2>1, <2>2, <2>3
  <2> QED
    BY <1>9, <2>2, <2>3, <2>4, <2>5 DEF new
<1>10. CASE ~M!IsCurrent /\ M!CameLate(slots[w])
  <2>1. new = [slots[w] EXCEPT !.correction = undo]
    BY <1>7, <1>10 DEF M!Settle
  <2>2. undo \in SUBSET M!Corrections /\ undo # {} /\ \A c, d \in undo : c = d
    BY DEF M!Corrections
  <2> HIDE DEF undo, new
  <2>3. new \in M!Slot
    <3>1. slots[w] \in M!Slot
      BY <1>1
    <3>2. [slots[w] EXCEPT !.correction = undo] \in M!Slot
      BY <1>4, <2>2, <3>1
    <3> QED
      BY <2>1, <3>2
  <2>4. /\ new.lifetime = slots[w].lifetime /\ new.generation = slots[w].generation
        /\ new.cancelled = slots[w].cancelled /\ new.pending = slots[w].pending
        /\ new.correction = undo /\ new.completed = slots[w].completed
    BY <1>1, <1>3, <2>1, <2>2
  <2> QED
    BY <1>10, <2>2, <2>3, <2>4 DEF new
<1>11. CASE ~M!IsCurrent /\ ~M!CameLate(slots[w])
  <2>1. new = slots[w]
    BY <1>7, <1>11 DEF M!Settle
  <2> HIDE DEF new
  <2> QED
    BY <1>1, <1>11, <2>1 DEF SlotFits, new
<1> QED
  BY <1>9, <1>10, <1>11

LEMMA Finishing == ASSUME MoverInv, M!Finish PROVE MoverInv'
<1>0. PICK w \in Windows : w = job.window
  BY InHand DEF M!Finish
<1> DEFINE new == M!Settle(slots[w])
           same == slots[w].lifetime = job.lifetime
<1>1. /\ pc = "finish" /\ pc' = "idle" /\ in_flight' = {}
      /\ UNCHANGED <<next_generation, observed, frame, waiting, held, stale, at, goal, late>>
      /\ same => /\ slots' = [slots EXCEPT ![w] = new]
                 /\ ready' = IF M!HasWork(new) THEN Append(M!Without(w), w) ELSE M!Without(w)
      /\ ~same => UNCHANGED <<slots, ready>>
  BY <1>0 DEF M!Finish, M!CallersOnly, M!Requeue
<1>2. /\ MoverTypes /\ JobFits /\ WindowFits(w) /\ SlotFits(w) /\ w \notin held /\ Working(w)
      /\ in_flight = {<<w, job.lifetime>>} /\ job \in JobType
      /\ slots[w].lifetime \in Nat /\ slots[w].generation \in Nat /\ slots[w].cancelled \in Nat
      /\ job.lifetime \in Nat \ {0} /\ job.generation \in Nat /\ next_generation \in Nat
  BY <1>0, <1>1, InHand DEF Working
<1>3. same =>
        /\ new \in M!Slot /\ new.lifetime = slots[w].lifetime
        /\ new.generation = slots[w].generation /\ new.cancelled = slots[w].cancelled
        /\ new.pending = slots[w].pending /\ \A c, d \in new.correction : c = d
        /\ \/ /\ M!IsCurrent /\ \A c \in new.correction : c.to = M!Destination
              /\ job.retry = TRUE => new.correction # {}
              /\ job.retry = FALSE => new.correction = {}
              /\ new.completed # {} => new.completed = {at[w]}
           \/ /\ ~M!IsCurrent /\ M!CameLate(slots[w]) /\ new.correction # {}
              /\ new.completed = slots[w].completed
           \/ ~M!IsCurrent /\ ~M!CameLate(slots[w]) /\ new = slots[w]
  BY <1>0, <1>1, Settling
<1> HIDE DEF new
<1>4. same => slots' \in [Windows -> M!Slot] /\ slots'[w] = new
  BY <1>1, <1>3, OneSlot
<1>5. slots' \in [Windows -> M!Slot] /\ \A v \in Windows \ {w} : slots'[v] = slots[v]
  BY <1>1, <1>2, <1>3, OneSlot DEF MoverTypes
<1>6. /\ ready' \in Seq(Windows) /\ IsInjective(ready')
      /\ same => Range(ready') = IF M!HasWork(new) THEN Range(ready) \cup {w} ELSE Range(ready) \ {w}
  <2>1. CASE same
    BY <1>1, <2>1, QueueEdits
  <2>2. CASE ~same
    BY <1>1, <2>2, QueueTyped
  <2> QED
    BY <2>1, <2>2
<1>7. MoverTypes'
  BY <1>1, <1>2, <1>5, <1>6 DEF MoverTypes
<1>8. JobFits'
  BY <1>1 DEF JobFits
<1>9. Queue'
  <2>1. ASSUME NEW v \in Windows, M!InFlight(v) PROVE v = w /\ same
    <3>1. <<v, slots[v].lifetime>> \in {<<w, job.lifetime>>}
      BY <1>2, <2>1 DEF M!InFlight
    <3> QED
      BY <3>1
  <2>2. Range(ready) \subseteq Windows
    BY QueueTyped
  <2>3. CASE same
    BY <1>4, <1>5, <1>6, <2>1, <2>2, <2>3 DEF MoverInv, Queue
  <2>4. CASE ~same
    BY <1>1, <2>1, <2>4 DEF MoverInv, Queue
  <2> QED
    BY <2>3, <2>4
<1>10. ASSUME NEW v \in Windows \ {w} PROVE SlotFits(v)' /\ WindowFits(v)'
  <2>1. ~Working(v) /\ ~Working(v)' /\ \A f \in in_flight' : f[1] # v
    BY <1>0, <1>1 DEF Working
  <2> QED
    BY <1>1, <1>2, <1>5, <2>1, Untouched, SlotTyped
<1>11. CASE same
  <2>1. slots[w].lifetime # 0
    BY <1>2, <1>11
  <2>2. SlotFits(w)'
    BY <1>1, <1>2, <1>3, <1>4, <1>11, <2>1 DEF SlotFits
  <2>3. ~Working(w)'
    BY <1>1 DEF Working
  <2>4. M!IsCurrent => slots[w].correction = {} /\ job.generation = slots[w].generation
    BY <1>0, <1>1, <1>2 DEF JobFits, M!IsCurrent
  <2>5. Promised(w)'
    <3>1. slots[w].pending # {} => slots[w].pending = {goal[w]}
      BY <1>2 DEF WindowFits, Promised
    <3>2. CASE M!IsCurrent
      <4>1. slots[w].pending = {} =>
              \/ goal[w] = "any"
              \/ IF job.retry = FALSE THEN at[w] = goal[w] ELSE M!Destination = goal[w]
        BY <1>1, <1>2, <2>4, <3>2 DEF WindowFits, Promised
      <4>2. job.retry = TRUE \/ job.retry = FALSE
        BY <1>2 DEF JobType
      <4> QED
        BY <1>1, <1>3, <1>4, <1>11, <2>3, <3>1, <3>2, <4>1, <4>2 DEF Promised
    <3>3. CASE ~M!IsCurrent
      <4>1. slots[w].pending = {} =>
              \/ goal[w] = "any"
              \/ slots[w].correction # {} /\ \A c \in slots[w].correction : c.to = goal[w]
        BY <1>2, <3>3 DEF WindowFits, Promised
      <4>2. M!CameLate(slots[w]) => slots[w].correction = {}
        BY DEF M!CameLate
      <4> QED
        BY <1>1, <1>3, <1>4, <1>11, <2>3, <3>1, <3>3, <4>1, <4>2 DEF Promised
    <3> QED
      BY <3>2, <3>3
  <2>6. Completed(w)'
    <3>1. ~M!IsCurrent => slots[w].completed = {}
      BY <1>2 DEF WindowFits, Completed
    <3> QED
      BY <1>1, <1>3, <1>4, <1>11, <2>3, <3>1 DEF Completed
  <2>7. w \in late' => slots'[w].correction # {}
    <3> SUFFICES ASSUME w \in late PROVE new.correction # {}
      BY <1>1, <1>4, <1>11
    <3>1. Recovers(w)
      BY <1>2 DEF WindowFits
    <3>2. CASE M!IsCurrent
      <4>1. job.retry = TRUE
        BY <1>1, <1>2, <2>4, <3>1, <3>2 DEF Recovers, SlotFits
      <4> QED
        BY <1>3, <1>11, <3>2, <4>1
    <3>3. CASE ~M!IsCurrent
      <4>1. slots[w].correction = {} => M!CameLate(slots[w])
        BY <1>0, <1>1, <1>2, <3>1, <3>3 DEF Recovers, M!CameLate, M!IsCurrent
      <4> QED
        BY <1>3, <1>11, <3>3, <4>1
    <3> QED
      BY <3>2, <3>3
  <2>8. w \in stale' /\ M!Marked(w)' => \A f \in frame' : f[w] < slots'[w].generation
    BY <1>1, <1>2, <1>3, <1>4, <1>11 DEF WindowFits, M!Marked
  <2> QED
    BY <1>1, <1>2, <1>7, <1>8, <1>9, <1>10, <2>2, <2>5, <2>6, <2>7, <2>8
    DEF MoverInv, WindowFits, Recovers
<1>12. CASE ~same
  <2>1. ~M!IsCurrent /\ ~Working(w)' /\ slots' = slots
    BY <1>0, <1>1, <1>12 DEF M!IsCurrent, Working
  <2>2. SlotFits(w)'
    BY <1>1, <1>2, <2>1 DEF SlotFits
  <2>3. Promised(w)' /\ Completed(w)'
    BY <1>1, <1>2, <2>1 DEF WindowFits, Promised, Completed
  <2>4. w \in late' => Recovers(w)'
    BY <1>0, <1>1, <1>2, <1>12, <2>1 DEF WindowFits, Recovers
  <2>5. w \in stale' /\ M!Marked(w)' => \A f \in frame' : f[w] < slots'[w].generation
    BY <1>1, <1>2, <2>1 DEF WindowFits, M!Marked
  <2> QED
    BY <1>1, <1>2, <1>7, <1>8, <1>9, <1>10, <2>2, <2>3, <2>4, <2>5 DEF MoverInv, WindowFits
<1> QED
  BY <1>11, <1>12

(***************************************************************************)
(* Every step keeps the invariant, and a held window where it is.          *)
(***************************************************************************)
LEMMA MoverNext == ASSUME MoverInv, M!Next PROVE MoverInv'
<1>1. ASSUME M!Callers PROVE MoverInv'
  <2>1. CASE \E w \in Windows : M!Mark(w) \/ M!Forget(w)
    BY <2>1, Marking, Forgetting
  <2>2. CASE \E s \in observed : M!SealSkips(s) \/ M!SealCorrects(s)
    BY <2>2, Skipping, Correcting
  <2>3. CASE \E w \in Windows, t \in Targets, f \in frame : M!Submit(w, t, f)
    BY <2>3, Submitting
  <2>4. CASE \E ws \in {{w} : w \in Windows} \cup {Windows} : M!Cancel(ws)
    <3>1. PICK ws \in {{w} : w \in Windows} \cup {Windows} : M!Cancel(ws)
      BY <2>4
    <3>2. ws \in SUBSET Windows
      OBVIOUS
    <3> QED
      BY <3>1, <3>2, CancellingMoves
  <2>5. CASE \/ \E w \in Windows, t \in Targets : M!SealObserves(w, t)
             \/ \E s \in observed : M!SealUnmarked(s)
             \/ M!FramePrepared \/ M!CancelReturns \/ M!CancelTimesOut
    BY <2>5, Observing
  <2> QED
    BY <1>1, <2>1, <2>2, <2>3, <2>4, <2>5 DEF M!Callers
<1>2. ASSUME M!Mover \/ M!Expires \/ M!OwnerSilent PROVE MoverInv'
  BY <1>2, Picking, Outdated, GoingOn, Landing, Failing, Silence, Finishing DEF M!Mover
<1> QED
  BY <1>1, <1>2 DEF M!Next

LEMMA HeldStays == ASSUME MoverInv, M!Next PROVE \A w \in held : at'[w] = at[w]
<1>1. CASE M!Lands
  <2>1. job.window \notin held /\ MoverTypes
    BY <1>1, InHand DEF M!Lands
  <2>2. \E p : at' = [at EXCEPT ![job.window] = p]
    BY <1>1 DEF M!Lands
  <2> QED
    BY <2>1, <2>2 DEF MoverTypes
<1>2. CASE ~M!Lands
  <2>1. ASSUME M!Callers PROVE at' = at
    BY <2>1 DEF M!Callers, M!Mark, M!Forget, M!SealObserves, M!SealUnmarked, M!SealSkips,
       M!SealCorrects, M!FramePrepared, M!Submit, M!Cancel, M!CancelReturns, M!CancelTimesOut
  <2>2. ASSUME M!Mover \/ M!Expires \/ M!OwnerSilent PROVE at' = at
    BY <1>2, <2>2 DEF M!Mover, M!Pick, M!Superseded, M!OwnerAnswers, M!RecoverySuperseded,
       M!RecoveryGoesOn, M!CallFails, M!Finish, M!Expires, M!OwnerSilent
  <2> QED
    BY <2>1, <2>2 DEF M!Next
<1> QED
  BY <1>1, <1>2

LEMMA MoverStep == MoverInv /\ [PlacingNext]_placingVars => MoverInv'
<1> SUFFICES ASSUME MoverInv, [PlacingNext]_placingVars PROVE MoverInv'
  OBVIOUS
<1>1. CASE part = "mover" /\ M!Next
  BY <1>1, MoverNext
<1>2. CASE UNCHANGED moverVars
  <2>1. MoverTypes
    BY DEF MoverInv
  <2> QED
    BY <1>2, <2>1, MoverRests DEF moverVars, MoverTypes
<1> QED
  BY <1>1, <1>2 DEF PlacingNext, placingVars

\* The thread's work is queued once, a window ends where it was last told to
\* be, and a move that lands after its cancel is undone; and after a cancel
\* that returned with nothing in flight a window stays where it is.
THEOREM MoverSoundHolds == PlacingSafety => MoverSound
<1>1. MoverInv /\ [PlacingNext]_placingVars => [\A w \in held : at'[w] = at[w]]_(M!vars)
  <2> SUFFICES ASSUME MoverInv, [PlacingNext]_placingVars, ~UNCHANGED M!vars
               PROVE  \A w \in held : at'[w] = at[w]
    OBVIOUS
  <2>1. UNCHANGED moverVars => UNCHANGED M!vars
    BY DEF moverVars, M!vars, M!codeVars
  <2>2. M!Next
    BY <2>1 DEF PlacingNext, placingVars
  <2> QED
    BY <2>2, HeldStays
<1> QED
  BY <1>1, MoverInit, MoverStep, MoverImplies, PTL DEF PlacingSafety, MoverSound, M!CancelHolds

=============================================================================
