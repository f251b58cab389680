----------------------------- MODULE SavedState -----------------------------
(***************************************************************************)
(* The workspaces on disk: requests to save, the task that gathers them,   *)
(* writers on their own threads, a crash at any point, and the next start  *)
(* that puts windows back from what it finds.                              *)
(*                                                                         *)
(* A window is in a slot (a workspace of a monitor), or closed.  What else *)
(* a snapshot holds (widths, scroll, titles) goes the same way and is left *)
(* out.                                                                    *)
(***************************************************************************)
EXTENDS Naturals, FiniteSets, Sequences, SequencesExt

CONSTANTS
    Windows, Slots,
    Places,         \* slots of monitors that may be away at a start
    MaxRequests,    \* depth of the save channel: 8
    MaxMoves, MaxStarts

\* What the parameters have to be; assumed where the module is instantiated.
SavedStateAssumption == {MaxRequests, MaxMoves, MaxStarts} \subseteq Nat \ {0} /\ Places \subseteq Slots

VARIABLES
    at,         \* slot of each window on the screen, or "closed"
    up,         \* the daemon runs
    asked,      \* last_persisted_sig: what a save was last requested for
    requests,   \* in the channel
    task,       \* the coalescing task: "idle", "quiet", "posting"
    writers,    \* writes under way, oldest first: [what, temp]
    file,       \* what the state file holds; none or one [whole, what]
    left,       \* (ghost) how the daemon last ended: "crashed", "stopped", or
                \* "alone": stopped with no other write under way
    latest,     \* (ghost) the snapshot the last started writer carries
    spent

savedVars == <<at, up, asked, requests, task, writers, file, latest, left, spent>>

Closed == "closed"
Live == {w \in Windows : at[w] # Closed}
\* build_state_json: what is managed now
Snapshot == [w \in Live |-> at[w]]

(***************************************************************************)
(* Saving.                                                                 *)
(***************************************************************************)
\* request_save_if_changed: a full channel already holds a request that will
\* see this change.
Requested(before) ==
    /\ asked' = {Snapshot'}
    /\ requests' = IF asked' # before /\ requests < MaxRequests THEN requests + 1 ELSE requests

Move ==
    /\ up /\ spent.moves < MaxMoves /\ spent' = [spent EXCEPT !.moves = @ + 1]
    /\ \E w \in Windows, s \in Slots \cup {Closed} : at[w] # s /\ at' = [at EXCEPT ![w] = s]
    /\ Requested(asked)
    /\ UNCHANGED <<up, task, writers, file, latest, left>>

\* spawn_debounced_save: a request starts a quiet period, one more starts it
\* again; then the loop is asked to save.
TakeRequest ==
    /\ up /\ task \in {"idle", "quiet"} /\ requests > 0
    /\ requests' = requests - 1 /\ task' = "quiet"
    /\ UNCHANGED <<at, up, asked, writers, file, latest, left, spent>>
QuietOver ==
    /\ up /\ task = "quiet" /\ task' = "posting"
    /\ UNCHANGED <<at, up, asked, requests, writers, file, latest, left, spent>>
Writer == [what |-> Snapshot, temp |-> {}]
\* handle_persist_state_now: the snapshot is taken here, a thread writes it.
PersistNow ==
    /\ up /\ task = "posting" /\ task' = "idle"
    /\ writers' = Append(writers, Writer) /\ latest' = {Snapshot}
    /\ UNCHANGED <<at, up, asked, requests, file, left, spent>>

\* write_state_file: a temporary file of its own, then the rename.
Begin == \E i \in DOMAIN writers : writers[i].temp = {} /\ writers' = [writers EXCEPT ![i].temp = {writers[i].what}]
WriteTemp ==
    /\ Begin
    /\ UNCHANGED <<at, up, asked, requests, task, file, latest, left, spent>>
Rename ==
    /\ \E i \in DOMAIN writers :
         /\ writers[i].temp # {}
         /\ file' = {[whole |-> TRUE, what |-> t] : t \in writers[i].temp}
         /\ writers' = RemoveAt(writers, i)
    /\ UNCHANGED <<at, up, asked, requests, task, latest, left, spent>>

\* (Variant: a stop that does not save.)
StopUnsaved ==
    /\ up /\ left' = (IF writers = <<>> THEN "alone" ELSE "stopped")
    /\ up' = FALSE /\ requests' = 0 /\ task' = "idle"
    /\ UNCHANGED <<at, asked, writers, file, latest, spent>>
\* run_shutdown_cleanup saves on its own thread; the runtime waits for the
\* writers when it is dropped.
Stop ==
    /\ up /\ writers' = Append(writers, Writer) /\ latest' = {Snapshot}
    /\ left' = (IF writers = <<>> THEN "alone" ELSE "stopped")
    /\ up' = FALSE /\ requests' = 0 /\ task' = "idle"
    /\ UNCHANGED <<at, asked, file, spent>>
Crash ==
    /\ up' = FALSE /\ writers' = <<>> /\ requests' = 0 /\ task' = "idle"
    /\ up \/ writers # <<>>
    /\ left' = "crashed"
    /\ UNCHANGED <<at, asked, file, latest, spent>>

(***************************************************************************)
(* Starting.                                                               *)
(***************************************************************************)
\* load_state: nothing for a missing file or one that does not parse
Saved == IF \E f \in file : f.whole THEN (CHOOSE f \in file : TRUE).what ELSE <<>>

\* restore_workspace_structure drops the windows that are gone and leaves out
\* monitors that are away; enumeration then adds the windows that are not yet
\* managed, where they stand.
Kept(f, away, open) == {w \in DOMAIN f : w \in open /\ f[w] \notin away}

Start ==
    /\ ~up /\ writers = <<>> /\ spent.starts < MaxStarts
    /\ spent' = [spent EXCEPT !.starts = @ + 1]
    /\ \E gone \in SUBSET Live, away \in SUBSET Places :
         LET open == Live \ gone
             kept == Kept(Saved, away, open)
         IN  \E stand \in [Windows -> Slots \ away] :
               at' = [w \in Windows |-> IF w \in kept THEN Saved[w] ELSE IF w \in open THEN stand[w] ELSE Closed]
    /\ up' = TRUE
    /\ Requested({})
    /\ UNCHANGED <<task, writers, file, latest, left>>

Init ==
    /\ at = [w \in Windows |-> Closed] /\ up = TRUE /\ latest = {} /\ left = "crashed"
    /\ asked = {} /\ requests = 0 /\ task = "idle" /\ writers = <<>> /\ file = {}
    /\ spent = [moves |-> 0, starts |-> 0]

Next ==
    \/ Move \/ TakeRequest \/ QuietOver \/ PersistNow \/ WriteTemp \/ Rename
    \/ Stop \/ Crash \/ Start

SavedSpec == Init /\ [][Next]_savedVars

(***************************************************************************)
(* Properties.                                                             *)
(***************************************************************************)
\* "readers always see a complete previous or new version" (write_state_file),
\* whatever writers race and wherever a crash falls.
FileWhole == \A f \in file : f.whole

\* A change that was noticed is on its way to the disk: a request is queued,
\* the task is busy, or the last snapshot taken has it.  A request dropped on
\* a full channel loses nothing.
ChangeOnItsWay == up /\ asked # {} => requests > 0 \/ task # "idle" \/ latest = asked

SavedStateSound == FileWhole /\ ChangeOnItsWay

\* "Each window returns to the exact monitor, workspace ... it had last
\* session" (CHANGELOG.md:811) while its monitor is there; no window that was
\* closed in between is managed, none that is open is missed.
BackInPlace == \A w \in Live' : at[w] \notin Places => at'[w] = at[w]
SessionRestored == [][~up /\ up' => /\ Live' \subseteq Live
                                    /\ left = "alone" => BackInPlace]_savedVars

\* The same after every stop that was not a crash.  An older debounced write
\* still under way may be renamed over the one of the stop.
SessionRestoredAlways == [][~up /\ up' /\ left # "crashed" => BackInPlace]_savedVars
=============================================================================
