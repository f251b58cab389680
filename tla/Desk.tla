-------------------------------- MODULE Desk ---------------------------------
(***************************************************************************)
(* What one workspace promises, whatever its columns look like: a set of   *)
(* managed windows, some of them hidden (minimized), and at most one of    *)
(* the others shown fullscreen.  Windows come, go, hide and reappear one   *)
(* at a time; the fullscreen window leaves fullscreen when it goes or      *)
(* hides, and nothing but a change of the fullscreen target touches it     *)
(* otherwise.                                                              *)
(***************************************************************************)
CONSTANTS Windows, None

VARIABLES managed, hidden, full

Init == managed = {} /\ hidden = {} /\ full = None

FullWithout(w) == IF full = w THEN None ELSE full

\* A window may be minimized already when it arrives.
Arrive(w) ==
    /\ w \notin managed
    /\ managed' = managed \cup {w}
    /\ hidden' \in {hidden, hidden \cup {w}}
    /\ UNCHANGED full

Leave(w) ==
    /\ w \in managed
    /\ managed' = managed \ {w} /\ hidden' = hidden \ {w}
    /\ full' = FullWithout(w)

Hide(w) ==
    /\ w \in managed
    /\ hidden' = hidden \cup {w} /\ full' = FullWithout(w)
    /\ UNCHANGED managed

Show(w) ==
    /\ w \in hidden
    /\ hidden' = hidden \ {w}
    /\ UNCHANGED <<managed, full>>

Aim ==
    /\ full' \in (managed \ hidden) \cup {None}
    /\ UNCHANGED <<managed, hidden>>

Next ==
    \/ \E w \in Windows : Arrive(w) \/ Leave(w) \/ Hide(w) \/ Show(w)
    \/ Aim

Spec == Init /\ [][Next]_<<managed, hidden, full>>
=============================================================================
