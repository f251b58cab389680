----------------------------- MODULE EdgesProofs -----------------------------
(***************************************************************************)
(* Proofs about the daemon's edges: what the runs of MCEdges check of the  *)
(* saved state, of the windows the daemon brings back and of the processes *)
(* around the daemon holds for any parameters.  Each part rests while      *)
(* another moves, so its invariant holds whichever part a behaviour        *)
(* explores.                                                               *)
(***************************************************************************)
EXTENDS MCEdges, RetainProofs, FiniteSetTheorems

(***************************************************************************)
(* Saved state.                                                            *)
(***************************************************************************)
Snapshots == UNION {[d -> Slots \cup {S!Closed}] : d \in SUBSET Windows}
Writers == [what : Snapshots, temp : SUBSET Snapshots]

SavedTypes ==
    /\ at \in [Windows -> Slots \cup {S!Closed}]
    /\ up \in BOOLEAN /\ requests \in Nat
    /\ writers \in Seq(Writers)
    /\ file \subseteq [whole : BOOLEAN, what : Snapshots]
    /\ spent \in [moves : Nat, starts : Nat]

\* What was asked for is what is on the screen: every change asks.
AskedIsSeen == up /\ asked # {} => asked = {S!Snapshot}

\* A stop with no other write under way leaves one writer, then its file.
StopIsLast ==
    ~up /\ left = "alone" =>
       \/ /\ Len(writers) = 1 /\ writers[1].what = S!Snapshot
          /\ writers[1].temp \subseteq {S!Snapshot}
       \/ writers = <<>> /\ file = {[whole |-> TRUE, what |-> S!Snapshot]}

SavedInv == SavedTypes /\ S!SavedStateSound /\ AskedIsSeen /\ StopIsLast

\* A writer leaves the queue; the others keep their order.
LEMMA RemoveAtProperties ==
    ASSUME NEW Kind, NEW s \in Seq(Kind), NEW i \in DOMAIN s
    PROVE  /\ S!RemoveAt(s, i) \in Seq(Kind)
           /\ Len(S!RemoveAt(s, i)) = Len(s) - 1
BY DEF S!RemoveAt

LEMMA SnapshotType == SavedTypes => S!Snapshot \in Snapshots
<1> SUFFICES ASSUME SavedTypes PROVE S!Snapshot \in Snapshots
  OBVIOUS
<1>1. S!Live \in SUBSET Windows
  BY DEF S!Live
<1>2. S!Snapshot \in [S!Live -> Slots \cup {S!Closed}]
  BY <1>1 DEF S!Snapshot, SavedTypes
<1> QED
  BY <1>1, <1>2 DEF Snapshots

LEMMA SavedInit == EdgesInit => SavedInv
BY DEF EdgesInit, S!Init, SavedInv, SavedTypes, S!SavedStateSound, S!FileWhole,
       S!ChangeOnItsWay, AskedIsSeen, StopIsLast

\* A change, or a start, asks for the snapshot as it is afterwards.
LEMMA RequestedAsks ==
    ASSUME requests \in Nat, NEW before, S!Requested(before)
    PROVE  /\ requests' \in Nat /\ asked' = {S!Snapshot'}
           /\ before = asked' \/ requests' > 0
           /\ requests' >= requests
<1>1. MaxRequests \in Nat \ {0}
  BY EdgesAssumption DEF S!SavedStateAssumption
<1> QED
  BY <1>1 DEF S!Requested

LEMMA SavedStep == SavedInv /\ [EdgesNext]_edgeVars => SavedInv'
<1> SUFFICES ASSUME SavedInv, [EdgesNext]_edgeVars PROVE SavedInv'
  OBVIOUS
<1> USE DEF SavedInv
<1>1. CASE UNCHANGED savedVars
  BY <1>1 DEF savedVars, SavedTypes, S!SavedStateSound, S!FileWhole, S!ChangeOnItsWay,
              AskedIsSeen, StopIsLast, S!Snapshot, S!Live
<1>2. CASE S!Move
  <2>1. /\ requests' \in Nat /\ asked' = {S!Snapshot'}
        /\ asked = asked' \/ requests' > 0
        /\ requests' >= requests
    BY <1>2, RequestedAsks DEF S!Move, SavedTypes
  <2>2. SavedTypes'
    BY <1>2, <2>1 DEF S!Move, SavedTypes
  <2>3. (S!SavedStateSound)'
    <3>1. asked = asked' => asked # {}
      BY <2>1
    <3>2. asked = asked' => requests > 0 \/ task # "idle" \/ latest = asked
      BY <1>2, <3>1 DEF S!Move, S!SavedStateSound, S!ChangeOnItsWay
    <3>3. asked = asked' => requests' > 0 \/ task' # "idle" \/ latest' = asked'
      BY <1>2, <2>1, <3>2 DEF S!Move, SavedTypes
    <3> QED
      BY <1>2, <2>1, <3>3 DEF S!Move, S!SavedStateSound, S!FileWhole, S!ChangeOnItsWay
  <2> QED
    BY <1>2, <2>1, <2>2, <2>3 DEF S!Move, AskedIsSeen, StopIsLast
<1>3. CASE S!TakeRequest \/ S!QuietOver
  <2>1. S!Snapshot' = S!Snapshot
    BY <1>3 DEF S!TakeRequest, S!QuietOver, S!Snapshot, S!Live
  <2> QED
    BY <1>3, <2>1 DEF S!TakeRequest, S!QuietOver, SavedTypes, S!SavedStateSound, S!FileWhole,
              S!ChangeOnItsWay, AskedIsSeen, StopIsLast
<1>4. CASE S!PersistNow
  <2>1. S!Snapshot' = S!Snapshot
    BY <1>4 DEF S!PersistNow, S!Snapshot, S!Live
  <2>2. S!Writer \in Writers
    BY SnapshotType DEF S!Writer, Writers
  <2> QED
    BY <1>4, <2>1, <2>2, AppendProperties
       DEF S!PersistNow, SavedTypes, S!SavedStateSound, S!FileWhole, S!ChangeOnItsWay,
           AskedIsSeen, StopIsLast
<1>5. CASE S!WriteTemp
  <2>1. S!Snapshot' = S!Snapshot
    BY <1>5 DEF S!WriteTemp, S!Snapshot, S!Live
  <2>2. PICK i \in DOMAIN writers : /\ writers[i].temp = {}
                                    /\ writers' = [writers EXCEPT ![i].temp = {writers[i].what}]
    BY <1>5 DEF S!WriteTemp, S!Begin
  <2>3. writers' \in Seq(Writers) /\ Len(writers') = Len(writers)
    <3>1. writers \in Seq(Writers) /\ i \in 1..Len(writers)
      BY <2>2, LenProperties DEF SavedTypes
    <3>2. writers[i] \in Writers
      BY <3>1, ElementOfSeq
    <3>3. [writers[i] EXCEPT !.temp = {writers[i].what}] \in Writers
      BY <3>2 DEF Writers
    <3> QED
      BY <2>2, <3>1, <3>3, ExceptSeq
  <2>4. Len(writers) = 1 =>
          writers'[1].what = writers[1].what /\ writers'[1].temp = {writers[1].what}
    BY <2>2, LenProperties DEF SavedTypes, Writers
  <2>5. StopIsLast'
    BY <1>5, <2>1, <2>2, <2>3, <2>4 DEF S!WriteTemp, StopIsLast, SavedTypes
  <2> QED
    BY <1>5, <2>1, <2>3, <2>5
       DEF S!WriteTemp, SavedTypes, S!SavedStateSound, S!FileWhole, S!ChangeOnItsWay, AskedIsSeen
<1>6. CASE S!Rename
  <2>1. S!Snapshot' = S!Snapshot
    BY <1>6 DEF S!Rename, S!Snapshot, S!Live
  <2>2. PICK i \in DOMAIN writers :
           /\ writers[i].temp # {}
           /\ file' = {[whole |-> TRUE, what |-> t] : t \in writers[i].temp}
           /\ writers' = S!RemoveAt(writers, i)
    BY <1>6 DEF S!Rename
  <2>3. writers' \in Seq(Writers) /\ Len(writers') = Len(writers) - 1
    BY <2>2, RemoveAtProperties DEF SavedTypes
  <2>4. StopIsLast'
    <3> SUFFICES ASSUME ~up, left = "alone"
                 PROVE  writers' = <<>> /\ file' = {[whole |-> TRUE, what |-> S!Snapshot]}
      BY <1>6, <2>1 DEF S!Rename, StopIsLast
    <3>1. Len(writers) = 1 /\ writers[1].temp \subseteq {S!Snapshot}
      BY <2>2 DEF StopIsLast
    <3>2. i = 1
      BY <3>1, LenProperties DEF SavedTypes
    <3> QED
      BY <2>2, <2>3, <3>1, <3>2, EmptySeq
  <2>5. file' \subseteq [whole : BOOLEAN, what : Snapshots]
    <3>1. writers[i] \in Writers
      BY <2>2, ElementOfSeq, LenProperties DEF SavedTypes
    <3>2. writers[i].temp \subseteq Snapshots
      BY <3>1 DEF Writers
    <3>3. \A t \in writers[i].temp :
            [whole |-> TRUE, what |-> t] \in [whole : BOOLEAN, what : Snapshots]
      BY <3>2
    <3> QED
      BY <2>2, <3>3
  <2> QED
    BY <1>6, <2>1, <2>2, <2>3, <2>4, <2>5
       DEF S!Rename, SavedTypes, S!SavedStateSound, S!FileWhole, S!ChangeOnItsWay, AskedIsSeen
<1>7. CASE S!Stop
  <2>1. S!Snapshot' = S!Snapshot
    BY <1>7 DEF S!Stop, S!Snapshot, S!Live
  <2>2. S!Writer \in Writers
    BY SnapshotType DEF S!Writer, Writers
  <2>3. writers' \in Seq(Writers)
    BY <1>7, <2>2, AppendProperties DEF S!Stop, SavedTypes
  <2>4. writers = <<>> => Len(writers') = 1 /\ writers'[1] = S!Writer
    BY <1>7, <2>2, AppendProperties DEF S!Stop, SavedTypes
  <2>5. StopIsLast'
    BY <1>7, <2>1, <2>4 DEF S!Stop, StopIsLast, S!Writer
  <2> QED
    BY <1>7, <2>1, <2>3, <2>5
       DEF S!Stop, SavedTypes, S!SavedStateSound, S!FileWhole, S!ChangeOnItsWay, AskedIsSeen
<1>8. CASE S!Crash
  BY <1>8, EmptySeq
     DEF S!Crash, SavedTypes, S!SavedStateSound, S!FileWhole, S!ChangeOnItsWay, AskedIsSeen, StopIsLast
<1>9. CASE S!Start
  <2>1. /\ requests' \in Nat /\ asked' = {S!Snapshot'}
        /\ {} = asked' \/ requests' > 0
    BY <1>9, RequestedAsks DEF S!Start, SavedTypes
  <2>2. at' \in [Windows -> Slots \cup {S!Closed}]
    <3>1. S!Saved \in Snapshots \/ S!Saved = <<>>
      BY DEF S!Saved, SavedTypes
    <3>2. \A w \in DOMAIN S!Saved : S!Saved[w] \in Slots \cup {S!Closed}
      BY <3>1 DEF Snapshots
    <3> QED
      BY <1>9, <3>2 DEF S!Start, S!Kept
  <2>3. SavedTypes'
    <3>1. /\ up' = TRUE /\ UNCHANGED <<writers, file>>
          /\ spent' = [spent EXCEPT !.starts = @ + 1]
      BY <1>9 DEF S!Start
    <3> QED
      BY <2>1, <2>2, <3>1 DEF SavedTypes
  <2> QED
    BY <1>9, <2>1, <2>3
       DEF S!Start, S!SavedStateSound, S!FileWhole, S!ChangeOnItsWay, AskedIsSeen, StopIsLast
<1> QED
  BY <1>1, <1>2, <1>3, <1>4, <1>5, <1>6, <1>7, <1>8, <1>9
     DEF EdgesNext, S!Next, edgeVars, savedVars
\* While nothing runs, a file that the last stop wrote alone holds what was on
\* the screen, and a start takes back the windows whose place is there.
LEMMA SavedRestores ==
    SavedInv /\ [EdgesNext]_edgeVars =>
      [~up /\ up' => /\ S!Live' \subseteq S!Live
                     /\ left = "alone" => S!BackInPlace]_S!savedVars
<1> SUFFICES ASSUME SavedInv, [EdgesNext]_edgeVars, ~up, up'
             PROVE  S!Live' \subseteq S!Live /\ (left = "alone" => S!BackInPlace)
  OBVIOUS
<1>1. S!Start
  BY DEF EdgesNext, edgeVars, savedVars, S!Next, S!Move, S!TakeRequest, S!QuietOver,
         S!PersistNow, S!WriteTemp, S!Rename, S!Stop, S!Crash
<1>2. PICK gone \in SUBSET S!Live, away \in SUBSET Places :
        \E stand \in [Windows -> Slots \ away] :
          at' = [w \in Windows |->
                   IF w \in S!Kept(S!Saved, away, S!Live \ gone) THEN S!Saved[w]
                   ELSE IF w \in S!Live \ gone THEN stand[w] ELSE S!Closed]
  BY <1>1 DEF S!Start
<1>3. S!Live' \subseteq S!Live
  BY <1>2 DEF S!Live, S!Kept
<1>4. ASSUME left = "alone", NEW w \in S!Live', at[w] \notin Places
      PROVE  at'[w] = at[w]
  <2>1. Len(writers) = 0
    BY <1>1 DEF S!Start
  <2>2. file = {[whole |-> TRUE, what |-> S!Snapshot]}
    BY <1>4, <2>1 DEF SavedInv, StopIsLast
  <2>3. S!Saved = S!Snapshot
    <3> DEFINE only == [whole |-> TRUE, what |-> S!Snapshot]
    <3>1. file = {only}
      BY <2>2
    <3>2. (CHOOSE f \in file : TRUE) = only /\ \E f \in file : f.whole
      BY <3>1
    <3>3. only.what = S!Snapshot
      OBVIOUS
    <3> HIDE DEF only
    <3> QED
      BY <3>2, <3>3 DEF S!Saved
  <2>4. w \in Windows /\ w \in S!Live /\ w \in S!Live \ gone
    BY <1>2, <1>3, <1>4 DEF S!Live, S!Kept
  <2>5. w \in S!Kept(S!Saved, away, S!Live \ gone)
    BY <1>4, <2>3, <2>4 DEF S!Kept, S!Snapshot
  <2> QED
    BY <1>2, <2>3, <2>4, <2>5 DEF S!Snapshot
<1> QED
  BY <1>3, <1>4 DEF S!BackInPlace

\* The state file is whole and every change noticed is on its way to it; no
\* window closed in between is managed after a start, and after a stop that
\* nothing raced every window is back where it was (persistence.rs, main.rs).
THEOREM SavedStateKeptHolds == EdgesSpec => SavedStateKept
<1>1. SavedInv => SavedStateSound
  BY DEF SavedInv, SavedStateSound
<1>2. EdgesSpec => []SavedInv
  BY SavedInit, SavedStep, PTL DEF EdgesSpec
<1>3. EdgesSpec => []SavedStateSound
  BY <1>1, <1>2, PTL
<1>4. EdgesSpec => S!SessionRestored
  BY <1>2, SavedRestores, PTL DEF EdgesSpec, S!SessionRestored
<1> QED
  BY <1>3, <1>4 DEF SavedStateKept

(***************************************************************************)
(* Windows brought back.                                                   *)
(***************************************************************************)
\* A set laid out as a sequence has every element in it, and nothing else.
LEMMA SetToSeqProperties ==
    ASSUME NEW Kind, IsFiniteSet(Kind)
    PROVE  R!SetToSeq(Kind) \in Seq(Kind) /\ Range(R!SetToSeq(Kind)) = Kind
<1> DEFINE n == Cardinality(Kind)
<1>1. n \in Nat /\ ExistsBijection(1..n, Kind)
  BY FS_CardinalityType
<1>2. R!Cardinality(Kind) = n
  BY DEF Cardinality, R!Cardinality
<1>3. PICK b \in [1..n -> Kind] : \A i, j \in 1..n : b[i] = b[j] => i = j
  BY <1>1 DEF ExistsBijection, Bijection, Injection, IsInjective
<1> DEFINE g == R!SetToSeq(Kind)
<1>4. g \in [1..n -> Kind] /\ \A i, j \in 1..n : g[i] = g[j] => i = j
  <2>1. \E f \in [1..n -> Kind] : R!IsInjective(f)
    BY <1>3 DEF R!IsInjective
  <2>2. g = CHOOSE f \in [1..n -> Kind] : R!IsInjective(f)
    BY <1>2 DEF R!SetToSeq
  <2> QED
    BY <2>1, <2>2 DEF R!IsInjective
<1>5. g \in Injection(1..n, Kind)
  BY <1>4 DEF Injection, IsInjective
<1>6. IsFiniteSet(1..n) /\ Cardinality(1..n) = n
  BY <1>1, FS_Interval
<1>7. g \in Surjection(1..n, Kind)
  BY <1>5, <1>6, FS_Injection
<1>8. g \in Seq(Kind) /\ Len(g) = n
  BY <1>1, <1>4, SeqDef
<1> QED
  BY <1>4, <1>7, <1>8 DEF Surjection, Range

(***************************************************************************)
(* Lists of things to do.                                                  *)
(***************************************************************************)
\* "end" is only ever the last of them, and no window comes after "settle".
EndsLast(list) == \A i \in 1..Len(list) : list[i] = "end" => i = Len(list)
SettlesAfter(list) ==
    \A i \in 1..Len(list) :
      list[i] \in Windows => \E j \in 1..Len(list) : i < j /\ list[j] = "settle"

LEMMA TailProperties ==
    ASSUME NEW Kind, NEW s \in Seq(Kind), s # <<>>
    PROVE  /\ Tail(s) \in Seq(Kind) /\ Head(s) \in Kind
           /\ Range(s) = {Head(s)} \cup Range(Tail(s))
           /\ EndsLast(s) => EndsLast(Tail(s))
           /\ EndsLast(s) /\ Head(s) = "end" => Range(s) = {"end"}
           /\ SettlesAfter(s) => SettlesAfter(Tail(s))
           /\ SettlesAfter(s) /\ Head(s) \in Windows => "settle" \in Range(Tail(s))
<1> DEFINE t == Tail(s)
<1>1. /\ t \in Seq(Kind) /\ Head(s) \in Kind /\ Len(t) = Len(s) - 1
      /\ \A i \in 1..Len(t) : t[i] = s[i+1]
      /\ Len(s) \in Nat \ {0} /\ Head(s) = s[1]
  BY HeadTailProperties, EmptySeq
<1>2. Range(s) = {s[i] : i \in 1..Len(s)} /\ Range(t) = {t[i] : i \in 1..Len(t)}
  BY <1>1, RangeEquality, ZenonT(40)
<1> HIDE DEF t
<1>3. Range(s) = {s[1]} \cup Range(t)
  <2>1. ASSUME NEW i \in 1..Len(s), i # 1 PROVE s[i] \in Range(t)
    <3>1. i - 1 \in 1..Len(t) /\ t[i-1] = s[i]
      BY <1>1, <2>1
    <3> QED
      BY <1>2, <3>1
  <2>2. ASSUME NEW i \in 1..Len(t) PROVE t[i] \in Range(s)
    <3>1. i + 1 \in 1..Len(s) /\ t[i] = s[i+1]
      BY <1>1
    <3> QED
      BY <1>2, <3>1
  <2>3. s[1] \in Range(s)
    BY <1>1, <1>2
  <2> QED
    BY <1>2, <2>1, <2>2, <2>3
<1>4. EndsLast(s) => EndsLast(t)
  BY <1>1 DEF EndsLast
<1>5. EndsLast(s) /\ s[1] = "end" => Range(s) = {"end"}
  <2> SUFFICES ASSUME EndsLast(s), s[1] = "end" PROVE Range(s) = {"end"}
    OBVIOUS
  <2>1. Len(s) = 1
    BY <1>1 DEF EndsLast
  <2> QED
    BY <1>1, <1>2, <2>1
<1>6. SettlesAfter(s) => SettlesAfter(t)
  <2> SUFFICES ASSUME SettlesAfter(s), NEW i \in 1..Len(t), t[i] \in Windows
               PROVE  \E j \in 1..Len(t) : i < j /\ t[j] = "settle"
    BY DEF SettlesAfter
  <2>1. i + 1 \in 1..Len(s) /\ s[i+1] \in Windows
    BY <1>1
  <2>2. PICK j \in 1..Len(s) : i + 1 < j /\ s[j] = "settle"
    BY <2>1 DEF SettlesAfter
  <2>3. j - 1 \in 1..Len(t) /\ i < j - 1 /\ t[j-1] = "settle"
    BY <1>1, <2>2
  <2> QED
    BY <2>3
<1>7. SettlesAfter(s) /\ s[1] \in Windows => "settle" \in Range(t)
  <2> SUFFICES ASSUME SettlesAfter(s), s[1] \in Windows PROVE "settle" \in Range(t)
    OBVIOUS
  <2>1. PICK j \in 1..Len(s) : 1 < j /\ s[j] = "settle"
    BY <1>1 DEF SettlesAfter
  <2>2. j - 1 \in 1..Len(t) /\ t[j-1] = "settle"
    BY <1>1, <2>1
  <2> QED
    BY <1>2, <2>2
<1> QED
  BY <1>1, <1>3, <1>4, <1>5, <1>6, <1>7 DEF t

\* What comes before the end of a list.
LEMMA EndProperties ==
    ASSUME NEW Kind, NEW s \in Seq(Kind), "end" \notin Range(s), {"settle", "end"} \subseteq Kind,
           {"settle", "end"} \cap Windows = {}
    PROVE  /\ EndsLast(s \o <<"end">>)
           /\ EndsLast(s \o <<"settle", "end">>)
           /\ SettlesAfter(s \o <<"settle", "end">>)
<1>1. Range(s) = {s[i] : i \in 1..Len(s)} /\ Len(s) \in Nat
  BY RangeEquality, LenProperties
<1>2. \A i \in 1..Len(s) : s[i] # "end"
  BY <1>1
<1>3. EndsLast(s \o <<"end">>)
  <2>1. <<"end">> \in Seq(Kind) /\ Len(<<"end">>) = 1
    OBVIOUS
  <2> QED
    BY <1>1, <1>2, <2>1, ConcatProperties DEF EndsLast
<1> DEFINE e == <<"settle", "end">>
<1>4. e \in Seq(Kind) /\ Len(e) = 2 /\ e[1] = "settle" /\ e[2] = "end"
  OBVIOUS
<1> HIDE DEF e
<1>5. /\ Len(s \o e) = Len(s) + 2
      /\ \A i \in 1..Len(s) + 2 : (s \o e)[i] = IF i <= Len(s) THEN s[i] ELSE e[i - Len(s)]
  <2>1. /\ Len(s \o e) = Len(s) + Len(e)
        /\ \A i \in 1..Len(s) + Len(e) :
              (s \o e)[i] = IF i <= Len(s) THEN s[i] ELSE e[i - Len(s)]
    BY <1>4, ConcatProperties
  <2> QED
    BY <1>4, <2>1
<1>6. EndsLast(s \o e)
  BY <1>1, <1>2, <1>4, <1>5 DEF EndsLast
<1>7. SettlesAfter(s \o e)
  <2> SUFFICES ASSUME NEW i \in 1..Len(s \o e), (s \o e)[i] \in Windows
               PROVE  \E j \in 1..Len(s \o e) : i < j /\ (s \o e)[j] = "settle"
    BY DEF SettlesAfter
  <2>1. i <= Len(s)
    BY <1>1, <1>4, <1>5
  <2>2. Len(s) + 1 \in 1..Len(s \o e) /\ (s \o e)[Len(s) + 1] = "settle"
    BY <1>1, <1>4, <1>5
  <2> QED
    BY <1>1, <2>1, <2>2
<1> QED
  BY <1>3, <1>6, <1>7 DEF e
(***************************************************************************)
(* Rescue.                                                                 *)
(***************************************************************************)
Items == Windows \cup R!Steps
PlaceType == [at : R!Positions, hung : BOOLEAN, queue : Seq(R!Positions)]

RescueTypes ==
    /\ place \in [Windows -> PlaceType]
    /\ wait \in [Windows -> {{}, {"on"}, {"off"}}]
    /\ pass \in Seq(Items) /\ emergency \in Seq(Items)
    /\ expired \in BOOLEAN
    /\ moves \in [Windows -> {"none", "check", "move"}]

\* A window without a move nobody recorded: a recorded move is the last one,
\* and a move that is not recorded ends on screen.
Recorded ==
    /\ \A w \in Windows \ blind :
         /\ wait[w] = {"on"} => R!EndsOn(w)
         /\ wait[w] = {} => place[w].queue = <<>> \/ R!EndsOn(w)
    /\ \A w \in Late : wait[w] = {}

\* Every window a pass has to answer for ends on screen, or is ahead in its
\* list.
PassLeft ==
    pass # <<>> =>
       /\ EndsLast(pass)
       /\ cloak = {} \/ "uncloak" \in Range(pass)
       /\ \A w \in Windows \ (blind \cup silent) : R!EndsOn(w) \/ w \in Range(pass)

\* Or, in the emergency, it was late in time, or its thread is waited for.
EmergencyLeft ==
    emergency # <<>> =>
       /\ EndsLast(emergency) /\ SettlesAfter(emergency)
       /\ cloak = {} \/ "uncloak" \in Range(emergency)
       /\ \A w \in Windows \ (blind \cup silent) :
            \/ R!EndsOn(w) \/ w \in Range(emergency)
            \/ w \in Late /\ (expired \/ (moves[w] # "none" /\ "settle" \in Range(emergency)))

RescueInv == RescueTypes /\ Recorded /\ PassLeft /\ EmergencyLeft

LEMMA RescueInit == EdgesInit => RescueInv
<1> SUFFICES ASSUME EdgesInit PROVE RescueInv
  OBVIOUS
<1>1. <<>> \in Seq(Items) /\ <<>> \in Seq(R!Positions)
  BY EmptySeq
<1>2. {<<>>, <<"on">>, <<"off">>} \subseteq Seq(R!Positions)
  BY <1>1 DEF R!Positions
<1>3. CASE part = "rescue"
  <2>1. R!RescueInit
    BY <1>3 DEF EdgesInit
  <2>2. RescueTypes
    BY <1>1, <1>2, <2>1, ZenonT(40)
       DEF R!RescueInit, R!Undone, RescueTypes, PlaceType, R!Standing
  <2>3. Recorded
    <3>1. \A w \in Windows \ blind : wait[w] = {"on"} => R!EndsOn(w)
      BY <2>1 DEF R!RescueInit, R!EndsOn
    <3>2. \A w \in Windows \ blind : wait[w] = {} => place[w].queue = <<>>
      BY <2>1 DEF R!RescueInit
    <3>3. \A w \in Late : wait[w] = {}
      BY <2>1, EdgesAssumption DEF R!RescueInit, R!RescueAssumption
    <3> QED
      BY <3>1, <3>2, <3>3 DEF Recorded
  <2> QED
    BY <2>1, <2>2, <2>3 DEF R!RescueInit, R!Undone, RescueInv, PassLeft, EmergencyLeft
<1>4. CASE part # "rescue"
  <2>1. /\ place = [w \in Windows |-> [at |-> "on", hung |-> FALSE, queue |-> <<>>]]
        /\ wait = [w \in Windows |-> {}] /\ R!Undone
    BY <1>4 DEF EdgesInit
  <2>2. RescueTypes
    BY <1>1, <2>1 DEF R!Undone, RescueTypes, PlaceType, R!Positions
  <2>3. Recorded
    BY <2>1, EdgesAssumption DEF Recorded, R!RescueAssumption
  <2> QED
    BY <2>1, <2>2, <2>3 DEF R!Undone, RescueInv, PassLeft, EmergencyLeft
<1> QED
  BY <1>3, <1>4

\* Wherever a window was going to end on screen it still does.
Ends == \A w \in Windows : R!EndsOn(w) => R!EndsOn(w)'

LEMMA DeliverEnds ==
    ASSUME RescueTypes, Recorded, NEW w \in Windows, R!Deliver(w)
    PROVE  place' \in [Windows -> PlaceType] /\ Ends /\ Recorded'
<1> DEFINE q == place[w].queue
<1>1. q \in Seq(R!Positions) /\ q # <<>>
  BY DEF RescueTypes, PlaceType, R!Deliver
<1>2. /\ Head(q) \in R!Positions /\ Tail(q) \in Seq(R!Positions)
      /\ Len(Tail(q)) = Len(q) - 1 /\ Len(q) \in Nat \ {0}
      /\ \A i \in 1..Len(Tail(q)) : Tail(q)[i] = q[i+1]
  BY <1>1, HeadTailProperties, EmptySeq
<1>3. /\ place' = [place EXCEPT ![w].at = Head(q), ![w].queue = Tail(q)]
      /\ place[w] \in PlaceType
  BY DEF R!Deliver, RescueTypes
<1>4. /\ place' \in [Windows -> PlaceType]
      /\ place'[w].at = Head(q) /\ place'[w].queue = Tail(q)
  BY <1>2, <1>3 DEF RescueTypes, PlaceType
<1>5. Tail(q) = <<>> => Head(q) = q[Len(q)]
  <2> SUFFICES ASSUME Tail(q) = <<>> PROVE Head(q) = q[Len(q)]
    OBVIOUS
  <2>1. Len(Tail(q)) = 0
    BY EmptySeq
  <2>2. Len(q) = 1
    BY <1>2, <2>1
  <2> QED
    BY <1>1, <2>2
<1>6. Tail(q) # <<>> => Tail(q)[Len(Tail(q))] = q[Len(q)]
  <2> SUFFICES ASSUME Tail(q) # <<>> PROVE Tail(q)[Len(Tail(q))] = q[Len(q)]
    OBVIOUS
  <2>1. Len(Tail(q)) \in Nat \ {0}
    BY <1>2, EmptySeq
  <2> QED
    BY <1>2, <2>1
<1>7. R!EndsOn(w) <=> R!EndsOn(w)'
  BY <1>1, <1>4, <1>5, <1>6 DEF R!EndsOn, R!Last
<1>8. \A v \in Windows \ {w} : place'[v] = place[v]
  BY <1>3 DEF RescueTypes
<1>9. \A v \in Windows : R!EndsOn(v) <=> R!EndsOn(v)'
  BY <1>7, <1>8 DEF R!EndsOn, R!Last
<1>10. Recorded'
  BY <1>1, <1>8, <1>9 DEF Recorded, R!Deliver, R!Quiet
<1> QED
  BY <1>4, <1>9, <1>10 DEF Ends

LEMMA HungEnds ==
    ASSUME RescueTypes, Recorded, NEW w \in Windows, R!Hang(w) \/ R!Answer(w)
    PROVE  place' \in [Windows -> PlaceType] /\ Ends /\ Recorded'
<1>1. PICK h \in BOOLEAN : place' = [place EXCEPT ![w].hung = h]
  BY DEF R!Hang, R!Answer
<1>2. place' \in [Windows -> PlaceType]
  BY <1>1 DEF RescueTypes, PlaceType
<1>3. \A v \in Windows : place'[v].at = place[v].at /\ place'[v].queue = place[v].queue
  BY <1>1 DEF RescueTypes, PlaceType
<1>4. \A v \in Windows : R!EndsOn(v) <=> R!EndsOn(v)'
  BY <1>3 DEF R!EndsOn, R!Last
<1>5. UNCHANGED <<wait, blind>>
  BY DEF R!Hang, R!Answer, R!Quiet
<1> QED
  BY <1>2, <1>3, <1>4, <1>5 DEF Ends, Recorded

\* A move that is queued, and recorded where one was, takes the window back.
LEMMA MoveQueuedEnds ==
    ASSUME RescueTypes, Recorded, NEW w \in Windows, R!MoveQueued(w), UNCHANGED blind
    PROVE  /\ place' \in [Windows -> PlaceType]
           /\ wait' \in [Windows -> {{}, {"on"}, {"off"}}]
           /\ Ends /\ R!EndsOn(w)' /\ Recorded'
<1> DEFINE q == place[w].queue
<1>1. q \in Seq(R!Positions) /\ "on" \in R!Positions
  BY DEF RescueTypes, PlaceType, R!Positions
<1>2. /\ Append(q, "on") \in Seq(R!Positions) /\ Append(q, "on") # <<>>
      /\ Len(Append(q, "on")) = Len(q) + 1 /\ Append(q, "on")[Len(q) + 1] = "on"
  BY <1>1, AppendProperties
<1>3. place' = [place EXCEPT ![w].queue = Append(q, "on")] /\ place[w] \in PlaceType
  BY DEF R!MoveQueued, RescueTypes
<1>4. place' \in [Windows -> PlaceType] /\ place'[w].queue = Append(q, "on")
  BY <1>2, <1>3 DEF RescueTypes, PlaceType
<1>5. R!EndsOn(w)'
  BY <1>2, <1>4 DEF R!EndsOn, R!Last
<1>6. \A v \in Windows \ {w} : place'[v] = place[v]
  BY <1>3 DEF RescueTypes
<1>7. Ends
  BY <1>5, <1>6 DEF Ends, R!EndsOn, R!Last
<1>8. /\ wait' \in [Windows -> {{}, {"on"}, {"off"}}]
      /\ \A v \in Windows \ {w} : wait'[v] = wait[v]
      /\ w \in Late => wait' = wait
  BY DEF R!MoveQueued, R!OwnerWaitTarget, RescueTypes
<1>9. Recorded'
  <2>1. \A v \in Windows \ {w} : R!EndsOn(v)' <=> R!EndsOn(v)
    BY <1>6 DEF R!EndsOn, R!Last
  <2>2. \A v \in Windows \ blind' :
           /\ wait'[v] = {"on"} => R!EndsOn(v)'
           /\ wait'[v] = {} => place'[v].queue = <<>> \/ R!EndsOn(v)'
    BY <1>5, <1>6, <1>8, <2>1 DEF Recorded
  <2>3. \A v \in Late : wait'[v] = {}
    BY <1>8, EdgesAssumption DEF Recorded, R!RescueAssumption
  <2> QED
    BY <2>2, <2>3 DEF Recorded
<1> QED
  BY <1>4, <1>5, <1>7, <1>8, <1>9

\* A move its caller waits for takes a window with nothing recorded back.
LEMMA MoveNowEnds ==
    ASSUME RescueTypes, Recorded, NEW w \in Windows, R!MoveNow(w), UNCHANGED blind
    PROVE  /\ place' \in [Windows -> PlaceType] /\ UNCHANGED wait
           /\ Ends /\ Recorded'
           /\ wait[w] = {} /\ w \notin blind => R!EndsOn(w)'
<1>1. place' = [place EXCEPT ![w].at = "on"] /\ place[w] \in PlaceType
  BY DEF R!MoveNow, RescueTypes
<1>2. place' \in [Windows -> PlaceType] /\ UNCHANGED wait
  <2>1. place' \in [Windows -> PlaceType]
    BY <1>1 DEF RescueTypes, PlaceType, R!Positions
  <2> QED
    BY <2>1 DEF R!MoveNow
<1>3. \A v \in Windows : place'[v].queue = place[v].queue
  BY <1>1 DEF RescueTypes, PlaceType
<1>4. place'[w].at = "on" /\ \A v \in Windows : place[v].at = "on" => place'[v].at = "on"
  BY <1>1 DEF RescueTypes, PlaceType
<1>5. Ends
  BY <1>3, <1>4 DEF Ends, R!EndsOn, R!Last
<1>6. Recorded'
  BY <1>2, <1>3, <1>5 DEF Recorded, Ends
<1>7. wait[w] = {} /\ w \notin blind => R!EndsOn(w)'
  BY <1>3, <1>4, <1>5 DEF Recorded, Ends, R!EndsOn
<1> QED
  BY <1>2, <1>5, <1>6, <1>7

\* A window found in sight ends there.
LEMMA InSightEnds ==
    ASSUME RescueTypes, Recorded, NEW w \in Windows \ blind, ~R!Away(w)
    PROVE  R!EndsOn(w)
BY DEF R!Away, R!OwnerWaitTarget, Recorded, RescueTypes, PlaceType, R!EndsOn, R!Positions
LEMMA ListTypes ==
    /\ R!Prompt \in Seq(Items) /\ Range(R!Prompt) = Windows \ Late
    /\ R!Marked \in Seq(Items) /\ Range(R!Marked) = Late
<1>1. /\ IsFiniteSet(Windows) /\ Late \subseteq Windows
  BY EdgesAssumption DEF R!RescueAssumption, IsFiniteSet, R!IsFiniteSet
<1>2. IsFiniteSet(Late) /\ IsFiniteSet(Windows \ Late)
  BY <1>1, FS_Subset
<1>3. Late \subseteq Items /\ Windows \ Late \subseteq Items
  BY <1>1 DEF Items
<1> QED
  BY <1>2, <1>3, SetToSeqProperties, SeqMonotonic DEF R!Prompt, R!Marked

LEMMA StepsApart == Windows \cap {"uncloak", "settle", "end"} = {} /\ Late \subseteq Windows
BY EdgesAssumption DEF R!RescueAssumption, R!Steps

LEMMA Joined ==
    \A s, t \in Seq(Items) : s \o t \in Seq(Items) /\ Range(s \o t) = Range(s) \cup Range(t)
BY ConcatProperties, RangeConcatenation

LEMMA Single == \A x \in Items : <<x>> \in Seq(Items) /\ Range(<<x>>) = {x}
BY DEF Range

LEMMA PassStarts ==
    ASSUME R!StartPass \/ R!StartPanicPass
    PROVE  /\ pass' \in Seq(Items) /\ EndsLast(pass')
           /\ "uncloak" \in Range(pass') /\ Windows \subseteq Range(pass')
<1>1. "end" \notin Windows /\ {"uncloak", "settle", "end"} \subseteq Items
      /\ {"settle", "end"} \cap Windows = {} /\ Late \subseteq Windows
  BY StepsApart DEF Items, R!Steps
<1> DEFINE u == <<"uncloak">>
           e == <<"end">>
<1>2. u \in Seq(Items) /\ Range(u) = {"uncloak"} /\ e \in Seq(Items) /\ Range(e) = {"end"}
  BY <1>1, Single
<1>3. \E l \in Seq(Items) : Range(l) = Windows \cup {"uncloak"} /\ pass' = l \o e
  <2> HIDE DEF u
  <2>1. CASE pass' = R!Prompt \o u \o R!Marked \o e
    <3> DEFINE a == R!Prompt \o u
               l == a \o R!Marked
    <3>1. a \in Seq(Items) /\ Range(a) = (Windows \ Late) \cup {"uncloak"}
      BY <1>2, ListTypes, Joined
    <3> HIDE DEF a
    <3>2. l \in Seq(Items) /\ Range(l) = Windows \cup {"uncloak"}
      BY <1>1, <3>1, ListTypes, Joined
    <3>3. pass' = l \o e
      BY <2>1 DEF a
    <3> QED
      BY <3>2, <3>3
  <2>2. CASE pass' = u \o R!Prompt \o R!Marked \o e
    <3> DEFINE a == u \o R!Prompt
               l == a \o R!Marked
    <3>1. a \in Seq(Items) /\ Range(a) = (Windows \ Late) \cup {"uncloak"}
      BY <1>2, ListTypes, Joined
    <3> HIDE DEF a
    <3>2. l \in Seq(Items) /\ Range(l) = Windows \cup {"uncloak"}
      BY <1>1, <3>1, ListTypes, Joined
    <3>3. pass' = l \o e
      BY <2>2 DEF a
    <3> QED
      BY <3>2, <3>3
  <2> QED
    BY <2>1, <2>2 DEF R!StartPass, R!StartPanicPass, R!Start, u
<1>4. PICK l \in Seq(Items) : Range(l) = Windows \cup {"uncloak"} /\ pass' = l \o e
  BY <1>3
<1>5. EndsLast(pass')
  BY <1>1, <1>4, EndProperties
<1> HIDE DEF e
<1> QED
  BY <1>2, <1>4, <1>5, Joined

LEMMA EmergencyStarts ==
    ASSUME R!StartEmergency
    PROVE  /\ emergency' \in Seq(Items) /\ EndsLast(emergency') /\ SettlesAfter(emergency')
           /\ "uncloak" \in Range(emergency') /\ Windows \subseteq Range(emergency')
<1>1. "end" \notin Windows /\ {"uncloak", "settle", "end"} \subseteq Items
      /\ {"settle", "end"} \cap Windows = {} /\ Late \subseteq Windows
  BY StepsApart DEF Items, R!Steps
<1> DEFINE u == <<"uncloak">>
           e == <<"settle", "end">>
           a == R!Prompt \o u
           b == a \o R!Prompt
           c == b \o R!Marked
           l == c \o R!Marked
<1>2. u \in Seq(Items) /\ Range(u) = {"uncloak"} /\ e \in Seq(Items)
  BY <1>1, Single
<1>3. emergency' = l \o e
  BY DEF R!StartEmergency
<1> HIDE DEF u
<1>4. a \in Seq(Items) /\ Range(a) = (Windows \ Late) \cup {"uncloak"}
  BY <1>2, ListTypes, Joined
<1> HIDE DEF a
<1>5. b \in Seq(Items) /\ Range(b) = (Windows \ Late) \cup {"uncloak"}
  BY <1>4, ListTypes, Joined
<1> HIDE DEF b
<1>6. c \in Seq(Items) /\ Range(c) = Windows \cup {"uncloak"}
  BY <1>1, <1>5, ListTypes, Joined
<1> HIDE DEF c
<1>7. l \in Seq(Items) /\ Range(l) = Windows \cup {"uncloak"}
  BY <1>1, <1>6, ListTypes, Joined
<1> HIDE DEF l
<1>8. EndsLast(emergency') /\ SettlesAfter(emergency')
  BY <1>1, <1>3, <1>7, EndProperties
<1> HIDE DEF e
<1> QED
  BY <1>2, <1>3, <1>7, <1>8, Joined

\* What the owners do, and what one list does, leaves what the lists answer for.
LEMMA PassKept ==
    ASSUME PassLeft, Ends, UNCHANGED <<pass, blind>>, silent \subseteq silent',
           cloak' \in {cloak, {}}
    PROVE  PassLeft'
BY DEF PassLeft, Ends

LEMMA EmergencyKept ==
    ASSUME EmergencyLeft, Ends, UNCHANGED <<emergency, blind>>, silent \subseteq silent',
           cloak' \in {cloak, {}}, expired => expired',
           \A w \in Late \ (blind \cup silent) :
              moves[w] # "none" => moves'[w] # "none" \/ expired' \/ R!EndsOn(w)'
    PROVE  EmergencyLeft'
BY StepsApart DEF EmergencyLeft, Ends

LEMMA SamePlaces == UNCHANGED place => Ends
BY DEF Ends, R!EndsOn, R!Last
LEMMA RescueStep == RescueInv /\ [EdgesNext]_edgeVars => RescueInv'
<1> SUFFICES ASSUME RescueInv, [EdgesNext]_edgeVars PROVE RescueInv'
  OBVIOUS
<1> USE DEF RescueInv
<1>1. CASE UNCHANGED rescueVars
  BY <1>1 DEF rescueVars, RescueTypes, Recorded, PassLeft, EmergencyLeft, EndsLast,
              SettlesAfter, R!EndsOn, R!Last, Range
<1>2. ASSUME NEW w \in Windows, R!Deliver(w) \/ R!Hang(w) \/ R!Answer(w) PROVE RescueInv'
  <2>1. place' \in [Windows -> PlaceType] /\ Ends /\ Recorded'
    BY <1>2, DeliverEnds, HungEnds
  <2>2. R!Quiet
    BY <1>2 DEF R!Deliver, R!Hang, R!Answer
  <2> QED
    BY <2>1, <2>2, PassKept, EmergencyKept DEF R!Quiet, RescueTypes
<1>3. CASE R!StartPass \/ R!StartPanicPass
  <2>1. UNCHANGED <<place, wait, cloak, emergency, expired, moves, hangs, blind, silent>>
    BY <1>3 DEF R!StartPass, R!StartPanicPass, R!Start
  <2>2. PassLeft'
    BY <1>3, PassStarts DEF PassLeft
  <2> QED
    BY <1>3, <2>1, <2>2, PassStarts, SamePlaces, EmergencyKept
       DEF RescueTypes, Recorded, R!EndsOn, R!Last
<1>4. CASE R!PassUncloaks
  <2>1. UNCHANGED <<place, wait, emergency, expired, moves, hangs, blind, silent>> /\ cloak' = {}
    BY <1>4 DEF R!PassUncloaks, R!Uncloak
  <2>2. pass # <<>> /\ Head(pass) = "uncloak" /\ pass' = Tail(pass) /\ pass \in Seq(Items)
    BY <1>4 DEF R!PassUncloaks, R!At, RescueTypes
  <2>3. pass' \in Seq(Items) /\ PassLeft'
    BY <2>1, <2>2, TailProperties, StepsApart, SamePlaces DEF PassLeft, Ends
  <2> QED
    BY <2>1, <2>3, SamePlaces, EmergencyKept DEF RescueTypes, Recorded, R!EndsOn, R!Last
<1>5. ASSUME NEW w \in Windows, R!PassMoves(w) PROVE RescueInv'
  <2>1. UNCHANGED <<cloak, emergency, expired, moves, hangs, blind>>
    BY <1>5 DEF R!PassMoves
  <2>2. pass # <<>> /\ Head(pass) = w /\ pass' = Tail(pass) /\ pass \in Seq(Items)
    BY <1>5 DEF R!PassMoves, R!At, RescueTypes
  <2>3. /\ place' \in [Windows -> PlaceType] /\ wait' \in [Windows -> {{}, {"on"}, {"off"}}]
        /\ Ends /\ Recorded' /\ silent \subseteq silent'
        /\ w \in blind \cup silent' \/ R!EndsOn(w)'
    <3>1. CASE ~R!Away(w) /\ UNCHANGED <<place, wait, silent>>
      BY <2>1, <3>1, SamePlaces, InSightEnds
         DEF RescueTypes, Recorded, Ends, R!EndsOn, R!Last
    <3>2. CASE silent' = silent \cup {w} /\ UNCHANGED <<place, wait>>
      BY <2>1, <3>2, SamePlaces DEF RescueTypes, Recorded, R!EndsOn, R!Last
    <3>3. CASE R!MoveQueued(w) /\ UNCHANGED silent
      BY <2>1, <3>3, MoveQueuedEnds
    <3>4. CASE R!OwnerWaitTarget(w) = {} /\ R!MoveNow(w) /\ UNCHANGED silent
      <4>1. wait[w] = {}
        BY <3>4 DEF R!OwnerWaitTarget, Recorded
      <4> QED
        BY <2>1, <3>4, <4>1, MoveNowEnds DEF RescueTypes
    <3> QED
      BY <1>5, <3>1, <3>2, <3>3, <3>4 DEF R!PassMoves
  <2>4. pass' \in Seq(Items) /\ PassLeft'
    BY <2>1, <2>2, <2>3, TailProperties, StepsApart DEF PassLeft, Ends
  <2> QED
    BY <2>1, <2>3, <2>4, EmergencyKept DEF RescueTypes
<1>6. CASE R!StartEmergency
  <2>1. UNCHANGED <<place, wait, cloak, pass, expired, moves, hangs, blind, silent>>
    BY <1>6 DEF R!StartEmergency
  <2>2. EmergencyLeft'
    BY <1>6, EmergencyStarts DEF EmergencyLeft
  <2> QED
    BY <1>6, <2>1, <2>2, EmergencyStarts, SamePlaces, PassKept
       DEF RescueTypes, Recorded, R!EndsOn, R!Last
<1>7. CASE R!Expire
  <2>1. UNCHANGED <<place, wait, cloak, pass, emergency, moves, hangs, blind, silent>> /\ expired' = TRUE
    BY <1>7 DEF R!Expire
  <2> QED
    BY <2>1, SamePlaces, PassKept, EmergencyKept DEF RescueTypes, Recorded, R!EndsOn, R!Last
<1>8. CASE R!EmergencyUncloaks
  <2>1. UNCHANGED <<place, wait, pass, expired, moves, hangs, blind, silent>> /\ cloak' = {}
    BY <1>8 DEF R!EmergencyUncloaks, R!Uncloak
  <2>2. emergency # <<>> /\ Head(emergency) = "uncloak" /\ emergency' = Tail(emergency)
        /\ emergency \in Seq(Items)
    BY <1>8 DEF R!EmergencyUncloaks, R!At, RescueTypes
  <2>3. emergency' \in Seq(Items) /\ EmergencyLeft'
    BY <2>1, <2>2, TailProperties, StepsApart, SamePlaces DEF EmergencyLeft, Ends
  <2> QED
    BY <2>1, <2>3, SamePlaces, PassKept DEF RescueTypes, Recorded, R!EndsOn, R!Last
<1>9. ASSUME NEW w \in Windows, R!EmergencyQueues(w) PROVE RescueInv'
  <2>1. UNCHANGED <<cloak, pass, expired, moves, hangs, blind, silent>> /\ w \notin Late
    BY <1>9 DEF R!EmergencyQueues
  <2>2. emergency # <<>> /\ Head(emergency) = w /\ emergency' = Tail(emergency)
        /\ emergency \in Seq(Items)
    BY <1>9 DEF R!EmergencyQueues, R!At, RescueTypes
  <2>3. /\ place' \in [Windows -> PlaceType] /\ wait' \in [Windows -> {{}, {"on"}, {"off"}}]
        /\ Ends /\ Recorded'
        /\ w \in blind \/ R!EndsOn(w)'
    <3>1. CASE R!Away(w)
      BY <1>9, <2>1, <3>1, MoveQueuedEnds DEF R!EmergencyQueues
    <3>2. CASE ~R!Away(w)
      <4>1. UNCHANGED <<place, wait>>
        BY <1>9, <3>2 DEF R!EmergencyQueues
      <4> QED
        BY <2>1, <3>2, <4>1, SamePlaces, InSightEnds
           DEF RescueTypes, Recorded, Ends, R!EndsOn, R!Last
    <3> QED
      BY <3>1, <3>2
  <2>4. emergency' \in Seq(Items) /\ EmergencyLeft'
    BY <2>1, <2>2, <2>3, TailProperties, StepsApart DEF EmergencyLeft, Ends
  <2> QED
    BY <2>1, <2>3, <2>4, PassKept DEF RescueTypes
<1>10. ASSUME NEW w \in Windows, R!EmergencySends(w) PROVE RescueInv'
  <2>1. UNCHANGED <<place, wait, cloak, pass, expired, hangs, blind>> /\ w \in Late
    BY <1>10 DEF R!EmergencySends
  <2>2. emergency # <<>> /\ Head(emergency) = w /\ emergency' = Tail(emergency)
        /\ emergency \in Seq(Items)
    BY <1>10 DEF R!EmergencySends, R!At, RescueTypes
  <2>3. /\ moves' \in [Windows -> {"none", "check", "move"}] /\ silent \subseteq silent'
        /\ \A v \in Windows : moves[v] # "none" => moves'[v] # "none"
        /\ expired \/ w \in blind \cup silent' \/ R!EndsOn(w) \/ moves'[w] # "none"
    BY <1>10, InSightEnds DEF R!EmergencySends, RescueTypes
  <2>4. Ends /\ Recorded'
    BY <2>1, SamePlaces DEF Recorded, R!EndsOn, R!Last
  <2>5. emergency' \in Seq(Items) /\ EmergencyLeft'
    BY <2>1, <2>2, <2>3, <2>4, TailProperties, StepsApart DEF EmergencyLeft, Ends
  <2> QED
    BY <2>1, <2>3, <2>4, <2>5, PassKept DEF RescueTypes
<1>11. ASSUME NEW w \in Windows, R!HelperChecks(w) PROVE RescueInv'
  <2>1. UNCHANGED <<place, wait, cloak, pass, emergency, expired, hangs, blind, silent>>
    BY <1>11 DEF R!HelperChecks
  <2>2. /\ moves' \in [Windows -> {"none", "check", "move"}]
        /\ \A v \in Windows : moves[v] # "none" => moves'[v] # "none" \/ expired
    BY <1>11 DEF R!HelperChecks, RescueTypes
  <2> QED
    BY <2>1, <2>2, SamePlaces, PassKept, EmergencyKept, StepsApart
       DEF RescueTypes, Recorded, R!EndsOn, R!Last
<1>12. ASSUME NEW w \in Windows, R!HelperMoves(w) PROVE RescueInv'
  <2>1. UNCHANGED <<cloak, pass, emergency, expired, hangs, blind, silent>> /\ R!MoveNow(w)
    BY <1>12 DEF R!HelperMoves
  <2>2. /\ moves' \in [Windows -> {"none", "check", "move"}]
        /\ \A v \in Windows \ {w} : moves'[v] = moves[v]
    BY <1>12 DEF R!HelperMoves, RescueTypes
  <2>3. /\ place' \in [Windows -> PlaceType] /\ UNCHANGED wait /\ Ends /\ Recorded'
        /\ w \in Late \ blind => R!EndsOn(w)'
    BY <2>1, MoveNowEnds DEF Recorded
  <2> QED
    BY <2>1, <2>2, <2>3, PassKept, EmergencyKept, StepsApart DEF RescueTypes
<1>13. CASE R!Settled
  <2>1. UNCHANGED <<place, wait, cloak, pass, expired, moves, hangs, blind, silent>>
        /\ (expired \/ \A w \in Windows : moves[w] = "none")
    BY <1>13 DEF R!Settled
  <2>2. emergency # <<>> /\ Head(emergency) = "settle" /\ emergency' = Tail(emergency)
        /\ emergency \in Seq(Items)
    BY <1>13 DEF R!Settled, R!At, RescueTypes
  <2>3. emergency' \in Seq(Items) /\ EmergencyLeft'
    BY <2>1, <2>2, TailProperties, StepsApart, SamePlaces DEF EmergencyLeft, Ends
  <2> QED
    BY <2>1, <2>3, SamePlaces, PassKept DEF RescueTypes, Recorded, R!EndsOn, R!Last
<1> QED
  BY <1>1, <1>2, <1>3, <1>4, <1>5, <1>6, <1>7, <1>8, <1>9, <1>10, <1>11, <1>12, <1>13
     DEF EdgesNext, edgeVars, R!RescueNext, R!Emergency
\* When the pass of a shutdown, or the emergency of the quit fallback, came to
\* its end, every window it answers for is on screen or ends there, whatever
\* its owner did meanwhile and whatever the other of the two did to it
\* (visibility.rs).
THEOREM BroughtBackHolds == EdgesSpec => []BroughtBack
<1>1. RescueInv => BroughtBack
  <2> SUFFICES ASSUME RescueInv PROVE R!BroughtBack
    BY DEF BroughtBack
  <2>1. ASSUME R!Over(pass) PROVE Range(pass) = {"end"} /\ pass # <<>>
    BY <2>1, TailProperties DEF R!Over, R!At, RescueInv, RescueTypes, PassLeft
  <2>2. ASSUME R!Over(emergency) PROVE Range(emergency) = {"end"} /\ emergency # <<>>
    BY <2>2, TailProperties DEF R!Over, R!At, RescueInv, RescueTypes, EmergencyLeft
  <2> QED
    BY <2>1, <2>2, StepsApart DEF R!BroughtBack, RescueInv, PassLeft, EmergencyLeft
<1> QED
  BY RescueInit, RescueStep, <1>1, PTL DEF EdgesSpec

(***************************************************************************)
(* The processes around the daemon: watchdogs, the command line, and the   *)
(* windows they answer for, with any number of launches and restarts.      *)
(***************************************************************************)
DogType ==
    [at : {"none", "spawn", "waiting", "recover", "decide", "gone"},
     crashes : Seq(Nat), ctrl : BOOLEAN]
DaemonType ==
    [at : {"none", "checking", "booting", "tiling", "stopping", "cleaned", "clean", "failed"},
     pipe : BOOLEAN]
PastType ==
    [crashes : Nat, commands : Nat, abandoned : BOOLEAN, restarts : [Launches -> Seq(Nat)]]

SupervisionTypes ==
    /\ dog \in [Launches -> DogType] /\ daemon \in [Launches -> DaemonType]
    /\ clock \in Nat /\ past \in PastType

\* A watchdog that is not waiting for a daemon has none.
NoneLeft == \A s \in Launches : dog[s].at \in {"spawn", "recover", "decide"} => daemon[s].at = "none"

\* Who still answers for hidden windows: a daemon that tiles or cleans up, or a
\* watchdog that will hear of its crash, or has.
Answers(s) ==
    \/ daemon[s].at \in {"tiling", "stopping"}
    \/ dog[s].at = "recover"
    \/ dog[s].at = "waiting" /\ ~dog[s].ctrl /\ daemon[s].at = "failed"
Answered == parked => past.abandoned \/ \E s \in Launches : Answers(s)

\* The crashes a watchdog remembers are the last of its restarts; what it has
\* forgotten has left the window.
Remembers(s, k) ==
    LET c == dog[s].crashes
        r == past.restarts[s]
    IN  /\ Len(c) = Len(r) - k + 1
        /\ \A i \in 1..Len(c) : c[i] = r[k + i - 1]
        /\ \A i \in 1..Len(r) : i < k => clock - r[i] >= Window
Timed(s) ==
    LET r == past.restarts[s]
    IN  /\ \A i \in 1..Len(r) : r[i] <= clock
        /\ \A i, j \in 1..Len(r) : i <= j => r[i] <= r[j]
        /\ dog[s].at # "gone" => \E k \in 1..Len(r) + 1 : Remembers(s, k)

SupervisionInv ==
    /\ SupervisionTypes /\ NoneLeft /\ Answered
    /\ \A s \in Launches : Timed(s)
    /\ W!CrashBudget

LEMMA SupervisionInit == EdgesInit => SupervisionInv
<1> SUFFICES ASSUME W!Init PROVE SupervisionInv
  BY DEF EdgesInit
<1>1. SupervisionTypes
  BY EmptySeq DEF W!Init, W!NoDog, W!NoDaemon, SupervisionTypes, DogType, DaemonType, PastType
<1>2. NoneLeft /\ Answered
  BY DEF W!Init, W!NoDog, W!NoDaemon, NoneLeft, Answered
<1>3. ASSUME NEW s \in Launches PROVE Timed(s)
  <2>1. dog[s].crashes = <<>> /\ past.restarts[s] = <<>> /\ Len(<<>>) = 0
    BY EmptySeq DEF W!Init, W!NoDog
  <2>2. Remembers(s, 1)
    BY <2>1 DEF Remembers
  <2> QED
    BY <2>1, <2>2 DEF Timed
<1>4. W!CrashBudget
  BY DEF W!Init, W!CrashBudget
<1> QED
  BY <1>1, <1>2, <1>3, <1>4 DEF SupervisionInv

\* What a watchdog remembers after a crash, the last included.
LEMMA RecentRemembers ==
    ASSUME SupervisionInv, NEW s \in Launches, dog[s].at # "gone",
           NEW q, q = W!Recent(dog[s].crashes, clock)
    PROVE  LET r == past.restarts[s]
           IN  /\ q \in Seq(Nat)
               /\ \E k \in 1..Len(r) + 1 :
                     /\ Len(q) = Len(r) - k + 1
                     /\ \A i \in 1..Len(q) : q[i] = r[k + i - 1]
                     /\ \A i \in 1..Len(r) : i < k => clock - r[i] >= Window
<1> DEFINE c == dog[s].crashes
           r == past.restarts[s]
           keep == {t \in 0..clock : clock - t < Window}
<1>1. /\ c \in Seq(Nat) /\ r \in Seq(Nat) /\ clock \in Nat
      /\ Len(c) \in Nat /\ Len(r) \in Nat /\ Window \in Nat
  <2>1. Window \in Nat
    BY EdgesAssumption DEF W!SupervisionAssumption
  <2> QED
    BY <2>1, LenProperties DEF SupervisionInv, SupervisionTypes, DogType, PastType
<1>2. PICK k \in 1..Len(r) + 1 : Remembers(s, k)
  BY DEF SupervisionInv, Timed
<1>3. /\ \A i \in 1..Len(r) : r[i] <= clock /\ r[i] \in Nat
      /\ \A i, j \in 1..Len(r) : i <= j => r[i] <= r[j]
  BY <1>1, ElementOfSeq DEF SupervisionInv, Timed
<1>4. /\ Len(c) = Len(r) - k + 1
      /\ \A i \in 1..Len(c) : c[i] = r[k + i - 1]
      /\ \A i \in 1..Len(r) : i < k => clock - r[i] >= Window
  BY <1>2 DEF Remembers
<1> HIDE DEF c, r
<1>5. \A i \in 1..Len(c) : k + i - 1 \in 1..Len(r)
  <2> DEFINE lc == Len(c)
             lr == Len(r)
  <2>1. k \in Nat /\ 1 <= k /\ lc \in Nat /\ lr \in Nat /\ lc = lr - k + 1
    BY <1>1, <1>4
  <2> HIDE DEF lc, lr
  <2>2. \A i \in 1..lc : k + i - 1 \in 1..lr
    BY <2>1
  <2> QED
    BY <2>2 DEF lc, lr
<1>6. \A i, j \in 1..Len(c) : c[i] \in keep /\ i <= j => c[j] \in keep
  <2> SUFFICES ASSUME NEW i \in 1..Len(c), NEW j \in 1..Len(c), c[i] \in keep, i <= j
               PROVE  c[j] \in keep
    OBVIOUS
  <2>1. /\ k + i - 1 \in 1..Len(r) /\ k + j - 1 \in 1..Len(r)
        /\ c[i] = r[k + i - 1] /\ c[j] = r[k + j - 1]
    BY <1>4, <1>5
  <2>2. k + i - 1 <= k + j - 1
    BY <1>1
  <2>3. c[i] <= c[j] /\ c[j] <= clock /\ c[j] \in Nat /\ c[i] \in Nat
    BY <1>3, <2>1, <2>2
  <2>4. clock - c[i] < Window
    OBVIOUS
  <2>5. c[j] \in 0..clock
    BY <1>1, <2>3
  <2>6. clock - c[j] < Window
    BY <1>1, <2>3, <2>4, SMTT(30)
  <2> QED
    BY <2>5, <2>6
<1>7. \E m \in 1..Len(c) + 1 : \A i \in 1..Len(c) : c[i] \in keep <=> m <= i
  <2> DEFINE in == {i \in 1..Len(c) : c[i] \in keep}
  <2>1. CASE in = {}
    <3>1. Len(c) + 1 \in 1..Len(c) + 1
      BY <1>1
    <3>2. \A i \in 1..Len(c) : c[i] \notin keep
      BY <2>1
    <3> HIDE DEF keep
    <3>3. \A i \in 1..Len(c) : ~(Len(c) + 1 <= i)
      BY <1>1
    <3> QED
      BY <3>1, <3>2, <3>3
  <2>2. CASE in # {}
    <3>1. in \in SUBSET Nat
      OBVIOUS
    <3> HIDE DEF in
    <3>2. PICK m \in in : \A i \in in : m <= i
      BY <2>2, <3>1, LeastNumber
    <3> USE DEF in
    <3>3. m \in 1..Len(c) /\ c[m] \in keep /\ \A i \in 1..Len(c) : c[i] \in keep => m <= i
      BY <3>2
    <3> HIDE DEF in, keep
    <3>4. m \in 1..Len(c) + 1
      BY <1>1, <3>3
    <3>5. \A i \in 1..Len(c) : c[i] \in keep <=> m <= i
      BY <1>6, <3>3
    <3> QED
      BY <3>4, <3>5
  <2> QED
    BY <2>1, <2>2
<1>8. PICK m \in 1..Len(c) + 1 : \A i \in 1..Len(c) : c[i] \in keep <=> m <= i
  BY <1>7
<1>9. q = SubSeq(c, m, Len(c))
  <2>1. q = Retained(c, keep)
    BY DEF W!Recent, W!Retained, W!Kept, Retained, Kept, c
  <2> HIDE DEF keep
  <2> QED
    BY <1>1, <1>8, <2>1, RetainedSuffix
<1>10. /\ q \in Seq(Nat) /\ Len(q) = Len(c) - m + 1
       /\ \A i \in 1..Len(q) : q[i] = c[m + i - 1]
  <2>1. \A i \in m..Len(c) : c[i] \in Nat
    BY <1>1, <1>8, ElementOfSeq, SMTT(30)
  <2> QED
    BY <1>1, <1>8, <1>9, <2>1, SubSeqProperties
<1> DEFINE n == k + m - 1
<1>11. n \in 1..Len(r) + 1 /\ Len(q) = Len(r) - n + 1
  BY <1>1, <1>4, <1>8, <1>10
<1>12. \A i \in 1..Len(q) : q[i] = r[n + i - 1]
  <2> SUFFICES ASSUME NEW i \in 1..Len(q) PROVE q[i] = r[n + i - 1]
    OBVIOUS
  <2>1. m + i - 1 \in 1..Len(c) /\ q[i] = c[m + i - 1]
    BY <1>1, <1>8, <1>10
  <2>2. c[m + i - 1] = r[k + (m + i - 1) - 1] /\ k + (m + i - 1) - 1 = n + i - 1
    BY <1>1, <1>4, <1>8, <2>1
  <2> QED
    BY <2>1, <2>2
<1>13. \A i \in 1..Len(r) : i < n => clock - r[i] >= Window
  <2> SUFFICES ASSUME NEW i \in 1..Len(r), i < n, ~(i < k) PROVE clock - r[i] >= Window
    BY <1>4
  <2>1. i - k + 1 \in 1..Len(c) /\ i - k + 1 < m /\ k + (i - k + 1) - 1 = i
    BY <1>1, <1>4, <1>8
  <2>2. c[i - k + 1] = r[i]
    BY <1>4, <2>1
  <2>3. c[i - k + 1] \notin keep
    <3>1. ~(m <= i - k + 1)
      BY <1>1, <2>1
    <3> HIDE DEF keep
    <3> QED
      BY <1>8, <2>1, <3>1
  <2>4. r[i] <= clock /\ r[i] \in Nat
    BY <1>3
  <2>5. ~(clock - r[i] < Window)
    <3>1. r[i] \in 0..clock
      BY <1>1, <2>4
    <3> QED
      BY <2>2, <2>3, <3>1
  <2>6. clock \in Nat /\ Window \in Nat
    BY <1>1
  <2> HIDE DEF keep
  <2> QED
    BY <2>4, <2>5, <2>6
<1> HIDE DEF n
<1> QED
  BY <1>10, <1>11, <1>12, <1>13 DEF r

\* The watchdogs stand as they stood, or are gone; time has not gone back.
LEMMA SameCrashes ==
    ASSUME SupervisionInv,
           \A s \in Launches : /\ dog'[s].crashes = dog[s].crashes
                               /\ dog'[s].at # "gone" => dog[s].at # "gone",
           past'.restarts = past.restarts, clock' \in Nat, clock <= clock'
    PROVE  (\A s \in Launches : Timed(s)') /\ W!CrashBudget'
<1>1. W!CrashBudget'
  BY DEF W!CrashBudget, SupervisionInv
<1>2. ASSUME NEW s \in Launches PROVE Timed(s)'
  <2> DEFINE r == past.restarts[s]
  <2>1. r \in Seq(Nat) /\ clock \in Nat /\ Window \in Nat /\ Timed(s)
    BY EdgesAssumption DEF SupervisionInv, SupervisionTypes, PastType, W!SupervisionAssumption
  <2>2. \A i \in 1..Len(r) : r[i] \in Nat
    BY <2>1, ElementOfSeq
  <2>3. past'.restarts[s] = r
    OBVIOUS
  <2>4. \A i \in 1..Len(r) : r[i] <= clock'
    BY <2>1, <2>2 DEF Timed
  <2>5. ASSUME NEW k \in 1..Len(r) + 1, Remembers(s, k) PROVE Remembers(s, k)'
    <3>1. \A i \in 1..Len(r) : i < k => clock' - r[i] >= Window
      <4> SUFFICES ASSUME NEW i \in 1..Len(r), i < k PROVE clock' - r[i] >= Window
        OBVIOUS
      <4>1. clock - r[i] >= Window
        BY <2>5 DEF Remembers
      <4>2. r[i] \in Nat
        BY <2>2
      <4> HIDE DEF r
      <4> QED
        BY <2>1, <4>1, <4>2
    <3> QED
      BY <2>3, <2>5, <3>1 DEF Remembers
  <2> QED
    BY <2>1, <2>3, <2>4, <2>5 DEF Timed
<1> QED
  BY <1>1, <1>2

\* One more crash in the history.
LEMMA CrashCounted ==
    ASSUME past \in PastType
    PROVE  /\ [past EXCEPT !.crashes = @ + 1] \in PastType
           /\ \A a \in BOOLEAN : [past EXCEPT !.crashes = @ + 1, !.abandoned = a] \in PastType
<1>1. past.crashes + 1 \in Nat
  BY DEF PastType
<1>2. ASSUME NEW n \in Nat, NEW a \in BOOLEAN
      PROVE  /\ [past EXCEPT !.crashes = n] \in PastType
             /\ [past EXCEPT !.crashes = n, !.abandoned = a] \in PastType
  BY DEF PastType
<1> QED
  BY <1>1, <1>2

\* Whoever answered still does, or windows are not hidden any more.
LEMMA StillAnswered ==
    ASSUME Answered, parked' => parked, past.abandoned => past'.abandoned,
           \A s \in Launches : Answers(s) => Answers(s)' \/ past'.abandoned \/ ~parked'
    PROVE  Answered'
<1> QED
  BY DEF Answered

LEMMA SupervisionStep == SupervisionInv /\ [EdgesNext]_edgeVars => SupervisionInv'
<1> SUFFICES ASSUME SupervisionInv, [EdgesNext]_edgeVars PROVE SupervisionInv'
  OBVIOUS
<1> USE DEF W!supervisionVars, supervisionVars
<1>0. CASE UNCHANGED supervisionVars
  BY <1>0 DEF SupervisionInv, SupervisionTypes, NoneLeft, Answered, Answers, Timed, Remembers,
              W!CrashBudget
<1>1. SUFFICES ASSUME W!Next PROVE SupervisionInv'
  BY <1>0 DEF EdgesNext, edgeVars
<1>2. dog \in [Launches -> DogType] /\ daemon \in [Launches -> DaemonType]
      /\ clock \in Nat /\ past \in PastType
      /\ NoneLeft /\ Answered /\ W!CrashBudget /\ \A s \in Launches : Timed(s)
  BY DEF SupervisionInv, SupervisionTypes
<1> DEFINE Quiet == UNCHANGED <<dog, daemon, clock, past>> /\ (parked' => parked)
<1>4. ASSUME NEW s \in Launches, W!CheckRunning(s) PROVE SupervisionInv'
  <2> USE <1>4 DEF W!CheckRunning, W!PipeExists
  <2>1. SupervisionTypes'
    <3>1. dog' \in [Launches -> DogType]
      BY <1>2 DEF DogType
    <3>2. daemon' \in [Launches -> DaemonType]
      BY <1>2 DEF DaemonType
    <3>3. past' \in PastType /\ clock' \in Nat
      BY <1>2 DEF PastType
    <3> QED
      BY <3>1, <3>2, <3>3 DEF SupervisionTypes
  <2>2. NoneLeft'
    BY <1>2 DEF NoneLeft, DogType, DaemonType
  <2>3. Answered'
    BY <1>2, StillAnswered DEF Answers, NoneLeft, DogType, DaemonType, PastType
  <2>4. \A o \in Launches : /\ dog'[o].crashes = dog[o].crashes
                            /\ dog'[o].at # "gone" => dog[o].at # "gone"
    BY <1>2 DEF DogType
  <2>5. past'.restarts = past.restarts /\ clock' \in Nat /\ clock <= clock'
    BY <1>2 DEF PastType
  <2> QED
    BY <1>2, <2>1, <2>2, <2>3, <2>4, <2>5, SameCrashes DEF SupervisionInv
<1>5. ASSUME NEW s \in Launches, W!Boot(s) PROVE SupervisionInv'
  <2> USE <1>5 DEF W!Boot
  <2>1. SupervisionTypes'
    <3>1. dog' \in [Launches -> DogType]
      BY <1>2 DEF DogType
    <3>2. daemon' \in [Launches -> DaemonType]
      BY <1>2 DEF DaemonType
    <3>3. past' \in PastType /\ clock' \in Nat
      BY <1>2 DEF PastType
    <3> QED
      BY <3>1, <3>2, <3>3 DEF SupervisionTypes
  <2>2. NoneLeft'
    BY <1>2 DEF NoneLeft, DogType, DaemonType
  <2>3. Answered'
    BY <1>2, StillAnswered DEF Answers, NoneLeft, DogType, DaemonType, PastType
  <2>4. \A o \in Launches : /\ dog'[o].crashes = dog[o].crashes
                            /\ dog'[o].at # "gone" => dog[o].at # "gone"
    BY <1>2 DEF DogType
  <2>5. past'.restarts = past.restarts /\ clock' \in Nat /\ clock <= clock'
    BY <1>2 DEF PastType
  <2> QED
    BY <1>2, <2>1, <2>2, <2>3, <2>4, <2>5, SameCrashes DEF SupervisionInv
<1>6. ASSUME NEW s \in Launches, W!CreatePipe(s) PROVE SupervisionInv'
  <2> USE <1>6 DEF W!CreatePipe
  <2>1. SupervisionTypes'
    <3>1. dog' \in [Launches -> DogType]
      BY <1>2 DEF DogType
    <3>2. daemon' \in [Launches -> DaemonType]
      BY <1>2 DEF DaemonType
    <3>3. past' \in PastType /\ clock' \in Nat
      BY <1>2 DEF PastType
    <3> QED
      BY <3>1, <3>2, <3>3 DEF SupervisionTypes
  <2>2. NoneLeft'
    BY <1>2 DEF NoneLeft, DogType, DaemonType
  <2>3. Answered'
    BY <1>2, StillAnswered DEF Answers, NoneLeft, DogType, DaemonType, PastType
  <2>4. \A o \in Launches : /\ dog'[o].crashes = dog[o].crashes
                            /\ dog'[o].at # "gone" => dog[o].at # "gone"
    BY <1>2 DEF DogType
  <2>5. past'.restarts = past.restarts /\ clock' \in Nat /\ clock <= clock'
    BY <1>2 DEF PastType
  <2> QED
    BY <1>2, <2>1, <2>2, <2>3, <2>4, <2>5, SameCrashes DEF SupervisionInv
<1>7. ASSUME NEW s \in Launches, W!Tile(s) PROVE SupervisionInv'
  <2> USE <1>7 DEF W!Tile
  <2>1. SupervisionTypes'
    <3>1. dog' \in [Launches -> DogType]
      BY <1>2 DEF DogType
    <3>2. daemon' \in [Launches -> DaemonType]
      BY <1>2 DEF DaemonType
    <3>3. past' \in PastType /\ clock' \in Nat
      BY <1>2 DEF PastType
    <3> QED
      BY <3>1, <3>2, <3>3 DEF SupervisionTypes
  <2>2. NoneLeft'
    BY <1>2 DEF NoneLeft, DogType, DaemonType
  <2>3. Answered'
    <3>1. Answers(s)'
      BY <1>2 DEF Answers, DaemonType
    <3> QED
      BY <3>1 DEF Answered
  <2>4. \A o \in Launches : /\ dog'[o].crashes = dog[o].crashes
                            /\ dog'[o].at # "gone" => dog[o].at # "gone"
    BY <1>2 DEF DogType
  <2>5. past'.restarts = past.restarts /\ clock' \in Nat /\ clock <= clock'
    BY <1>2 DEF PastType
  <2> QED
    BY <1>2, <2>1, <2>2, <2>3, <2>4, <2>5, SameCrashes DEF SupervisionInv
<1>8. ASSUME NEW s \in Launches, W!CleanUp(s) PROVE SupervisionInv'
  <2> USE <1>8 DEF W!CleanUp
  <2>1. SupervisionTypes'
    <3>1. dog' \in [Launches -> DogType]
      BY <1>2 DEF DogType
    <3>2. daemon' \in [Launches -> DaemonType]
      BY <1>2 DEF DaemonType
    <3>3. past' \in PastType /\ clock' \in Nat
      BY <1>2 DEF PastType
    <3> QED
      BY <3>1, <3>2, <3>3 DEF SupervisionTypes
  <2>2. NoneLeft'
    BY <1>2 DEF NoneLeft, DogType, DaemonType
  <2>3. Answered'
    BY <1>2, StillAnswered DEF Answers, NoneLeft, DogType, DaemonType, PastType
  <2>4. \A o \in Launches : /\ dog'[o].crashes = dog[o].crashes
                            /\ dog'[o].at # "gone" => dog[o].at # "gone"
    BY <1>2 DEF DogType
  <2>5. past'.restarts = past.restarts /\ clock' \in Nat /\ clock <= clock'
    BY <1>2 DEF PastType
  <2> QED
    BY <1>2, <2>1, <2>2, <2>3, <2>4, <2>5, SameCrashes DEF SupervisionInv
<1>9. ASSUME NEW s \in Launches, W!Exit(s) PROVE SupervisionInv'
  <2> USE <1>9 DEF W!Exit
  <2>1. SupervisionTypes'
    <3>1. dog' \in [Launches -> DogType]
      BY <1>2 DEF DogType
    <3>2. daemon' \in [Launches -> DaemonType]
      BY <1>2 DEF DaemonType
    <3>3. past' \in PastType /\ clock' \in Nat
      BY <1>2 DEF PastType
    <3> QED
      BY <3>1, <3>2, <3>3 DEF SupervisionTypes
  <2>2. NoneLeft'
    BY <1>2 DEF NoneLeft, DogType, DaemonType
  <2>3. Answered'
    BY <1>2, StillAnswered DEF Answers, NoneLeft, DogType, DaemonType, PastType
  <2>4. \A o \in Launches : /\ dog'[o].crashes = dog[o].crashes
                            /\ dog'[o].at # "gone" => dog[o].at # "gone"
    BY <1>2 DEF DogType
  <2>5. past'.restarts = past.restarts /\ clock' \in Nat /\ clock <= clock'
    BY <1>2 DEF PastType
  <2> QED
    BY <1>2, <2>1, <2>2, <2>3, <2>4, <2>5, SameCrashes DEF SupervisionInv
<1>10. ASSUME NEW s \in Launches, W!Panic(s) PROVE SupervisionInv'
  <2> USE <1>10 DEF W!Panic, W!NoDaemon
  <2>1. SupervisionTypes'
    <3>1. dog' \in [Launches -> DogType]
      BY <1>2 DEF DogType
    <3>2. daemon' \in [Launches -> DaemonType]
      BY <1>2 DEF DaemonType
    <3>3. past' \in PastType /\ clock' \in Nat
      BY <1>2, CrashCounted
    <3> QED
      BY <3>1, <3>2, <3>3 DEF SupervisionTypes
  <2>2. NoneLeft'
    BY <1>2 DEF NoneLeft, DogType, DaemonType
  <2>3. Answered'
    BY <1>2, StillAnswered DEF Answers, NoneLeft, DogType, DaemonType, PastType
  <2>4. \A o \in Launches : /\ dog'[o].crashes = dog[o].crashes
                            /\ dog'[o].at # "gone" => dog[o].at # "gone"
    BY <1>2 DEF DogType
  <2>5. past'.restarts = past.restarts /\ clock' \in Nat /\ clock <= clock'
    BY <1>2 DEF PastType
  <2> QED
    BY <1>2, <2>1, <2>2, <2>3, <2>4, <2>5, SameCrashes DEF SupervisionInv
<1>11. ASSUME NEW s \in Launches, W!Kill(s) PROVE SupervisionInv'
  <2> USE <1>11 DEF W!Kill, W!Alive, W!Watched
  <2>1. SupervisionTypes'
    <3>1. dog' \in [Launches -> DogType]
      BY <1>2 DEF DogType
    <3>2. daemon' \in [Launches -> DaemonType]
      BY <1>2 DEF DaemonType
    <3>3. past' \in PastType /\ clock' \in Nat
      BY <1>2, CrashCounted
    <3> QED
      BY <3>1, <3>2, <3>3 DEF SupervisionTypes
  <2>2. NoneLeft'
    BY <1>2 DEF NoneLeft, DogType, DaemonType
  <2>3. Answered'
    BY <1>2, StillAnswered DEF Answers, NoneLeft, DogType, DaemonType, PastType
  <2>4. \A o \in Launches : /\ dog'[o].crashes = dog[o].crashes
                            /\ dog'[o].at # "gone" => dog[o].at # "gone"
    BY <1>2 DEF DogType
  <2>5. past'.restarts = past.restarts /\ clock' \in Nat /\ clock <= clock'
    BY <1>2 DEF PastType
  <2> QED
    BY <1>2, <2>1, <2>2, <2>3, <2>4, <2>5, SameCrashes DEF SupervisionInv
<1>12. ASSUME NEW s \in Launches, W!ConsoleControl(s) PROVE SupervisionInv'
  <2> USE <1>12 DEF W!ConsoleControl, W!Watched
  <2>1. SupervisionTypes'
    <3>1. dog' \in [Launches -> DogType]
      BY <1>2 DEF DogType
    <3>2. daemon' \in [Launches -> DaemonType]
      BY <1>2 DEF DaemonType
    <3>3. past' \in PastType /\ clock' \in Nat
      BY <1>2, CrashCounted
    <3> QED
      BY <3>1, <3>2, <3>3 DEF SupervisionTypes
  <2>2. NoneLeft'
    BY <1>2 DEF NoneLeft, DogType, DaemonType
  <2>3. Answered'
    BY <1>2, StillAnswered DEF Answers, NoneLeft, DogType, DaemonType, PastType
  <2>4. \A o \in Launches : /\ dog'[o].crashes = dog[o].crashes
                            /\ dog'[o].at # "gone" => dog[o].at # "gone"
    BY <1>2 DEF DogType
  <2>5. past'.restarts = past.restarts /\ clock' \in Nat /\ clock <= clock'
    BY <1>2 DEF PastType
  <2> QED
    BY <1>2, <2>1, <2>2, <2>3, <2>4, <2>5, SameCrashes DEF SupervisionInv
<1>13. ASSUME NEW s \in Launches, W!SpawnDaemon(s) PROVE SupervisionInv'
  <2> USE <1>13 DEF W!SpawnDaemon
  <2>1. SupervisionTypes'
    <3>1. dog' \in [Launches -> DogType]
      BY <1>2 DEF DogType
    <3>2. daemon' \in [Launches -> DaemonType]
      BY <1>2 DEF DaemonType
    <3>3. past' \in PastType /\ clock' \in Nat
      BY <1>2 DEF PastType
    <3> QED
      BY <3>1, <3>2, <3>3 DEF SupervisionTypes
  <2>2. NoneLeft'
    BY <1>2 DEF NoneLeft, DogType, DaemonType
  <2>3. Answered'
    BY <1>2, StillAnswered DEF Answers, NoneLeft, DogType, DaemonType, PastType
  <2>4. \A o \in Launches : /\ dog'[o].crashes = dog[o].crashes
                            /\ dog'[o].at # "gone" => dog[o].at # "gone"
    BY <1>2 DEF DogType
  <2>5. past'.restarts = past.restarts /\ clock' \in Nat /\ clock <= clock'
    BY <1>2 DEF PastType
  <2> QED
    BY <1>2, <2>1, <2>2, <2>3, <2>4, <2>5, SameCrashes DEF SupervisionInv
<1>14. ASSUME NEW s \in Launches, W!DaemonExited(s) PROVE SupervisionInv'
  <2> USE <1>14 DEF W!DaemonExited, W!Stops
  <2>1. SupervisionTypes'
    <3>1. dog' \in [Launches -> DogType]
      BY <1>2 DEF DogType
    <3>2. daemon' \in [Launches -> DaemonType]
      BY <1>2 DEF DaemonType
    <3>3. past' \in PastType /\ clock' \in Nat
      BY <1>2 DEF PastType
    <3> QED
      BY <3>1, <3>2, <3>3 DEF SupervisionTypes
  <2>2. NoneLeft'
    BY <1>2 DEF NoneLeft, DogType, DaemonType
  <2>3. Answered'
    BY <1>2, StillAnswered DEF Answers, NoneLeft, DogType, DaemonType, PastType
  <2>4. \A o \in Launches : /\ dog'[o].crashes = dog[o].crashes
                            /\ dog'[o].at # "gone" => dog[o].at # "gone"
    BY <1>2 DEF DogType
  <2>5. past'.restarts = past.restarts /\ clock' \in Nat /\ clock <= clock'
    BY <1>2 DEF PastType
  <2> QED
    BY <1>2, <2>1, <2>2, <2>3, <2>4, <2>5, SameCrashes DEF SupervisionInv
<1>15. ASSUME NEW s \in Launches, W!RecoverFromCrash(s) PROVE SupervisionInv'
  <2> USE <1>15 DEF W!RecoverFromCrash, W!Uncloak
  <2>1. SupervisionTypes'
    <3>1. dog' \in [Launches -> DogType]
      BY <1>2 DEF DogType
    <3>2. daemon' \in [Launches -> DaemonType]
      BY <1>2 DEF DaemonType
    <3>3. past' \in PastType /\ clock' \in Nat
      BY <1>2 DEF PastType
    <3> QED
      BY <3>1, <3>2, <3>3 DEF SupervisionTypes
  <2>2. NoneLeft'
    BY <1>2 DEF NoneLeft, DogType, DaemonType
  <2>3. Answered'
    BY <1>2, StillAnswered DEF Answers, NoneLeft, DogType, DaemonType, PastType
  <2>4. \A o \in Launches : /\ dog'[o].crashes = dog[o].crashes
                            /\ dog'[o].at # "gone" => dog[o].at # "gone"
    BY <1>2 DEF DogType
  <2>5. past'.restarts = past.restarts /\ clock' \in Nat /\ clock <= clock'
    BY <1>2 DEF PastType
  <2> QED
    BY <1>2, <2>1, <2>2, <2>3, <2>4, <2>5, SameCrashes DEF SupervisionInv
<1>16. ASSUME NEW s \in Launches, W!KillDog(s) PROVE SupervisionInv'
  <2> USE <1>16 DEF W!KillDog, W!NoDaemon
  <2>1. SupervisionTypes'
    <3>1. dog' \in [Launches -> DogType]
      BY <1>2 DEF DogType
    <3>2. daemon' \in [Launches -> DaemonType]
      BY <1>2 DEF DaemonType
    <3>3. past' \in PastType /\ clock' \in Nat
      BY <1>2, CrashCounted
    <3> QED
      BY <3>1, <3>2, <3>3 DEF SupervisionTypes
  <2>2. NoneLeft'
    BY <1>2 DEF NoneLeft, DogType, DaemonType
  <2>3. Answered'
    BY <1>2, StillAnswered DEF Answers, NoneLeft, DogType, DaemonType, PastType
  <2>4. \A o \in Launches : /\ dog'[o].crashes = dog[o].crashes
                            /\ dog'[o].at # "gone" => dog[o].at # "gone"
    BY <1>2 DEF DogType
  <2>5. past'.restarts = past.restarts /\ clock' \in Nat /\ clock <= clock'
    BY <1>2 DEF PastType
  <2> QED
    BY <1>2, <2>1, <2>2, <2>3, <2>4, <2>5, SameCrashes DEF SupervisionInv
\* A crash is remembered, and the daemon started again or given up.
<1>17. ASSUME NEW s \in Launches, W!Decide(s) PROVE SupervisionInv'
  <2> DEFINE q == W!Recent(dog[s].crashes, clock)
             r == past.restarts[s]
             again == Len(Append(q, clock)) < MaxPerWindow
  <2>1. /\ dog[s].at = "decide" /\ dog[s].at # "gone"
        /\ dog' = [dog EXCEPT ![s].crashes = Append(q, clock), ![s].at = IF again THEN "spawn" ELSE "gone"]
        /\ past' = IF again THEN [past EXCEPT !.restarts[s] = Append(@, clock)] ELSE past
        /\ UNCHANGED <<daemon, parked, cli, clock>>
    BY <1>17 DEF W!Decide
  <2>2. PICK k \in 1..Len(r) + 1 :
          /\ Len(q) = Len(r) - k + 1
          /\ \A i \in 1..Len(q) : q[i] = r[k + i - 1]
          /\ \A i \in 1..Len(r) : i < k => clock - r[i] >= Window
    BY <2>1, RecentRemembers
  <2>18. k \in Nat /\ 1 <= k
    BY <2>2, LenProperties, <1>2 DEF PastType
  <2>3. q \in Seq(Nat)
    BY <2>1, RecentRemembers
  <2> HIDE DEF q
  <2>4. r \in Seq(Nat) /\ Len(r) \in Nat /\ Len(q) \in Nat /\ \A i \in 1..Len(r) : r[i] \in Nat
    BY <1>2, <2>3, LenProperties, ElementOfSeq DEF PastType
  <2>5. Window \in Nat /\ MaxPerWindow \in Nat \ {0}
    BY EdgesAssumption DEF W!SupervisionAssumption
  <2> DEFINE rr == Append(r, clock)
             qq == Append(q, clock)
  <2>6. /\ rr \in Seq(Nat) /\ Len(rr) = Len(r) + 1 /\ rr[Len(r) + 1] = clock
        /\ \A i \in 1..Len(r) : rr[i] = r[i]
        /\ qq \in Seq(Nat) /\ Len(qq) = Len(q) + 1 /\ qq[Len(q) + 1] = clock
        /\ \A i \in 1..Len(q) : qq[i] = q[i]
    BY <1>2, <2>3, <2>4, AppendProperties
  <2> HIDE DEF rr, qq
  <2>7. dog' \in [Launches -> DogType]
    <3>1. \A a \in {"spawn", "gone"} : [dog[s] EXCEPT !.crashes = qq, !.at = a] \in DogType
      BY <1>2, <2>6 DEF DogType
    <3>2. dog' = [dog EXCEPT ![s] = [dog[s] EXCEPT !.crashes = qq, !.at = IF again THEN "spawn" ELSE "gone"]]
      BY <2>1 DEF qq
    <3> QED
      BY <1>2, <3>1, <3>2
  <2>8. /\ dog'[s].at = (IF again THEN "spawn" ELSE "gone") /\ dog'[s].crashes = qq
        /\ dog'[s].ctrl = dog[s].ctrl
        /\ \A o \in Launches \ {s} : dog'[o] = dog[o]
    BY <1>2, <2>1 DEF DogType, qq
  <2>9. /\ past' \in PastType /\ past'.abandoned = past.abandoned
        /\ past'.restarts[s] = (IF again THEN rr ELSE r)
        /\ \A o \in Launches \ {s} : past'.restarts[o] = past.restarts[o]
    BY <1>2, <2>1, <2>6 DEF PastType, rr
  <2>10. SupervisionTypes'
    BY <1>2, <2>1, <2>7, <2>9 DEF SupervisionTypes
  <2>11. NoneLeft'
    BY <1>2, <2>1, <2>8 DEF NoneLeft
  <2>12. Answered'
    BY <1>2, <2>1, <2>8, <2>9, StillAnswered DEF Answers, NoneLeft
  <2>13. ASSUME NEW o \in Launches \ {s} PROVE Timed(o)'
    <3>1. /\ dog'[o] = dog[o] /\ past'.restarts[o] = past.restarts[o] /\ clock' = clock
          /\ Timed(o)
      BY <1>2, <2>1, <2>8, <2>9
    <3> QED
      BY <3>1 DEF Timed, Remembers
  <2>14. again => rr = past'.restarts[s] /\ Len(q) + 1 < MaxPerWindow /\ dog'[s].at = "spawn"
    BY <2>6, <2>8, <2>9 DEF qq
  <2>15. Timed(s)
    BY <1>2
  <2>16. Timed(s)'
    <3>1. CASE ~again
      BY <2>1, <2>8, <2>9, <2>15, <3>1 DEF Timed
    <3>2. CASE again
      <4>1. \A i \in 1..Len(rr) : i \in 1..Len(r) \/ i = Len(r) + 1
        BY <2>4, <2>6
      <4>2. \A i \in 1..Len(rr) : rr[i] <= clock /\ rr[i] \in Nat
        <5>1. \A i \in 1..Len(r) : r[i] <= clock
          BY <2>15 DEF Timed
        <5> SUFFICES ASSUME NEW i \in 1..Len(rr) PROVE rr[i] <= clock /\ rr[i] \in Nat
          OBVIOUS
        <5> HIDE DEF r, again, Quiet
        <5>2. CASE i \in 1..Len(r)
          BY <2>4, <2>6, <5>1, <5>2
        <5>3. CASE i = Len(r) + 1
          BY <1>2, <2>6, <5>3
        <5> QED
          BY <4>1, <5>2, <5>3
      <4>3. \A i, j \in 1..Len(rr) : i <= j => rr[i] <= rr[j]
        <5> SUFFICES ASSUME NEW i \in 1..Len(rr), NEW j \in 1..Len(rr), i <= j
                     PROVE  rr[i] <= rr[j]
          OBVIOUS
        <5>1. CASE j \in 1..Len(r)
          <6>1. i \in 1..Len(r)
            BY <2>4, <4>1, <5>1
          <6> QED
            BY <2>6, <2>15, <5>1, <6>1 DEF Timed
        <5>2. CASE j = Len(r) + 1
          BY <2>6, <4>2, <5>2
        <5> QED
          BY <4>1, <5>1, <5>2
      <4>4. k \in 1..Len(rr) + 1 /\ Len(qq) = Len(rr) - k + 1
        BY <2>2, <2>4, <2>6
      <4>5. \A i \in 1..Len(qq) : qq[i] = rr[k + i - 1]
        <5> SUFFICES ASSUME NEW i \in 1..Len(qq) PROVE qq[i] = rr[k + i - 1]
          OBVIOUS
        <5>1. CASE i \in 1..Len(q)
          <6>1. k + i - 1 \in 1..Len(r)
            BY <2>2, <2>18, <2>4, <5>1, SMTT(30)
          <6> QED
            BY <2>2, <2>6, <5>1, <6>1
        <5>2. CASE i = Len(q) + 1
          <6>1. k + i - 1 = Len(r) + 1
            BY <2>2, <2>4, <5>2
          <6> QED
            BY <2>6, <5>2, <6>1
        <5> QED
          BY <2>4, <2>6, <5>1, <5>2
      <4>6. \A i \in 1..Len(rr) : i < k => clock - rr[i] >= Window
        <5> SUFFICES ASSUME NEW i \in 1..Len(rr), i < k PROVE clock - rr[i] >= Window
          OBVIOUS
        <5>1. i \in 1..Len(r)
          BY <2>4, <4>1
        <5> QED
          BY <2>2, <2>6, <5>1
      <4>7. Remembers(s, k)'
        BY <2>1, <2>8, <2>14, <3>2, <4>4, <4>5, <4>6 DEF Remembers
      <4> QED
        BY <2>1, <2>14, <3>2, <4>2, <4>3, <4>4, <4>7 DEF Timed
    <3> QED
      BY <3>1, <3>2
  <2>17. W!CrashBudget'
    <3>1. ASSUME NEW o \in Launches, past'.restarts[o] = past.restarts[o],
                 NEW i \in DOMAIN past'.restarts[o],
                 i + MaxPerWindow - 1 \in DOMAIN past'.restarts[o]
          PROVE  past'.restarts[o][i + MaxPerWindow - 1] - past'.restarts[o][i] >= Window
      BY <1>2, <3>1 DEF W!CrashBudget
    <3>2. ASSUME again, NEW i \in DOMAIN rr, i + MaxPerWindow - 1 \in DOMAIN rr
          PROVE  rr[i + MaxPerWindow - 1] - rr[i] >= Window
      <4>0. DOMAIN r = 1..Len(r) /\ DOMAIN rr = 1..Len(r) + 1
        BY <2>4, <2>6, LenProperties
      <4> HIDE DEF r, again, Quiet
      <4>1. i \in 1..Len(r) + 1 /\ i + MaxPerWindow - 1 \in 1..Len(r) + 1
        BY <3>2, <4>0
      <4>2. CASE i + MaxPerWindow - 1 = Len(r) + 1
        <5>1. i < k /\ i \in 1..Len(r)
          BY <2>2, <2>4, <2>5, <2>14, <3>2, <4>1, <4>2
        <5> QED
          BY <2>2, <2>6, <4>2, <5>1
      <4>3. CASE i + MaxPerWindow - 1 # Len(r) + 1
        <5>0. i \in Nat /\ 1 <= i /\ i + MaxPerWindow - 1 <= Len(r)
          <6> DEFINE n == Len(r)
                     m == i + MaxPerWindow - 1
          <6>1. n \in Nat /\ MaxPerWindow \in Nat /\ i \in 1..n + 1 /\ m \in 1..n + 1 /\ m # n + 1
            BY <2>4, <2>5, <4>1, <4>3
          <6> HIDE DEF n, m
          <6>2. m <= n
            BY <6>1
          <6> QED
            BY <6>1, <6>2 DEF n, m
        <5>1. i \in 1..Len(r) /\ i + MaxPerWindow - 1 \in 1..Len(r)
          BY <2>4, <2>5, <5>0
        <5>2. r[i + MaxPerWindow - 1] - r[i] >= Window
          BY <1>2, <4>0, <5>1 DEF W!CrashBudget, r
        <5> QED
          BY <2>6, <5>1, <5>2
      <4> QED
        BY <4>2, <4>3
    <3>3. \A o \in Launches : past'.restarts[o] = past.restarts[o] \/ (o = s /\ again)
      BY <2>9
    <3> HIDE DEF again
    <3> QED
      BY <2>14, <3>1, <3>2, <3>3 DEF W!CrashBudget
  <2> QED
    BY <2>10, <2>11, <2>12, <2>13, <2>16, <2>17 DEF SupervisionInv
\* Commands that start nothing and stop nothing.
<1>18. CASE Quiet
  <2>1. SupervisionTypes' /\ NoneLeft' /\ Answered'
    BY <1>2, <1>18 DEF SupervisionTypes, NoneLeft, Answered, Answers
  <2> QED
    BY <1>2, <1>18, <2>1, SameCrashes DEF SupervisionInv
<1>19. ASSUME NEW u \in Users,
             \/ \E cmd \in {"stop", "revert"} : W!StopOrRevert(u, cmd) \/ W!StopFails(u, cmd)
             \/ W!Run(u) \/ W!EmergencyUncloak(u) \/ W!SendApply(u) \/ W!ApplyFails(u) \/ W!Confirm(u)
      PROVE  SupervisionInv'
  <2>1. Quiet
    BY <1>19 DEF W!StopOrRevert, W!StopFails, W!Run, W!EmergencyUncloak, W!SendApply, W!ApplyFails,
                W!Confirm, W!Others, W!RestoreLocally
  <2> QED
    BY <1>18, <2>1
<1>20. ASSUME NEW u \in Users, NEW cmd, W!Command(u, cmd) PROVE SupervisionInv'
  <2>0. /\ UNCHANGED <<dog, daemon, parked, clock>>
        /\ past' = [past EXCEPT !.commands = @ + 1]
    BY <1>20 DEF W!Command
  <2>1. SupervisionTypes'
    <3>1. dog' \in [Launches -> DogType]
      BY <1>2, <2>0 DEF DogType
    <3>2. daemon' \in [Launches -> DaemonType]
      BY <1>2, <2>0 DEF DaemonType
    <3>3. past' \in PastType /\ clock' \in Nat
      BY <1>2, <2>0 DEF PastType
    <3> QED
      BY <3>1, <3>2, <3>3 DEF SupervisionTypes
  <2>2. NoneLeft'
    BY <1>2, <2>0 DEF NoneLeft, DogType, DaemonType
  <2>3. Answered'
    BY <1>2, <2>0, StillAnswered DEF Answers, NoneLeft, DogType, DaemonType, PastType
  <2>4. \A o \in Launches : /\ dog'[o].crashes = dog[o].crashes
                            /\ dog'[o].at # "gone" => dog[o].at # "gone"
    BY <1>2, <2>0 DEF DogType
  <2>5. past'.restarts = past.restarts /\ clock' \in Nat /\ clock <= clock'
    BY <1>2, <2>0 DEF PastType
  <2> QED
    BY <1>2, <2>1, <2>2, <2>3, <2>4, <2>5, SameCrashes DEF SupervisionInv
<1>21. ASSUME NEW u \in Users, W!LaunchWatchdog(u) PROVE SupervisionInv'
  <2>0. PICK s \in Launches : /\ dog[s].at = "none" /\ daemon[s].at = "none"
                              /\ dog' = [dog EXCEPT ![s].at = "spawn"]
                              /\ UNCHANGED <<daemon, parked, clock, past>>
    BY <1>21 DEF W!LaunchWatchdog, W!Free
  <2>1. SupervisionTypes'
    <3>1. dog' \in [Launches -> DogType]
      BY <1>2, <2>0 DEF DogType
    <3>2. daemon' \in [Launches -> DaemonType]
      BY <1>2, <2>0 DEF DaemonType
    <3>3. past' \in PastType /\ clock' \in Nat
      BY <1>2, <2>0 DEF PastType
    <3> QED
      BY <3>1, <3>2, <3>3 DEF SupervisionTypes
  <2>2. NoneLeft'
    BY <1>2, <2>0 DEF NoneLeft, DogType, DaemonType
  <2>3. Answered'
    BY <1>2, <2>0, StillAnswered DEF Answers, NoneLeft, DogType, DaemonType, PastType
  <2>4. \A o \in Launches : /\ dog'[o].crashes = dog[o].crashes
                            /\ dog'[o].at # "gone" => dog[o].at # "gone"
    BY <1>2, <2>0 DEF DogType
  <2>5. past'.restarts = past.restarts /\ clock' \in Nat /\ clock <= clock'
    BY <1>2, <2>0 DEF PastType
  <2> QED
    BY <1>2, <2>1, <2>2, <2>3, <2>4, <2>5, SameCrashes DEF SupervisionInv
<1>22. ASSUME NEW u \in Users, W!LaunchDaemon(u) PROVE SupervisionInv'
  <2>0. PICK s \in Launches : /\ dog[s].at = "none" /\ daemon[s].at = "none"
                              /\ daemon' = [daemon EXCEPT ![s].at = "checking"]
                              /\ UNCHANGED <<dog, parked, clock, past>>
    BY <1>22 DEF W!LaunchDaemon, W!Free
  <2>1. SupervisionTypes'
    <3>1. dog' \in [Launches -> DogType]
      BY <1>2, <2>0 DEF DogType
    <3>2. daemon' \in [Launches -> DaemonType]
      BY <1>2, <2>0 DEF DaemonType
    <3>3. past' \in PastType /\ clock' \in Nat
      BY <1>2, <2>0 DEF PastType
    <3> QED
      BY <3>1, <3>2, <3>3 DEF SupervisionTypes
  <2>2. NoneLeft'
    BY <1>2, <2>0 DEF NoneLeft, DogType, DaemonType
  <2>3. Answered'
    BY <1>2, <2>0, StillAnswered DEF Answers, NoneLeft, DogType, DaemonType, PastType
  <2>4. \A o \in Launches : /\ dog'[o].crashes = dog[o].crashes
                            /\ dog'[o].at # "gone" => dog[o].at # "gone"
    BY <1>2, <2>0 DEF DogType
  <2>5. past'.restarts = past.restarts /\ clock' \in Nat /\ clock <= clock'
    BY <1>2, <2>0 DEF PastType
  <2> QED
    BY <1>2, <2>1, <2>2, <2>3, <2>4, <2>5, SameCrashes DEF SupervisionInv
<1>23. ASSUME NEW u \in Users, W!SendStop(u) PROVE SupervisionInv'
  <2>0. PICK s \in Launches :
          /\ daemon' = [daemon EXCEPT ![s].at = IF @ = "tiling" THEN "stopping" ELSE @]
          /\ UNCHANGED <<dog, parked, clock, past>>
    BY <1>23 DEF W!SendStop
  <2>1. SupervisionTypes'
    <3>1. dog' \in [Launches -> DogType]
      BY <1>2, <2>0 DEF DogType
    <3>2. daemon' \in [Launches -> DaemonType]
      BY <1>2, <2>0 DEF DaemonType
    <3>3. past' \in PastType /\ clock' \in Nat
      BY <1>2, <2>0 DEF PastType
    <3> QED
      BY <3>1, <3>2, <3>3 DEF SupervisionTypes
  <2>2. NoneLeft'
    BY <1>2, <2>0 DEF NoneLeft, DogType, DaemonType
  <2>3. Answered'
    BY <1>2, <2>0, StillAnswered DEF Answers, NoneLeft, DogType, DaemonType, PastType
  <2>4. \A o \in Launches : /\ dog'[o].crashes = dog[o].crashes
                            /\ dog'[o].at # "gone" => dog[o].at # "gone"
    BY <1>2, <2>0 DEF DogType
  <2>5. past'.restarts = past.restarts /\ clock' \in Nat /\ clock <= clock'
    BY <1>2, <2>0 DEF PastType
  <2> QED
    BY <1>2, <2>1, <2>2, <2>3, <2>4, <2>5, SameCrashes DEF SupervisionInv
<1>24. ASSUME W!Elapse PROVE SupervisionInv'
  <2>0. UNCHANGED <<dog, daemon, parked, past>> /\ clock' = clock + 1
    BY <1>24 DEF W!Elapse
  <2>1. SupervisionTypes'
    <3>1. dog' \in [Launches -> DogType]
      BY <1>2, <2>0 DEF DogType
    <3>2. daemon' \in [Launches -> DaemonType]
      BY <1>2, <2>0 DEF DaemonType
    <3>3. past' \in PastType /\ clock' \in Nat
      BY <1>2, <2>0 DEF PastType
    <3> QED
      BY <3>1, <3>2, <3>3 DEF SupervisionTypes
  <2>2. NoneLeft'
    BY <1>2, <2>0 DEF NoneLeft, DogType, DaemonType
  <2>3. Answered'
    BY <1>2, <2>0, StillAnswered DEF Answers, NoneLeft, DogType, DaemonType, PastType
  <2>4. \A o \in Launches : /\ dog'[o].crashes = dog[o].crashes
                            /\ dog'[o].at # "gone" => dog[o].at # "gone"
    BY <1>2, <2>0 DEF DogType
  <2>5. past'.restarts = past.restarts /\ clock' \in Nat /\ clock <= clock'
    BY <1>2, <2>0 DEF PastType
  <2> QED
    BY <1>2, <2>1, <2>2, <2>3, <2>4, <2>5, SameCrashes DEF SupervisionInv
<1> QED
  BY <1>1, <1>4, <1>5, <1>6, <1>7, <1>8, <1>9, <1>10, <1>11, <1>12, <1>13, <1>14, <1>15, <1>16, <1>17, <1>18, <1>19, <1>20, <1>21, <1>22, <1>23, <1>24 DEF W!Next

\* Nobody gives up on hidden windows, and crash loops stop: whatever the
\* number of launches, users and restarts.
THEOREM SupervisionSoundHolds == EdgesSpec => []SupervisionSound
<1>1. SupervisionInv => SupervisionSound
  BY DEF SupervisionInv, Answered, Answers, SupervisionSound, W!SupervisionSound, W!RestVisible, W!Alive
<1> QED
  BY <1>1, SupervisionInit, SupervisionStep, PTL DEF EdgesSpec
=============================================================================
