--------------------------- MODULE GeometryProofs ---------------------------
(***************************************************************************)
(* Proofs about what windows are made to look like: the maximize boxes     *)
(* that a worker takes and that it, the daemon and three rescuers give     *)
(* back, for any number of windows, tokens and waiting requests.  The      *)
(* other parts rest while this one moves.                                  *)
(***************************************************************************)
EXTENDS MCGeometry, SequenceTheorems, FiniteSetTheorems, TLAPS

(***************************************************************************)
(* The inductive invariant.                                                *)
(***************************************************************************)
AskKinds == {"remove", "restore"}
Barrier == [op |-> "barrier", key |-> {}]
Asks == [op : AskKinds, key : {{k} : k \in B!Keys}] \cup {Barrier}

Tables == [disabled : SUBSET BoxHandles, tracked : [BoxHandles -> SUBSET (0..MaxTokens)],
           pending : [B!Keys -> Nat], published : SUBSET B!Keys, queue : Seq(Asks)]

BoxTypes ==
    /\ boxes \in [BoxHandles -> B!Window]
    /\ home \in [BoxHandles -> {"out", "tiled", "floating"}]
    /\ snap \in Tables
    /\ worker \in [at : {"idle", "check", "write", "frame"}, op : SUBSET AskKinds,
                   key : SUBSET B!Keys, undo : BOOLEAN]
    /\ phase \in {"up", "waiting", "rescuing", "done"}
    /\ DOMAIN todo \subseteq B!Rescuers /\ \A r \in DOMAIN todo : todo[r] \subseteq B!Keys

\* The worker has one request in hand, the published one, or none.
Hand ==
    IF worker.at = "idle" THEN worker = B!Idle /\ snap.published = {}
    ELSE /\ snap.published = worker.key
         /\ \E k \in B!Keys : worker.key = {k}
         /\ worker.op \in {{"remove"}, {"restore"}}
         /\ worker.undo => worker.op = {"restore"}

\* The counters count the restores that wait or are under way.
Waiting(q, k) == {i \in DOMAIN q : q[i] = B!Request("restore", k)}
InWork(k) == IF worker.op = {"restore"} /\ worker.key = {k} /\ ~worker.undo THEN 1 ELSE 0
Accounts == \A k \in B!Keys : snap.pending[k] = Cardinality(Waiting(snap.queue, k)) + InWork(k)

\* The barrier is the last request there is, and ends the wait for it.
Phases ==
    /\ \A i \in DOMAIN snap.queue : snap.queue[i] = Barrier => i = Len(snap.queue) /\ phase # "up"
    /\ phase \in {"up", "waiting"} => "shutdown" \notin DOMAIN todo
    /\ phase = "rescuing" => "shutdown" \in DOMAIN todo
    /\ phase = "done" => IF "shutdown" \in DOMAIN todo THEN todo["shutdown"] = {}
                         ELSE snap.queue = <<>> /\ worker.at = "idle"

\* What a queue holds about a window.  Removals and restores take turns in it:
\* between two removals is a restore.  It may start with a restore, end with
\* one, or end with the removal of one lifetime.
About(r, op, h) == r.op = op /\ \E k \in r.key : k[1] = h
Holds(q, op, h) == \E i \in DOMAIN q : About(q[i], op, h)
FreshIn(q, h, fits) ==
    \A i \in DOMAIN q : \A k \in q[i].key :
       k[1] = h => k[2] \in fits /\ (q[i].op = "restore" => k[2] # 0)
Alternates(q, h) ==
    \A i, j \in DOMAIN q : i < j /\ About(q[i], "remove", h) /\ About(q[j], "remove", h) =>
       \E n \in DOMAIN q : i < n /\ n < j /\ About(q[n], "restore", h)
Led(q, h) ==
    \A i \in DOMAIN q : About(q[i], "remove", h) =>
       \E n \in DOMAIN q : n < i /\ About(q[n], "restore", h)
Ended(q, h) ==
    \A i \in DOMAIN q : About(q[i], "remove", h) =>
       \E n \in DOMAIN q : i < n /\ About(q[n], "restore", h)
Last(q, h, t) ==
    \E i \in DOMAIN q : /\ q[i] = B!Request("remove", <<h, t>>)
                        /\ \A n \in DOMAIN q : i < n => ~About(q[n], "restore", h)

\* What the worker does to a window: an undo belongs to the removal it follows.
Holding(op, h) == worker.op = {op} /\ \E k \in worker.key : k[1] = h
Taking(h) == Holding("remove", h) \/ (Holding("restore", h) /\ worker.undo)
Giving(h) == Holding("restore", h) /\ ~worker.undo
Pending(h) == Holds(snap.queue, "restore", h) \/ Giving(h)

\* The rest is said of each window.  What the daemon knows of it:
Fits(h) == {0, boxes[h].token}
Noted(h) ==
    /\ home[h] # "out" => boxes[h].live /\ boxes[h].token # 0
    /\ h \in snap.disabled => phase = "up" /\ ~paused /\ home[h] = "tiled"
    /\ snap.tracked[h] # {} => h \in snap.disabled /\ \E t \in Fits(h) : snap.tracked[h] = {t}

\* All requests are for its present lifetime.
Fresh(h) ==
    /\ FreshIn(snap.queue, h, Fits(h))
    /\ \A k \in worker.key : k[1] = h => k[2] \in Fits(h) /\ (Giving(h) => k[2] # 0)

\* Before a removal the box is there or a restore comes first, and after it
\* comes one if the daemon no longer wants the box away.
Turns(h) ==
    /\ Alternates(snap.queue, h)
    /\ Led(snap.queue, h) \/ Giving(h) \/ (boxes[h].box /\ ~Taking(h))
    /\ h \in snap.disabled \/ Ended(snap.queue, h)
    /\ Taking(h) => h \in snap.disabled \/ Holds(snap.queue, "restore", h)
    /\ Holding("remove", h) /\ worker.at # "frame" => boxes[h].box
    /\ Holding("restore", h) /\ worker.at = "frame" => boxes[h].box

\* A missing box is on its way back, or the daemon wants it away and the
\* tables, a rescuer or the worker know.
ListedBy(r, h) == \E t \in Fits(h) : <<h, t>> \in todo[r]
Left(h) == \E r \in DOMAIN todo : ListedBy(r, h)
Known(h) ==
    B!Missing(h) => \/ h \in passed \/ Pending(h)
                    \/ h \in snap.disabled /\ (snap.tracked[h] # {} \/ Left(h) \/ Taking(h))

\* What the shutdown, and the fallback, have still to see.
Rescue(h) ==
    /\ "shutdown" \in DOMAIN todo /\ B!Missing(h) =>
          h \in passed \/ Taking(h) \/ Giving(h) \/ ListedBy("shutdown", h)
    /\ "fallback" \in DOMAIN todo /\ B!Missing(h) => h \in passed \cup late \/ Left(h)

\* Before any rescuer came by, the box of a tiled window is away for good, or a
\* removal is the last that is asked for it.
LastAsked(h, t) ==
    \/ Last(snap.queue, h, t)
    \/ /\ ~Holds(snap.queue, "restore", h)
       /\ \/ Holding("remove", h) /\ worker.key = {<<h, t>>}
          \/ ~boxes[h].box /\ ~Holding("restore", h) /\ ~Holding("remove", h)
Taken(h) ==
    DOMAIN todo = {} =>
    /\ Holding("remove", h) /\ worker.at = "frame" => ~boxes[h].box
    /\ phase = "up" /\ ~paused /\ home[h] = "tiled" /\ h \notin snap.disabled =>
          ~boxes[h].box /\ ~Pending(h)
    /\ h \in snap.disabled => \E t \in snap.tracked[h] : LastAsked(h, t)

Sound(h) == boxes[h].live /\ h \notin crossed
OneBox(h) ==
    /\ Noted(h)
    /\ Sound(h) => Fresh(h) /\ Turns(h) /\ Known(h) /\ Rescue(h) /\ Taken(h)
BoxInv == BoxTypes /\ Hand /\ Accounts /\ Phases /\ \A h \in BoxHandles : OneBox(h)
BoxesInv == part = "boxes" => BoxInv

(***************************************************************************)
(* Requests and queues.                                                    *)
(***************************************************************************)
LEMMA KeyIs ==
    ASSUME NEW k \in B!Keys
    PROVE  k[1] \in BoxHandles /\ k[2] \in 0..MaxTokens /\ k = <<k[1], k[2]>>
BY DEF B!Keys

LEMMA AskIs ==
    ASSUME NEW r \in Asks
    PROVE  \/ r = Barrier /\ r.op = "barrier" /\ r.key = {}
           \/ r.op \in AskKinds /\ \E k \in B!Keys : r.key = {k} /\ r = B!Request(r.op, k)
BY DEF Asks, Barrier, AskKinds, B!Request

LEMMA RequestIs ==
    ASSUME NEW k \in B!Keys, NEW op \in AskKinds
    PROVE  /\ B!Request(op, k) \in Asks /\ B!Request(op, k) # Barrier
           /\ B!Request(op, k).op = op /\ B!Request(op, k).key = {k}
BY DEF Asks, Barrier, AskKinds, B!Request

LEMMA QueueTail ==
    ASSUME NEW q \in Seq(Asks), q # <<>>
    PROVE  /\ Tail(q) \in Seq(Asks) /\ Head(q) = q[1] /\ q[1] \in Asks /\ 1 \in DOMAIN q
           /\ \A i \in DOMAIN Tail(q) : i \in Nat \ {0} /\ i + 1 \in DOMAIN q /\ Tail(q)[i] = q[i + 1]
           /\ \A i \in DOMAIN q : i = 1 \/ (i - 1 \in DOMAIN Tail(q) /\ Tail(q)[i - 1] = q[i])
           /\ Len(Tail(q)) = Len(q) - 1 /\ Len(q) \in Nat
<1> DEFINE t == Tail(q)
<1>1. /\ t \in Seq(Asks) /\ Head(q) \in Asks /\ Len(t) = Len(q) - 1
      /\ \A i \in 1..Len(t) : t[i] = q[i + 1]
      /\ Len(q) \in Nat \ {0} /\ Head(q) = q[1]
  BY HeadTailProperties, EmptySeq
<1>2. DOMAIN q = 1..Len(q) /\ DOMAIN t = 1..Len(t)
  BY <1>1, LenProperties
<1> HIDE DEF t
<1>3. \A i \in DOMAIN t : i \in Nat \ {0} /\ i + 1 \in DOMAIN q /\ t[i] = q[i + 1]
  BY <1>1, <1>2
<1>4. \A i \in DOMAIN q : i = 1 \/ (i - 1 \in DOMAIN t /\ t[i - 1] = q[i])
  BY <1>1, <1>2
<1> QED
  BY <1>1, <1>2, <1>3, <1>4 DEF t

\* The first request of q leaves: the others are counted as before.
LEMMA WaitingTail ==
    ASSUME NEW q \in Seq(Asks), q # <<>>, NEW k \in B!Keys
    PROVE  /\ IsFiniteSet(Waiting(q, k)) /\ IsFiniteSet(Waiting(Tail(q), k))
           /\ Cardinality(Waiting(Tail(q), k)) \in Nat
           /\ Cardinality(Waiting(q, k)) =
                 Cardinality(Waiting(Tail(q), k)) + IF q[1] = B!Request("restore", k) THEN 1 ELSE 0
<1> DEFINE t == Tail(q)
           A == Waiting(q, k) \ {1}
           C == Waiting(t, k)
           f == [i \in A |-> i - 1]
<1>1. /\ t \in Seq(Asks) /\ 1 \in DOMAIN q
      /\ \A i \in DOMAIN t : i \in Nat \ {0} /\ i + 1 \in DOMAIN q /\ t[i] = q[i + 1]
      /\ \A i \in DOMAIN q : i = 1 \/ (i - 1 \in DOMAIN t /\ t[i - 1] = q[i])
  BY QueueTail
<1>2. DOMAIN q = 1..Len(q) /\ Len(q) \in Nat
  BY LenProperties
<1>3. IsFiniteSet(Waiting(q, k)) /\ IsFiniteSet(A)
  <2>1. IsFiniteSet(1..Len(q)) /\ Waiting(q, k) \subseteq 1..Len(q)
    BY <1>2, FS_Interval DEF Waiting
  <2>2. IsFiniteSet(Waiting(q, k))
    BY <2>1, FS_Subset
  <2> QED
    BY <2>2, FS_RemoveElement
<1> HIDE DEF t
<1>4. f \in Bijection(A, C)
  <2>1. \A i \in A : i \in Int /\ i - 1 \in C
    BY <1>1, <1>2 DEF Waiting
  <2>2. \A j \in C : j + 1 \in A /\ f[j + 1] = j
    BY <1>1, <1>2 DEF Waiting
  <2>3. \A i, j \in A : f[i] = f[j] => i = j
    BY <2>1
  <2> HIDE DEF A, C
  <2>4. f \in [A -> C]
    BY <2>1
  <2> QED
    BY <2>2, <2>3, <2>4 DEF Bijection, Injection, Surjection, IsInjective
<1>5. IsFiniteSet(C) /\ Cardinality(C) = Cardinality(A)
  BY <1>3, <1>4, FS_Bijection DEF ExistsBijection
<1>6. Cardinality(A) = IF 1 \in Waiting(q, k) THEN Cardinality(Waiting(q, k)) - 1 ELSE Cardinality(Waiting(q, k))
  BY <1>3, FS_RemoveElement
<1>7. Cardinality(C) \in Nat /\ Cardinality(Waiting(q, k)) \in Nat
  BY <1>3, <1>5, FS_CardinalityType
<1>8. 1 \in Waiting(q, k) <=> q[1] = B!Request("restore", k)
  BY <1>1 DEF Waiting
<1> HIDE DEF A, C
<1>9. Cardinality(Waiting(q, k)) = Cardinality(C) + IF q[1] = B!Request("restore", k) THEN 1 ELSE 0
  BY <1>5, <1>6, <1>7, <1>8
<1> QED
  BY <1>3, <1>5, <1>7, <1>9 DEF C, t

(***************************************************************************)
(* What the daemon adds to the queue: one request for each window of a     *)
(* set, under the token it captured.                                       *)
(***************************************************************************)
New(q, q2) == DOMAIN q2 \ DOMAIN q
Extends(q, q2, op, tok) ==
    /\ q2 \in Seq(Asks) /\ Len(q) <= Len(q2)
    /\ \A i \in DOMAIN q : q2[i] = q[i]
    /\ \A i \in New(q, q2) : \E h \in DOMAIN tok : q2[i] = B!Request(op, <<h, tok[h]>>)
    /\ \A h \in DOMAIN tok : \E i \in New(q, q2) : q2[i] = B!Request(op, <<h, tok[h]>>)
    /\ \A i, j \in New(q, q2) : q2[i] = q2[j] => i = j
Captures(tok) == \A h \in DOMAIN tok : <<h, tok[h]>> \in B!Keys

LEMMA QueueIs ==
    ASSUME NEW q \in Seq(Asks)
    PROVE  /\ DOMAIN q = 1..Len(q) /\ Len(q) \in Nat
           /\ \A i \in DOMAIN q : i \in Nat \ {0} /\ q[i] \in Asks
BY LenProperties, ElementOfSeq

\* Each restore added is counted, and nothing else is.
LEMMA WaitingMore ==
    ASSUME NEW q \in Seq(Asks), NEW q2, NEW op \in AskKinds, NEW tok, Captures(tok),
           Extends(q, q2, op, tok), NEW k \in B!Keys
    PROVE  /\ Cardinality(Waiting(q, k)) \in Nat
           /\ Cardinality(Waiting(q2, k)) = Cardinality(Waiting(q, k))
                + IF op = "restore" /\ k[1] \in DOMAIN tok /\ k[2] = tok[k[1]] THEN 1 ELSE 0
<1> DEFINE A == Waiting(q, k)
           C == Waiting(q2, k)
           more == op = "restore" /\ k[1] \in DOMAIN tok /\ k[2] = tok[k[1]]
<1>1. /\ DOMAIN q = 1..Len(q) /\ Len(q) \in Nat /\ DOMAIN q2 = 1..Len(q2) /\ Len(q2) \in Nat
      /\ DOMAIN q \subseteq DOMAIN q2
  <2>1. q2 \in Seq(Asks) /\ Len(q) <= Len(q2)
    BY DEF Extends
  <2>2. DOMAIN q = 1..Len(q) /\ Len(q) \in Nat /\ DOMAIN q2 = 1..Len(q2) /\ Len(q2) \in Nat
    BY <2>1, QueueIs
  <2> QED
    BY <2>1, <2>2
<1>2. IsFiniteSet(A) /\ Cardinality(A) \in Nat
  <2>1. IsFiniteSet(1..Len(q)) /\ A \subseteq 1..Len(q)
    BY <1>1, FS_Interval DEF Waiting
  <2>2. IsFiniteSet(A)
    BY <2>1, FS_Subset
  <2> QED
    BY <2>2, FS_CardinalityType
<1>3. A = C \cap DOMAIN q
  BY <1>1 DEF Waiting, Extends
<1>4. k = <<k[1], k[2]>>
  BY KeyIs
<1>5. CASE more
  <2>1. PICK i \in New(q, q2) : q2[i] = B!Request(op, <<k[1], tok[k[1]]>>)
    BY <1>5 DEF Extends
  <2>2. q2[i] = B!Request("restore", k)
    BY <1>4, <1>5, <2>1
  <2>3. \A j \in New(q, q2) : j \in C => j = i
    BY <2>2 DEF Extends, Waiting
  <2>4. C = A \cup {i} /\ i \notin A
    BY <1>1, <1>3, <2>2, <2>3 DEF New, Waiting
  <2> HIDE DEF A, C
  <2> QED
    BY <1>2, <1>5, <2>4, FS_AddElement DEF A, C
<1>6. CASE ~more
  <2>1. \A j \in New(q, q2) : j \notin C
    <3> SUFFICES ASSUME NEW j \in New(q, q2), q2[j] = B!Request("restore", k) PROVE FALSE
      BY DEF Waiting
    <3>1. PICK h \in DOMAIN tok : q2[j] = B!Request(op, <<h, tok[h]>>)
      BY DEF Extends
    <3>2. op = "restore" /\ {<<h, tok[h]>>} = {k}
      BY <3>1 DEF B!Request
    <3> QED
      BY <1>6, <3>2
  <2>2. C = A
    BY <1>1, <1>3, <2>1 DEF New, Waiting
  <2> QED
    BY <1>2, <1>6, <2>2
<1> QED
  BY <1>5, <1>6

LEMMA ExtendsByOne ==
    ASSUME NEW q \in Seq(Asks), NEW op \in AskKinds, NEW h, NEW t, <<h, t>> \in B!Keys
    PROVE  Extends(q, Append(q, B!Request(op, <<h, t>>)), op, [x \in {h} |-> t])
<1> DEFINE r == B!Request(op, <<h, t>>)
           q2 == Append(q, r)
           tok == [x \in {h} |-> t]
<1>1. r \in Asks
  BY RequestIs
<1> HIDE DEF r
<1>2. /\ q2 \in Seq(Asks) /\ Len(q2) = Len(q) + 1 /\ DOMAIN q2 = 1..Len(q2)
      /\ \A i \in 1..Len(q) : q2[i] = q[i]
      /\ q2[Len(q) + 1] = r /\ DOMAIN q = 1..Len(q) /\ Len(q) \in Nat
  BY <1>1, QueueIs
<1>3. New(q, q2) = {Len(q) + 1}
  BY <1>2 DEF New
<1>4. DOMAIN tok = {h} /\ tok[h] = t
  OBVIOUS
<1> HIDE DEF q2, tok
<1>5. Extends(q, q2, op, tok)
  BY <1>2, <1>3, <1>4 DEF Extends, r
<1> QED
  BY <1>5 DEF q2, tok, r

LEMMA ExtendsByAll ==
    ASSUME NEW q \in Seq(Asks), NEW op \in AskKinds, NEW some \in SUBSET BoxHandles,
           NEW order \in B!SetToSeqs(some), NEW tok \in [some -> 0..MaxTokens],
           NEW u, u = [i \in DOMAIN order |-> B!Request(op, <<order[i], tok[order[i]]>>)]
    PROVE  Extends(q, q \o u, op, tok)
<1>0. IsFiniteSet(BoxHandles)
  BY GeometryAssumption DEF B!BoxesAssumption, IsFiniteSet, B!IsFiniteSet
<1>1. IsFiniteSet(some)
  BY <1>0, FS_Subset
<1>a. /\ order \in [1..Cardinality(some) -> some]
      /\ \A j, k \in 1..Cardinality(some) : j # k => order[j] # order[k]
  <2>1. B!Cardinality(some) = Cardinality(some)
    BY DEF Cardinality, B!Cardinality, IsFiniteSet, B!IsFiniteSet
  <2>2. order \in B!SetToSeqs(some)
    OBVIOUS
  <2> QED
    BY <2>1, <2>2 DEF B!SetToSeqs
<1> DEFINE n == Cardinality(some)
<1>2. n \in Nat
  BY <1>1, FS_CardinalityType
<1>3. /\ order \in [1..n -> some]
      /\ \A j, k \in 1..n : j # k => order[j] # order[k]
  BY <1>a
<1> HIDE DEF n
<1>4. \A h \in some : \E i \in 1..n : order[i] = h
  <2>1. order \in Injection(1..n, some)
    BY <1>3 DEF Injection, IsInjective
  <2>2. IsFiniteSet(1..n) /\ Cardinality(1..n) = n
    BY <1>2, FS_Interval DEF n
  <2>3. order \in Surjection(1..n, some)
    BY <1>1, <2>1, <2>2, FS_Injection DEF n
  <2> QED
    BY <2>3 DEF Surjection
<1>5. \A i \in 1..n : order[i] \in some /\ <<order[i], tok[order[i]]>> \in B!Keys
  BY <1>3 DEF B!Keys
<1>6. DOMAIN u = 1..n /\ \A i \in 1..n : u[i] = B!Request(op, <<order[i], tok[order[i]]>>)
  BY <1>3
<1>7. u \in Seq(Asks) /\ Len(u) = n
  <2>1. \A i \in 1..n : u[i] \in Asks
    BY <1>5, <1>6, RequestIs
  <2>2. u \in [1..n -> Asks]
    BY <1>6, <2>1
  <2>3. u \in Seq(Asks)
    BY <1>2, <2>2, SeqDef
  <2> QED
    BY <1>2, <1>6, <2>3, LenProperties
<1> DEFINE q2 == q \o u
           m == Len(q)
<1>8. /\ q2 \in Seq(Asks) /\ Len(q2) = m + n /\ m \in Nat /\ n \in Nat
      /\ DOMAIN q = 1..m /\ DOMAIN q2 = 1..(m + n)
      /\ \A i \in 1..m : q2[i] = q[i]
      /\ \A i \in (m + 1)..(m + n) : q2[i] = u[i - m]
  <2>1. m \in Nat /\ n \in Nat /\ Len(u) = n
    BY <1>2, <1>7, QueueIs
  <2>2. /\ q2 \in Seq(Asks) /\ Len(q2) = m + n
        /\ \A i \in 1..(m + n) : q2[i] = IF i <= m THEN q[i] ELSE u[i - m]
    BY <1>7, ConcatProperties
  <2>3. DOMAIN q = 1..m /\ DOMAIN q2 = 1..(m + n)
    BY <2>2, QueueIs
  <2> HIDE DEF q2, m
  <2>4. \A i \in 1..m : i \in 1..(m + n) /\ i <= m
    BY <2>1
  <2>5. \A i \in (m + 1)..(m + n) : i \in 1..(m + n) /\ ~(i <= m)
    BY <2>1
  <2>6. \A i \in 1..m : q2[i] = q[i]
    BY <2>2, <2>4
  <2>7. \A i \in (m + 1)..(m + n) : q2[i] = u[i - m]
    BY <2>2, <2>5
  <2> QED
    BY <2>1, <2>2, <2>3, <2>6, <2>7
<1> HIDE DEF q2, m
<1>9. New(q, q2) = (m + 1)..(m + n)
  BY <1>8 DEF New
<1>10. \A i \in New(q, q2) :
          i - m \in 1..n /\ q2[i] = B!Request(op, <<order[i - m], tok[order[i - m]]>>)
  BY <1>6, <1>8, <1>9
<1>11. \A i \in 1..n : i + m \in New(q, q2) /\ q2[i + m] = B!Request(op, <<order[i], tok[order[i]]>>)
  BY <1>6, <1>8, <1>9
<1>12. \A h \in DOMAIN tok : \E i \in New(q, q2) : q2[i] = B!Request(op, <<h, tok[h]>>)
  BY <1>4, <1>11
<1>13. \A i, j \in New(q, q2) : q2[i] = q2[j] => i = j
  <2> SUFFICES ASSUME NEW i \in New(q, q2), NEW j \in New(q, q2), q2[i] = q2[j] PROVE i = j
    OBVIOUS
  <2> DEFINE x == order[i - m]
             y == order[j - m]
             a == tok[x]
             c == tok[y]
  <2>1. i - m \in 1..n /\ j - m \in 1..n /\ B!Request(op, <<x, a>>) = B!Request(op, <<y, c>>)
    BY <1>10
  <2>2. x = y
    <3> HIDE DEF x, y, a, c
    <3>1. B!Request(op, <<x, a>>).key = {<<x, a>>} /\ B!Request(op, <<y, c>>).key = {<<y, c>>}
      BY DEF B!Request
    <3>2. <<x, a>> = <<y, c>>
      BY <2>1, <3>1
    <3> QED
      BY <3>2
  <2>3. i - m = j - m
    BY <1>3, <2>1, <2>2
  <2> QED
    BY <1>8, <1>9, <2>3
<1>14. \A i \in DOMAIN q : q2[i] = q[i]
  BY <1>8
<1>15. \A i \in New(q, q2) : \E h \in DOMAIN tok : q2[i] = B!Request(op, <<h, tok[h]>>)
  BY <1>5, <1>10
<1>16. Len(q) <= Len(q2)
  BY <1>8 DEF m
<1>17. Extends(q, q2, op, tok)
  BY <1>8, <1>12, <1>13, <1>14, <1>15, <1>16 DEF Extends
<1> QED
  BY <1>17 DEF q2

(***************************************************************************)
(* What a queue holds about a window when it changes.                      *)
(***************************************************************************)
\* The requests about a window are the same, d places further on.
Of(r, h) == \E k \in r.key : k[1] = h
Alike(q, q2, h, d) ==
    /\ \A i \in DOMAIN q : Of(q[i], h) => i + d \in DOMAIN q2 /\ q2[i + d] = q[i]
    /\ \A i \in DOMAIN q2 : Of(q2[i], h) => i - d \in DOMAIN q /\ q[i - d] = q2[i]

LEMMA AboutIs ==
    ASSUME NEW r, NEW op, NEW h
    PROVE  /\ About(r, op, h) => Of(r, h)
           /\ \A t : r = B!Request(op, <<h, t>>) => About(r, op, h)
<1>1. ASSUME NEW t, r = B!Request(op, <<h, t>>) PROVE About(r, op, h)
  <2> DEFINE k == <<h, t>>
  <2>1. k[1] = h
    OBVIOUS
  <2>2. r.op = op /\ r.key = {k}
    BY <1>1 DEF B!Request
  <2> HIDE DEF k
  <2> QED
    BY <2>1, <2>2 DEF About
<1> QED
  BY <1>1 DEF About, Of

LEMMA AlikeThere ==
    ASSUME NEW q \in Seq(Asks), NEW q2 \in Seq(Asks), NEW h, NEW d \in Int, Alike(q, q2, h, d),
           NEW t, NEW fits
    PROVE  /\ \A op \in AskKinds : Holds(q, op, h) => Holds(q2, op, h)
           /\ FreshIn(q, h, fits) => FreshIn(q2, h, fits)
           /\ Alternates(q, h) => Alternates(q2, h)
           /\ Led(q, h) => Led(q2, h)
           /\ Ended(q, h) => Ended(q2, h)
           /\ Last(q, h, t) => Last(q2, h, t)
<1>1. /\ \A i \in DOMAIN q : i \in Nat
      /\ \A i \in DOMAIN q2 : i \in Nat
  BY QueueIs
<1>2. \A i \in DOMAIN q, op \in AskKinds : About(q[i], op, h) =>
        i + d \in DOMAIN q2 /\ q2[i + d] = q[i] /\ About(q2[i + d], op, h)
  BY AboutIs DEF Alike
<1>3. \A i \in DOMAIN q2, op \in AskKinds : About(q2[i], op, h) =>
        i - d \in DOMAIN q /\ q2[i] = q[i - d] /\ About(q[i - d], op, h)
  BY AboutIs DEF Alike
<1>a. "restore" \in AskKinds /\ "remove" \in AskKinds
  BY DEF AskKinds
<1>4. \A op \in AskKinds : Holds(q, op, h) => Holds(q2, op, h)
  BY <1>2 DEF Holds
<1>5. FreshIn(q, h, fits) => FreshIn(q2, h, fits)
  <2>1. \A i \in DOMAIN q2 : \A k \in q2[i].key : k[1] = h => i - d \in DOMAIN q /\ q2[i] = q[i - d]
    BY DEF Alike, Of
  <2> QED
    BY <2>1 DEF FreshIn
<1>6. Alternates(q, h) => Alternates(q2, h)
  <2> SUFFICES ASSUME Alternates(q, h), NEW i \in DOMAIN q2, NEW j \in DOMAIN q2, i < j,
                      About(q2[i], "remove", h), About(q2[j], "remove", h)
               PROVE  \E n \in DOMAIN q2 : i < n /\ n < j /\ About(q2[n], "restore", h)
    BY DEF Alternates
  <2>1. /\ i - d \in DOMAIN q /\ About(q[i - d], "remove", h)
        /\ j - d \in DOMAIN q /\ About(q[j - d], "remove", h) /\ i - d < j - d
    BY <1>1, <1>3, <1>a
  <2>2. PICK n \in DOMAIN q : i - d < n /\ n < j - d /\ About(q[n], "restore", h)
    BY <2>1 DEF Alternates
  <2>3. n + d \in DOMAIN q2 /\ i < n + d /\ n + d < j /\ About(q2[n + d], "restore", h)
    BY <1>1, <1>2, <1>a, <2>2
  <2> QED
    BY <2>3
<1>7. Led(q, h) => Led(q2, h)
  <2> SUFFICES ASSUME Led(q, h), NEW i \in DOMAIN q2, About(q2[i], "remove", h)
               PROVE  \E n \in DOMAIN q2 : n < i /\ About(q2[n], "restore", h)
    BY DEF Led
  <2>1. i - d \in DOMAIN q /\ About(q[i - d], "remove", h)
    BY <1>3, <1>a
  <2>2. PICK n \in DOMAIN q : n < i - d /\ About(q[n], "restore", h)
    BY <2>1 DEF Led
  <2>3. n + d \in DOMAIN q2 /\ n + d < i /\ About(q2[n + d], "restore", h)
    BY <1>1, <1>2, <1>a, <2>2
  <2> QED
    BY <2>3
<1>8. Ended(q, h) => Ended(q2, h)
  <2> SUFFICES ASSUME Ended(q, h), NEW i \in DOMAIN q2, About(q2[i], "remove", h)
               PROVE  \E n \in DOMAIN q2 : i < n /\ About(q2[n], "restore", h)
    BY DEF Ended
  <2>1. i - d \in DOMAIN q /\ About(q[i - d], "remove", h)
    BY <1>3, <1>a
  <2>2. PICK n \in DOMAIN q : i - d < n /\ About(q[n], "restore", h)
    BY <2>1 DEF Ended
  <2>3. n + d \in DOMAIN q2 /\ i < n + d /\ About(q2[n + d], "restore", h)
    BY <1>1, <1>2, <1>a, <2>2
  <2> QED
    BY <2>3
<1>9. Last(q, h, t) => Last(q2, h, t)
  <2> SUFFICES ASSUME Last(q, h, t) PROVE Last(q2, h, t)
    OBVIOUS
  <2>1. PICK i \in DOMAIN q : /\ q[i] = B!Request("remove", <<h, t>>)
                              /\ \A n \in DOMAIN q : i < n => ~About(q[n], "restore", h)
    BY DEF Last
  <2>2. About(q[i], "remove", h)
    BY <2>1, AboutIs
  <2>3. i + d \in DOMAIN q2 /\ q2[i + d] = B!Request("remove", <<h, t>>)
    BY <1>2, <1>a, <2>1, <2>2
  <2>4. ASSUME NEW n \in DOMAIN q2, i + d < n, About(q2[n], "restore", h) PROVE FALSE
    <3>1. n - d \in DOMAIN q /\ About(q[n - d], "restore", h) /\ i < n - d
      BY <1>1, <1>3, <1>a, <2>4
    <3> QED
      BY <2>1, <3>1
  <2> QED
    BY <2>3, <2>4 DEF Last
<1> QED
  BY <1>4, <1>5, <1>6, <1>7, <1>8, <1>9

\* Nothing is said differently of the window.
SameAbout(q, q2, h) ==
    /\ \A op \in AskKinds : Holds(q2, op, h) <=> Holds(q, op, h)
    /\ \A fits : FreshIn(q2, h, fits) <=> FreshIn(q, h, fits)
    /\ Alternates(q2, h) <=> Alternates(q, h)
    /\ Led(q2, h) <=> Led(q, h)
    /\ Ended(q2, h) <=> Ended(q, h)
    /\ \A t : Last(q2, h, t) <=> Last(q, h, t)

LEMMA AlikeSame ==
    ASSUME NEW q \in Seq(Asks), NEW q2 \in Seq(Asks), NEW h, NEW d \in Int, Alike(q, q2, h, d)
    PROVE  SameAbout(q, q2, h)
<1> DEFINE e == 0 - d
<1>1. e \in Int /\ Alike(q2, q, h, e)
  <2>1. /\ \A i \in DOMAIN q : i \in Nat
        /\ \A i \in DOMAIN q2 : i \in Nat
    BY QueueIs
  <2>2. \A i \in Nat : i + e = i - d /\ i - e = i + d /\ e \in Int
    OBVIOUS
  <2> HIDE DEF e
  <2>3. \A i \in DOMAIN q2 : Of(q2[i], h) => i + e \in DOMAIN q /\ q[i + e] = q2[i]
    BY <2>1, <2>2 DEF Alike
  <2>4. \A i \in DOMAIN q : Of(q[i], h) => i - e \in DOMAIN q2 /\ q2[i - e] = q[i]
    BY <2>1, <2>2 DEF Alike
  <2> QED
    BY <2>2, <2>3, <2>4 DEF Alike
<1> HIDE DEF e
<1>2. ASSUME NEW t, NEW fits
      PROVE  /\ \A op \in AskKinds : Holds(q2, op, h) <=> Holds(q, op, h)
             /\ FreshIn(q2, h, fits) <=> FreshIn(q, h, fits)
             /\ Alternates(q2, h) <=> Alternates(q, h)
             /\ Led(q2, h) <=> Led(q, h)
             /\ Ended(q2, h) <=> Ended(q, h)
             /\ Last(q2, h, t) <=> Last(q, h, t)
  <2>1. /\ \A op \in AskKinds : Holds(q, op, h) => Holds(q2, op, h)
        /\ FreshIn(q, h, fits) => FreshIn(q2, h, fits)
        /\ Alternates(q, h) => Alternates(q2, h)
        /\ Led(q, h) => Led(q2, h)
        /\ Ended(q, h) => Ended(q2, h)
        /\ Last(q, h, t) => Last(q2, h, t)
    BY AlikeThere
  <2>2. /\ \A op \in AskKinds : Holds(q2, op, h) => Holds(q, op, h)
        /\ FreshIn(q2, h, fits) => FreshIn(q, h, fits)
        /\ Alternates(q2, h) => Alternates(q, h)
        /\ Led(q2, h) => Led(q, h)
        /\ Ended(q2, h) => Ended(q, h)
        /\ Last(q2, h, t) => Last(q, h, t)
    BY <1>1, AlikeThere
  <2> QED
    BY <2>1, <2>2
<1> QED
  BY <1>2 DEF SameAbout

LEMMA BarrierAlike ==
    ASSUME NEW q \in Seq(Asks), NEW h, NEW q2, q2 = Append(q, Barrier)
    PROVE  /\ q2 \in Seq(Asks) /\ Len(q2) = Len(q) + 1 /\ q2[Len(q) + 1] = Barrier
           /\ DOMAIN q2 = DOMAIN q \cup {Len(q) + 1} /\ \A i \in DOMAIN q : q2[i] = q[i]
           /\ \A k \in B!Keys : Waiting(q2, k) = Waiting(q, k)
           /\ SameAbout(q, q2, h)
<1>1. Barrier \in Asks
  BY DEF Asks
<1>2. /\ q2 \in Seq(Asks) /\ Len(q2) = Len(q) + 1 /\ DOMAIN q2 = 1..(Len(q) + 1)
      /\ \A i \in 1..Len(q) : q2[i] = q[i]
      /\ q2[Len(q) + 1] = Barrier /\ DOMAIN q = 1..Len(q) /\ Len(q) \in Nat
  BY <1>1, QueueIs
<1>3. DOMAIN q2 = DOMAIN q \cup {Len(q) + 1} /\ \A i \in DOMAIN q : q2[i] = q[i]
  BY <1>2
<1>4. ASSUME NEW k \in B!Keys PROVE Waiting(q2, k) = Waiting(q, k)
  <2>1. B!Request("restore", k) # Barrier
    BY RequestIs DEF AskKinds
  <2> QED
    BY <1>2, <1>3, <2>1 DEF Waiting
<1>5. Alike(q, q2, h, 0)
  <2>1. ~Of(Barrier, h)
    BY DEF Of, Barrier
  <2>2. \A i \in DOMAIN q2 : i \in Nat /\ i + 0 = i /\ i - 0 = i
    BY <1>2
  <2> QED
    BY <1>2, <1>3, <2>1, <2>2 DEF Alike
<1>6. SameAbout(q, q2, h)
  <2> DEFINE d == 0
  <2>1. d \in Int /\ q2 \in Seq(Asks) /\ Alike(q, q2, h, d)
    BY <1>2, <1>5
  <2> HIDE DEF d
  <2> QED
    BY ONLY <2>1, q \in Seq(Asks), AlikeSame
<1> QED
  BY <1>2, <1>3, <1>4, <1>6

\* The first request leaves.
LEMMA TailKeeps ==
    ASSUME NEW q \in Seq(Asks), q # <<>>, NEW h, NEW fits, NEW q2, q2 = Tail(q)
    PROVE  /\ FreshIn(q, h, fits) => FreshIn(q2, h, fits)
           /\ Alternates(q, h) => Alternates(q2, h)
           /\ Ended(q, h) => Ended(q2, h)
           /\ Holds(q2, "restore", h) => Holds(q, "restore", h)
           /\ ~Of(q[1], h) => SameAbout(q, q2, h)
<1>1. /\ q2 \in Seq(Asks)
      /\ \A i \in DOMAIN q2 : i + 1 \in DOMAIN q /\ q2[i] = q[i + 1]
      /\ \A i \in DOMAIN q : i = 1 \/ (i - 1 \in DOMAIN q2 /\ q2[i - 1] = q[i])
      /\ \A i \in DOMAIN q : i \in Nat \ {0}
      /\ \A i \in DOMAIN q2 : i \in Nat \ {0}
  BY QueueTail, QueueIs
<1>2. FreshIn(q, h, fits) => FreshIn(q2, h, fits)
  BY <1>1 DEF FreshIn
<1>3. Alternates(q, h) => Alternates(q2, h)
  <2> SUFFICES ASSUME Alternates(q, h), NEW i \in DOMAIN q2, NEW j \in DOMAIN q2, i < j,
                      About(q2[i], "remove", h), About(q2[j], "remove", h)
               PROVE  \E n \in DOMAIN q2 : i < n /\ n < j /\ About(q2[n], "restore", h)
    BY DEF Alternates
  <2>1. PICK n \in DOMAIN q : i + 1 < n /\ n < j + 1 /\ About(q[n], "restore", h)
    BY <1>1 DEF Alternates
  <2>2. n - 1 \in DOMAIN q2 /\ q2[n - 1] = q[n] /\ i < n - 1 /\ n - 1 < j
    BY <1>1, <2>1
  <2> QED
    BY <2>1, <2>2
<1>4. Ended(q, h) => Ended(q2, h)
  <2> SUFFICES ASSUME Ended(q, h), NEW i \in DOMAIN q2, About(q2[i], "remove", h)
               PROVE  \E n \in DOMAIN q2 : i < n /\ About(q2[n], "restore", h)
    BY DEF Ended
  <2>1. PICK n \in DOMAIN q : i + 1 < n /\ About(q[n], "restore", h)
    BY <1>1 DEF Ended
  <2>2. n - 1 \in DOMAIN q2 /\ q2[n - 1] = q[n] /\ i < n - 1
    BY <1>1, <2>1
  <2> QED
    BY <2>1, <2>2
<1>5. Holds(q2, "restore", h) => Holds(q, "restore", h)
  BY <1>1 DEF Holds
<1>6. ASSUME ~Of(q[1], h) PROVE SameAbout(q, q2, h)
  <2>1. \A i \in DOMAIN q : Of(q[i], h) => i + (-1) \in DOMAIN q2 /\ q2[i + (-1)] = q[i]
    <3>1. \A i \in DOMAIN q : i + (-1) = i - 1
      BY <1>1
    <3> QED
      BY <1>1, <1>6, <3>1
  <2>2. \A i \in DOMAIN q2 : i - (-1) \in DOMAIN q /\ q[i - (-1)] = q2[i]
    <3>1. \A i \in DOMAIN q2 : i - (-1) = i + 1
      BY <1>1
    <3> QED
      BY <1>1, <3>1
  <2> DEFINE d == -1
  <2>3. d \in Int /\ Alike(q, q2, h, d)
    BY <2>1, <2>2 DEF Alike
  <2> HIDE DEF d
  <2> QED
    BY <1>1, <2>3, AlikeSame
<1> QED
  BY <1>2, <1>3, <1>4, <1>5, <1>6

LEMMA RestoreLeaves ==
    ASSUME NEW q \in Seq(Asks), q # <<>>, NEW h, About(q[1], "restore", h), NEW t,
           NEW q2, q2 = Tail(q)
    PROVE  Last(q, h, t) => Last(q2, h, t)
<1>1. /\ \A i \in DOMAIN q2 : i + 1 \in DOMAIN q /\ q2[i] = q[i + 1]
      /\ \A i \in DOMAIN q : i = 1 \/ (i - 1 \in DOMAIN q2 /\ q2[i - 1] = q[i])
      /\ \A i \in DOMAIN q : i \in Nat \ {0}
      /\ \A i \in DOMAIN q2 : i \in Nat \ {0}
  BY QueueTail, QueueIs
<1> SUFFICES ASSUME Last(q, h, t) PROVE Last(q2, h, t)
  OBVIOUS
<1>2. PICK i \in DOMAIN q : /\ q[i] = B!Request("remove", <<h, t>>)
                            /\ \A n \in DOMAIN q : i < n => ~About(q[n], "restore", h)
  BY DEF Last
<1>3. i # 1
  BY <1>2 DEF About, B!Request
<1>4. i - 1 \in DOMAIN q2 /\ q2[i - 1] = q[i] /\ \A n \in DOMAIN q2 : i - 1 < n => i < n + 1
  BY <1>1, <1>3
<1>5. \A n \in DOMAIN q2 : i - 1 < n => ~About(q2[n], "restore", h)
  BY <1>1, <1>2, <1>4
<1> QED
  BY <1>2, <1>4, <1>5 DEF Last

LEMMA RemoveLeaves ==
    ASSUME NEW q \in Seq(Asks), q # <<>>, NEW h, About(q[1], "remove", h), NEW t,
           NEW q2, q2 = Tail(q)
    PROVE  /\ Holds(q2, "restore", h) <=> Holds(q, "restore", h)
           /\ Alternates(q, h) => Led(q2, h)
           /\ Ended(q, h) => Holds(q2, "restore", h)
           /\ Last(q, h, t) => \/ Last(q2, h, t)
                               \/ ~Holds(q2, "restore", h) /\ q[1].key = {<<h, t>>}
<1>1. /\ 1 \in DOMAIN q
      /\ \A i \in DOMAIN q2 : i + 1 \in DOMAIN q /\ q2[i] = q[i + 1]
      /\ \A i \in DOMAIN q : i = 1 \/ (i - 1 \in DOMAIN q2 /\ q2[i - 1] = q[i])
      /\ \A i \in DOMAIN q : i \in Nat \ {0}
      /\ \A i \in DOMAIN q2 : i \in Nat \ {0}
  BY QueueTail, QueueIs
<1>2. ~About(q[1], "restore", h)
  BY DEF About
<1>3. Holds(q2, "restore", h) <=> Holds(q, "restore", h)
  BY <1>1, <1>2 DEF Holds
<1>4. Alternates(q, h) => Led(q2, h)
  <2> SUFFICES ASSUME Alternates(q, h), NEW i \in DOMAIN q2, About(q2[i], "remove", h)
               PROVE  \E n \in DOMAIN q2 : n < i /\ About(q2[n], "restore", h)
    BY DEF Led
  <2>1. 1 < i + 1
    BY <1>1
  <2>2. PICK n \in DOMAIN q : 1 < n /\ n < i + 1 /\ About(q[n], "restore", h)
    BY <1>1, <2>1 DEF Alternates
  <2>3. n - 1 \in DOMAIN q2 /\ q2[n - 1] = q[n] /\ n - 1 < i
    BY <1>1, <2>2
  <2> QED
    BY <2>2, <2>3
<1>5. Ended(q, h) => Holds(q2, "restore", h)
  <2> SUFFICES ASSUME Ended(q, h) PROVE Holds(q2, "restore", h)
    OBVIOUS
  <2>1. PICK n \in DOMAIN q : 1 < n /\ About(q[n], "restore", h)
    BY <1>1 DEF Ended
  <2>2. n - 1 \in DOMAIN q2 /\ q2[n - 1] = q[n]
    BY <1>1, <2>1
  <2> QED
    BY <2>1, <2>2 DEF Holds
<1>6. Last(q, h, t) => \/ Last(q2, h, t)
                       \/ ~Holds(q2, "restore", h) /\ q[1].key = {<<h, t>>}
  <2> SUFFICES ASSUME Last(q, h, t), ~(~Holds(q2, "restore", h) /\ q[1].key = {<<h, t>>})
               PROVE  Last(q2, h, t)
    OBVIOUS
  <2>1. PICK i \in DOMAIN q : /\ q[i] = B!Request("remove", <<h, t>>)
                              /\ \A n \in DOMAIN q : i < n => ~About(q[n], "restore", h)
    BY DEF Last
  <2>2. i # 1
    <3> SUFFICES ASSUME i = 1 PROVE FALSE
      OBVIOUS
    <3>1. q[1].key = {<<h, t>>}
      BY <2>1 DEF B!Request
    <3>2. \A n \in DOMAIN q2 : 1 < n + 1 /\ ~About(q2[n], "restore", h)
      BY <1>1, <2>1
    <3> QED
      BY <3>1, <3>2 DEF Holds
  <2>3. i - 1 \in DOMAIN q2 /\ q2[i - 1] = q[i] /\ \A n \in DOMAIN q2 : i - 1 < n => i < n + 1
    BY <1>1, <2>2
  <2>4. \A n \in DOMAIN q2 : i - 1 < n => ~About(q2[n], "restore", h)
    BY <1>1, <2>1, <2>3
  <2> QED
    BY <2>1, <2>3, <2>4 DEF Last
<1> QED
  BY <1>3, <1>4, <1>5, <1>6

\* Requests are added.
LEMMA ExtendsNew ==
    ASSUME NEW q \in Seq(Asks), NEW q2, NEW op, NEW tok, Extends(q, q2, op, tok), NEW h
    PROVE  /\ DOMAIN q \subseteq DOMAIN q2
           /\ \A i \in DOMAIN q : q2[i] = q[i] /\ i \in Nat
           /\ \A i \in DOMAIN q2 : i \in Nat /\ (i \in DOMAIN q \/ i \in New(q, q2))
           /\ \A i \in DOMAIN q, j \in New(q, q2) : i < j
           /\ \A i \in New(q, q2) : Of(q2[i], h) =>
                 /\ h \in DOMAIN tok /\ q2[i] = B!Request(op, <<h, tok[h]>>)
                 /\ \A k \in q2[i].key : k[1] = h /\ k[2] = tok[h]
           /\ \A i \in New(q, q2), o \in AskKinds : About(q2[i], o, h) => o = op
           /\ h \in DOMAIN tok => \E i \in New(q, q2) : About(q2[i], op, h)
<1>1. /\ DOMAIN q = 1..Len(q) /\ Len(q) \in Nat /\ DOMAIN q2 = 1..Len(q2) /\ Len(q2) \in Nat
      /\ Len(q) <= Len(q2)
  <2>1. q2 \in Seq(Asks) /\ Len(q) <= Len(q2)
    BY DEF Extends
  <2>2. DOMAIN q2 = 1..Len(q2) /\ Len(q2) \in Nat
    BY <2>1, QueueIs
  <2> QED
    BY <2>1, <2>2, QueueIs
<1>2. /\ DOMAIN q \subseteq DOMAIN q2
      /\ \A i \in DOMAIN q : i \in Nat
      /\ \A i \in DOMAIN q2 : i \in Nat /\ (i \in DOMAIN q \/ i \in New(q, q2))
      /\ \A i \in DOMAIN q, j \in New(q, q2) : i < j
  BY <1>1 DEF New
<1>3. \A i \in DOMAIN q : q2[i] = q[i]
  BY DEF Extends
<1>4. ASSUME NEW i \in New(q, q2), Of(q2[i], h)
      PROVE  /\ h \in DOMAIN tok /\ q2[i] = B!Request(op, <<h, tok[h]>>)
             /\ \A k \in q2[i].key : k[1] = h /\ k[2] = tok[h]
  <2>1. PICK x \in DOMAIN tok : q2[i] = B!Request(op, <<x, tok[x]>>)
    BY DEF Extends
  <2>2. q2[i].key = {<<x, tok[x]>>}
    BY <2>1 DEF B!Request
  <2>3. x = h
    BY <1>4, <2>2 DEF Of
  <2> QED
    BY <2>1, <2>2, <2>3
<1>5. ASSUME NEW i \in New(q, q2), NEW o \in AskKinds, About(q2[i], o, h) PROVE o = op
  <2>1. PICK x \in DOMAIN tok : q2[i] = B!Request(op, <<x, tok[x]>>)
    BY DEF Extends
  <2> QED
    BY <1>5, <2>1 DEF B!Request, About
<1>6. ASSUME h \in DOMAIN tok PROVE \E i \in New(q, q2) : About(q2[i], op, h)
  <2>1. PICK i \in New(q, q2) : q2[i] = B!Request(op, <<h, tok[h]>>)
    BY <1>6 DEF Extends
  <2> QED
    BY <2>1, AboutIs
<1> QED
  BY <1>2, <1>3, <1>4, <1>5, <1>6

LEMMA ExtendsOthers ==
    ASSUME NEW q \in Seq(Asks), NEW q2, NEW op, NEW tok, Extends(q, q2, op, tok),
           NEW h, h \notin DOMAIN tok
    PROVE  SameAbout(q, q2, h)
<1> DEFINE d == 0
<1>1. d \in Int /\ q2 \in Seq(Asks)
  BY DEF Extends
<1>2. /\ DOMAIN q \subseteq DOMAIN q2
      /\ \A i \in DOMAIN q : q2[i] = q[i] /\ i \in Nat
      /\ \A i \in DOMAIN q2 : i \in Nat /\ (i \in DOMAIN q \/ i \in New(q, q2))
      /\ \A i \in DOMAIN q, j \in New(q, q2) : i < j
      /\ \A i \in New(q, q2) : Of(q2[i], h) =>
            /\ h \in DOMAIN tok /\ q2[i] = B!Request(op, <<h, tok[h]>>)
            /\ \A k \in q2[i].key : k[1] = h /\ k[2] = tok[h]
      /\ \A i \in New(q, q2), o \in AskKinds : About(q2[i], o, h) => o = op
      /\ h \in DOMAIN tok => \E i \in New(q, q2) : About(q2[i], op, h)
  BY ONLY q \in Seq(Asks), Extends(q, q2, op, tok), ExtendsNew
<1>3. \A i \in Nat : i + d = i /\ i - d = i
  OBVIOUS
<1> HIDE DEF d
<1>4. Alike(q, q2, h, d)
  <2>1. \A i \in New(q, q2) : ~Of(q2[i], h)
    BY <1>2
  <2> QED
    BY <1>2, <1>3, <2>1 DEF Alike
<1> QED
  BY ONLY <1>1, <1>4, q \in Seq(Asks), AlikeSame

\* A restore is added.
GivenBack(q, q2, h, t) ==
    /\ Holds(q2, "restore", h) /\ Ended(q2, h)
    /\ Alternates(q, h) => Alternates(q2, h)
    /\ Led(q, h) => Led(q2, h)
    /\ \A fits : t \in fits /\ t # 0 /\ FreshIn(q, h, fits) => FreshIn(q2, h, fits)

LEMMA RestoreAdded ==
    ASSUME NEW q \in Seq(Asks), NEW q2, NEW tok, Extends(q, q2, "restore", tok),
           NEW h \in DOMAIN tok
    PROVE  GivenBack(q, q2, h, tok[h])
<1>a. "restore" \in AskKinds /\ "remove" \in AskKinds /\ "restore" # "remove"
  BY DEF AskKinds
<1>b. /\ DOMAIN q \subseteq DOMAIN q2
      /\ \A i \in DOMAIN q : q2[i] = q[i] /\ i \in Nat
      /\ \A i \in DOMAIN q2 : i \in Nat /\ (i \in DOMAIN q \/ i \in New(q, q2))
      /\ \A i \in DOMAIN q, j \in New(q, q2) : i < j
      /\ \A i \in New(q, q2) : Of(q2[i], h) =>
            /\ h \in DOMAIN tok /\ q2[i] = B!Request("restore", <<h, tok[h]>>)
            /\ \A k \in q2[i].key : k[1] = h /\ k[2] = tok[h]
      /\ \A i \in New(q, q2), o \in AskKinds : About(q2[i], o, h) => o = "restore"
      /\ h \in DOMAIN tok => \E i \in New(q, q2) : About(q2[i], "restore", h)
  BY ONLY q \in Seq(Asks), Extends(q, q2, "restore", tok), ExtendsNew
<1>1. /\ DOMAIN q \subseteq DOMAIN q2
      /\ \A i \in DOMAIN q : q2[i] = q[i] /\ i \in Nat
      /\ \A i \in DOMAIN q2 : i \in DOMAIN q \/ i \in New(q, q2)
      /\ \A i \in DOMAIN q, j \in New(q, q2) : i < j
      /\ \A i \in New(q, q2) : Of(q2[i], h) =>
            \A k \in q2[i].key : k[1] = h /\ k[2] = tok[h]
      /\ \A i \in New(q, q2) : ~About(q2[i], "remove", h)
      /\ \E i \in New(q, q2) : About(q2[i], "restore", h)
  BY <1>a, <1>b
<1>2. New(q, q2) \subseteq DOMAIN q2
  BY DEF New
<1>3. Holds(q2, "restore", h)
  BY <1>1, <1>2 DEF Holds
<1>4. Ended(q2, h)
  BY <1>1, <1>2 DEF Ended
<1>5. Alternates(q, h) => Alternates(q2, h)
  <2> SUFFICES ASSUME Alternates(q, h), NEW i \in DOMAIN q2, NEW j \in DOMAIN q2, i < j,
                      About(q2[i], "remove", h), About(q2[j], "remove", h)
               PROVE  \E n \in DOMAIN q2 : i < n /\ n < j /\ About(q2[n], "restore", h)
    BY DEF Alternates
  <2>1. i \in DOMAIN q /\ j \in DOMAIN q /\ About(q[i], "remove", h) /\ About(q[j], "remove", h)
    BY <1>1
  <2>2. PICK n \in DOMAIN q : i < n /\ n < j /\ About(q[n], "restore", h)
    BY <2>1 DEF Alternates
  <2> QED
    BY <1>1, <2>2
<1>6. Led(q, h) => Led(q2, h)
  BY <1>1 DEF Led
<1>7. ASSUME NEW fits, tok[h] \in fits, tok[h] # 0, FreshIn(q, h, fits) PROVE FreshIn(q2, h, fits)
  <2> SUFFICES ASSUME NEW i \in DOMAIN q2, NEW k \in q2[i].key, k[1] = h
               PROVE  k[2] \in fits /\ (q2[i].op = "restore" => k[2] # 0)
    BY DEF FreshIn
  <2>1. CASE i \in DOMAIN q
    BY <1>1, <1>7, <2>1 DEF FreshIn
  <2>2. CASE i \in New(q, q2)
    BY <1>1, <1>7, <2>2 DEF Of
  <2> QED
    BY <1>1, <2>1, <2>2
<1> QED
  BY <1>3, <1>4, <1>5, <1>6, <1>7 DEF GivenBack

\* A removal is added.
TakenAway(q, q2, h, t) ==
    /\ Last(q2, h, t)
    /\ Holds(q2, "restore", h) <=> Holds(q, "restore", h)
    /\ Alternates(q, h) /\ Ended(q, h) => Alternates(q2, h)
    /\ Led(q, h) /\ Holds(q, "restore", h) => Led(q2, h)
    /\ \A fits : t \in fits /\ FreshIn(q, h, fits) => FreshIn(q2, h, fits)

LEMMA RemoveAdded ==
    ASSUME NEW q \in Seq(Asks), NEW q2, NEW tok, Extends(q, q2, "remove", tok),
           NEW h \in DOMAIN tok
    PROVE  TakenAway(q, q2, h, tok[h])
<1>a. "restore" \in AskKinds /\ "remove" \in AskKinds /\ "restore" # "remove"
  BY DEF AskKinds
<1>1. /\ DOMAIN q \subseteq DOMAIN q2
      /\ \A i \in DOMAIN q : q2[i] = q[i] /\ i \in Nat
      /\ \A i \in DOMAIN q2 : i \in Nat /\ (i \in DOMAIN q \/ i \in New(q, q2))
      /\ \A i \in DOMAIN q, j \in New(q, q2) : i < j
      /\ \A i \in New(q, q2) : Of(q2[i], h) =>
            /\ q2[i] = B!Request("remove", <<h, tok[h]>>)
            /\ \A k \in q2[i].key : k[1] = h /\ k[2] = tok[h]
      /\ \A i \in New(q, q2) : ~About(q2[i], "restore", h)
  BY <1>a, ExtendsNew
<1>2. New(q, q2) \subseteq DOMAIN q2
  BY DEF New
<1>3. \A i \in New(q, q2) : About(q2[i], "remove", h) => Of(q2[i], h)
  BY AboutIs
<1>4. \A i, j \in New(q, q2) : About(q2[i], "remove", h) /\ About(q2[j], "remove", h) => i = j
  <2>1. \A i, j \in New(q, q2) : q2[i] = q2[j] => i = j
    BY DEF Extends
  <2> QED
    BY <1>1, <1>3, <2>1
<1>5. Last(q2, h, tok[h])
  <2>1. PICK i \in New(q, q2) : q2[i] = B!Request("remove", <<h, tok[h]>>)
    BY DEF Extends
  <2>2. \A n \in DOMAIN q2 : i < n => ~About(q2[n], "restore", h)
    <3> SUFFICES ASSUME NEW n \in DOMAIN q2, i < n PROVE n \in New(q, q2)
      BY <1>1
    <3>1. n \notin DOMAIN q
      BY <1>1, <1>2
    <3> QED
      BY <1>1, <3>1
  <2> QED
    BY <1>2, <2>1, <2>2 DEF Last
<1>6. Holds(q2, "restore", h) <=> Holds(q, "restore", h)
  BY <1>1 DEF Holds
<1>7. Alternates(q, h) /\ Ended(q, h) => Alternates(q2, h)
  <2> SUFFICES ASSUME Alternates(q, h), Ended(q, h), NEW i \in DOMAIN q2, NEW j \in DOMAIN q2, i < j,
                      About(q2[i], "remove", h), About(q2[j], "remove", h)
               PROVE  \E n \in DOMAIN q2 : i < n /\ n < j /\ About(q2[n], "restore", h)
    BY DEF Alternates
  <2>1. i \in DOMAIN q
    <3> SUFFICES ASSUME i \notin DOMAIN q PROVE FALSE
      OBVIOUS
    <3>1. i \in New(q, q2) /\ i \in Nat /\ j \in Nat
      BY <1>1
    <3>2. j \notin DOMAIN q
      BY <1>1, <3>1
    <3>3. i = j
      BY <1>1, <1>4, <3>1, <3>2
    <3> QED
      BY <3>1, <3>3
  <2>2. CASE j \in DOMAIN q
    <3>1. PICK n \in DOMAIN q : i < n /\ n < j /\ About(q[n], "restore", h)
      BY <1>1, <2>1, <2>2 DEF Alternates
    <3> QED
      BY <1>1, <3>1
  <2>3. CASE j \in New(q, q2)
    <3>1. PICK n \in DOMAIN q : i < n /\ About(q[n], "restore", h)
      BY <1>1, <2>1 DEF Ended
    <3> QED
      BY <1>1, <2>3, <3>1
  <2> QED
    BY <1>1, <2>2, <2>3
<1>8. Led(q, h) /\ Holds(q, "restore", h) => Led(q2, h)
  <2> SUFFICES ASSUME Led(q, h), Holds(q, "restore", h), NEW i \in DOMAIN q2, About(q2[i], "remove", h)
               PROVE  \E n \in DOMAIN q2 : n < i /\ About(q2[n], "restore", h)
    BY DEF Led
  <2>1. CASE i \in DOMAIN q
    BY <1>1, <2>1 DEF Led
  <2>2. CASE i \in New(q, q2)
    <3>1. PICK n \in DOMAIN q : About(q[n], "restore", h)
      BY DEF Holds
    <3> QED
      BY <1>1, <2>2, <3>1
  <2> QED
    BY <1>1, <2>1, <2>2
<1>9. ASSUME NEW fits, tok[h] \in fits, FreshIn(q, h, fits) PROVE FreshIn(q2, h, fits)
  <2> SUFFICES ASSUME NEW i \in DOMAIN q2, NEW k \in q2[i].key, k[1] = h
               PROVE  k[2] \in fits /\ (q2[i].op = "restore" => k[2] # 0)
    BY DEF FreshIn
  <2>1. CASE i \in DOMAIN q
    BY <1>1, <1>9, <2>1 DEF FreshIn
  <2>2. CASE i \in New(q, q2)
    <3>1. q2[i] = B!Request("remove", <<h, tok[h]>>) /\ k[2] = tok[h]
      BY <1>1, <2>2 DEF Of
    <3>2. q2[i].op = "remove"
      BY <3>1 DEF B!Request
    <3> QED
      BY <1>9, <3>1, <3>2
  <2> QED
    BY <1>1, <2>1, <2>2
<1> QED
  BY <1>5, <1>6, <1>7, <1>8, <1>9 DEF TakenAway

(***************************************************************************)
(* The counters and the windows.                                           *)
(***************************************************************************)
LEMMA SnapTypes ==
    ASSUME BoxTypes
    PROVE  /\ snap.queue \in Seq(Asks) /\ snap.disabled \subseteq BoxHandles
           /\ snap.tracked \in [BoxHandles -> SUBSET (0..MaxTokens)]
           /\ snap.pending \in [B!Keys -> Nat] /\ snap.published \subseteq B!Keys
           /\ worker.key \subseteq B!Keys /\ worker.undo \in BOOLEAN
           /\ DOMAIN todo \subseteq B!Rescuers /\ \A r \in DOMAIN todo : todo[r] \subseteq B!Keys
BY DEF BoxTypes, Tables

LEMMA FinitelyWaiting ==
    ASSUME NEW q \in Seq(Asks), NEW k
    PROVE  /\ Cardinality(Waiting(q, k)) \in Nat
           /\ Cardinality(Waiting(q, k)) > 0 <=> \E i \in DOMAIN q : q[i] = B!Request("restore", k)
<1>0. DOMAIN q = 1..Len(q) /\ Len(q) \in Nat
  BY QueueIs
<1>1. IsFiniteSet(1..Len(q)) /\ Waiting(q, k) \subseteq 1..Len(q)
  BY <1>0, FS_Interval DEF Waiting
<1>2. IsFiniteSet(Waiting(q, k))
  BY <1>1, FS_Subset
<1>3. Cardinality(Waiting(q, k)) \in Nat /\ (Cardinality(Waiting(q, k)) = 0 <=> Waiting(q, k) = {})
  BY <1>2, FS_CardinalityType, FS_EmptySet
<1>4. Waiting(q, k) = {} <=> ~\E i \in DOMAIN q : q[i] = B!Request("restore", k)
  BY DEF Waiting
<1> HIDE DEF Waiting
<1> QED
  BY <1>3, <1>4

\* A window with a restore under way is one with a counter that is not zero.
LEMMA PendingKey ==
    ASSUME BoxTypes, Hand, Accounts, NEW h \in BoxHandles
    PROVE  /\ Pending(h) => \E k \in B!Keys :
                 /\ k[1] = h /\ snap.pending[k] > 0
                 /\ Fresh(h) => k[2] = boxes[h].token /\ k[2] # 0
           /\ \A k \in B!Keys : k[1] = h /\ snap.pending[k] > 0 => Pending(h)
<1>1. snap.queue \in Seq(Asks) /\ worker.key \subseteq B!Keys
  BY SnapTypes
<1>2. \A k \in B!Keys : InWork(k) \in {0, 1} /\ (InWork(k) > 0 <=> worker.op = {"restore"} /\ worker.key = {k} /\ ~worker.undo)
  BY DEF InWork
<1>3. \A k \in B!Keys : snap.pending[k] > 0 <=>
         \/ \E i \in DOMAIN snap.queue : snap.queue[i] = B!Request("restore", k)
         \/ worker.op = {"restore"} /\ worker.key = {k} /\ ~worker.undo
  <2> SUFFICES ASSUME NEW k \in B!Keys
               PROVE  snap.pending[k] > 0 <=>
                         \/ \E i \in DOMAIN snap.queue : snap.queue[i] = B!Request("restore", k)
                         \/ worker.op = {"restore"} /\ worker.key = {k} /\ ~worker.undo
    OBVIOUS
  <2> DEFINE c == Cardinality(Waiting(snap.queue, k))
  <2>1. snap.pending[k] = c + InWork(k)
    BY DEF Accounts
  <2>2. c \in Nat /\ (c > 0 <=> \E i \in DOMAIN snap.queue : snap.queue[i] = B!Request("restore", k))
    BY <1>1, FinitelyWaiting
  <2>3. InWork(k) \in {0, 1} /\ (InWork(k) > 0 <=> worker.op = {"restore"} /\ worker.key = {k} /\ ~worker.undo)
    BY <1>2
  <2> HIDE DEF c
  <2>4. snap.pending[k] > 0 <=> c > 0 \/ InWork(k) > 0
    BY <2>1, <2>2, <2>3
  <2> QED
    BY <2>2, <2>3, <2>4
<1>4. ASSUME Holds(snap.queue, "restore", h)
      PROVE  \E k \in B!Keys :
                 /\ k[1] = h /\ snap.pending[k] > 0
                 /\ Fresh(h) => k[2] = boxes[h].token /\ k[2] # 0
  <2>1. PICK i \in DOMAIN snap.queue : About(snap.queue[i], "restore", h)
    BY <1>4 DEF Holds
  <2>2. snap.queue[i] \in Asks
    BY <1>1, QueueIs
  <2>3. PICK k \in B!Keys : snap.queue[i].key = {k} /\ snap.queue[i] = B!Request("restore", k)
    BY <2>1, <2>2, AskIs DEF About
  <2>4. k[1] = h /\ k \in snap.queue[i].key /\ snap.queue[i].op = "restore"
    BY <2>1, <2>3 DEF About
  <2>5. Fresh(h) => k[2] = boxes[h].token /\ k[2] # 0
    BY <2>4 DEF Fresh, FreshIn, Fits
  <2> QED
    BY <1>3, <2>3, <2>4, <2>5
<1>5. ASSUME Giving(h)
      PROVE  \E k \in B!Keys :
                 /\ k[1] = h /\ snap.pending[k] > 0
                 /\ Fresh(h) => k[2] = boxes[h].token /\ k[2] # 0
  <2>1. PICK k \in B!Keys : worker.key = {k}
    BY <1>5 DEF Giving, Holding, Hand, B!Idle
  <2>2. k[1] = h /\ worker.op = {"restore"} /\ ~worker.undo
    BY <1>5, <2>1 DEF Giving, Holding
  <2>3. Fresh(h) => k[2] = boxes[h].token /\ k[2] # 0
    BY <1>5, <2>1, <2>2 DEF Fresh, Fits
  <2> QED
    BY <1>3, <2>1, <2>2, <2>3
<1>6. ASSUME NEW k \in B!Keys, k[1] = h, snap.pending[k] > 0 PROVE Pending(h)
  <2>1. CASE \E i \in DOMAIN snap.queue : snap.queue[i] = B!Request("restore", k)
    <3>1. PICK i \in DOMAIN snap.queue : snap.queue[i] = B!Request("restore", k)
      BY <2>1
    <3>2. snap.queue[i].op = "restore" /\ k \in snap.queue[i].key
      BY <3>1, RequestIs DEF AskKinds
    <3> QED
      BY <1>6, <3>2 DEF Pending, Holds, About
  <2>2. CASE worker.op = {"restore"} /\ worker.key = {k} /\ ~worker.undo
    BY <1>6, <2>2 DEF Pending, Giving, Holding
  <2> QED
    BY <1>3, <1>6, <2>1, <2>2
<1> QED
  BY <1>4, <1>5, <1>6 DEF Pending

(***************************************************************************)
(* What a step does to one window.                                         *)
(***************************************************************************)
\* The rescuers' lists and the worker are as they were.
Alone(h) ==
    /\ todo' = todo /\ passed' = passed /\ crossed \subseteq crossed' /\ late \subseteq late'
    /\ boxes'[h] = boxes[h]
Steady(h) == worker' = worker \/ (~Of(worker, h) /\ ~Of(worker', h))

\* It rests, and the daemon keeps it where it did or wants nothing of it.
LEMMA Rests ==
    ASSUME NEW h \in BoxHandles, OneBox(h), Alone(h), Steady(h),
           SameAbout(snap.queue, snap'.queue, h),
           h \in snap'.disabled <=> h \in snap.disabled, snap'.tracked[h] = snap.tracked[h],
           \/ home'[h] = home[h] /\ phase' = phase /\ paused' = paused
           \/ /\ h \notin snap.disabled
              /\ home'[h] # "out" => boxes[h].live /\ boxes[h].token # 0
              /\ phase' = "up" /\ ~paused' /\ home'[h] = "tiled" /\ Sound(h) => ~boxes[h].box /\ ~Pending(h)
    PROVE  OneBox(h)'
<1>1. /\ \A op \in AskKinds : Holding(op, h)' <=> Holding(op, h)
      /\ \A op \in AskKinds : Holding(op, h) => worker' = worker
  BY DEF Alone, Steady, Of, Holding
<1>2. (Taking(h)' <=> Taking(h)) /\ (Giving(h)' <=> Giving(h)) /\ (Pending(h)' <=> Pending(h))
  BY <1>1 DEF Taking, Giving, Pending, SameAbout, AskKinds
<1>3. (Sound(h)' => Sound(h)) /\ Fits(h)' = Fits(h) /\ (B!Missing(h)' <=> B!Missing(h))
  BY DEF Sound, Fits, B!Missing, Alone
<1>4. Noted(h)'
  BY <1>3 DEF Noted, OneBox, Alone, Fits
<1>5. ASSUME Fresh(h) PROVE Fresh(h)'
  <2>1. FreshIn(snap.queue, h, Fits(h))'
    BY <1>3, <1>5 DEF Fresh, SameAbout
  <2>2. \A k \in worker'.key : k[1] = h => k \in worker.key
    BY DEF Steady, Of
  <2> QED
    BY <1>2, <1>3, <1>5, <2>1, <2>2 DEF Fresh
<1>6. ASSUME Turns(h) PROVE Turns(h)'
  BY <1>1, <1>2, <1>6 DEF Turns, SameAbout, AskKinds, Alone
<1>7. ASSUME Known(h) PROVE Known(h)'
  BY <1>2, <1>3, <1>7 DEF Known, Left, ListedBy, Alone
<1>8. ASSUME Rescue(h) PROVE Rescue(h)'
  BY <1>2, <1>3, <1>8 DEF Rescue, Left, ListedBy, Alone
<1>9. ASSUME Sound(h), Taken(h) PROVE Taken(h)'
  <2>1. \A t : LastAsked(h, t)' <=> LastAsked(h, t)
    BY <1>1 DEF LastAsked, SameAbout, AskKinds, Alone
  <2>2. Holding("remove", h)' /\ worker'.at = "frame" => Holding("remove", h) /\ worker.at = "frame"
    BY <1>1 DEF AskKinds
  <2> QED
    BY <1>2, <1>9, <2>1, <2>2 DEF Taken, Alone
<1> QED
  BY <1>3, <1>4, <1>5, <1>6, <1>7, <1>8, <1>9 DEF OneBox

\* Its box is asked back.
LEMMA AsksBack ==
    ASSUME NEW h \in BoxHandles, OneBox(h), Alone(h), worker' = worker, Phases,
           h \in snap.disabled, h \notin snap'.disabled, snap'.tracked[h] = {},
           GivenBack(snap.queue, snap'.queue, h, boxes[h].token),
           ~(phase' = "up" /\ ~paused' /\ home'[h] = "tiled")
    PROVE  OneBox(h)'
<1>1. boxes[h].live /\ boxes[h].token # 0 /\ phase = "up" /\ "shutdown" \notin DOMAIN todo
  BY DEF OneBox, Noted, Phases
<1>2. /\ \A op \in AskKinds : Holding(op, h)' <=> Holding(op, h)
      /\ Taking(h)' <=> Taking(h)
      /\ Giving(h)' <=> Giving(h)
  BY DEF Holding, Taking, Giving
<1>3. (Sound(h)' => Sound(h)) /\ Fits(h)' = Fits(h) /\ (B!Missing(h)' <=> B!Missing(h))
  BY DEF Sound, Fits, B!Missing, Alone
<1>4. Noted(h)'
  BY <1>1 DEF Noted, Alone
<1>5. ASSUME Fresh(h) PROVE Fresh(h)'
  <2>1. FreshIn(snap.queue, h, Fits(h))'
    <3> DEFINE fits == Fits(h)
    <3>1. boxes[h].token \in fits
      BY DEF Fits
    <3>2. FreshIn(snap.queue, h, fits) /\ fits' = fits
      BY <1>3, <1>5 DEF Fresh
    <3> HIDE DEF fits
    <3>3. FreshIn(snap'.queue, h, fits)
      BY <1>1, <3>1, <3>2 DEF GivenBack
    <3> QED
      BY <3>2, <3>3 DEF fits
  <2> QED
    BY <1>2, <1>3, <1>5, <2>1 DEF Fresh
<1>6. ASSUME Turns(h) PROVE Turns(h)'
  BY <1>2, <1>6 DEF Turns, GivenBack, AskKinds, Alone
<1>7. Known(h)'
  BY DEF Known, Pending, GivenBack
<1>8. ASSUME Rescue(h) PROVE Rescue(h)'
  BY <1>1, <1>3, <1>8 DEF Rescue, Left, ListedBy, Alone
<1>9. ASSUME Taken(h) PROVE Taken(h)'
  <2>1. Holding("remove", h)' /\ worker'.at = "frame" => Holding("remove", h) /\ worker.at = "frame"
    BY <1>2 DEF AskKinds
  <2> QED
    BY <1>9, <2>1 DEF Taken, Alone
<1> QED
  BY <1>3, <1>4, <1>5, <1>6, <1>7, <1>8, <1>9 DEF OneBox

\* Its box is taken, and there or on its way back.
LEMMA AsksAway ==
    ASSUME NEW h \in BoxHandles, OneBox(h), Alone(h), worker' = worker, Phases,
           phase = "up", phase' = "up", ~paused', home'[h] = "tiled",
           boxes[h].live, boxes[h].token # 0, boxes[h].box \/ Pending(h),
           h \notin snap.disabled, h \in snap'.disabled, snap'.tracked[h] = {boxes[h].token},
           TakenAway(snap.queue, snap'.queue, h, boxes[h].token)
    PROVE  OneBox(h)'
<1>1. "shutdown" \notin DOMAIN todo
  BY DEF Phases
<1>2. /\ \A op \in AskKinds : Holding(op, h)' <=> Holding(op, h)
      /\ Taking(h)' <=> Taking(h)
      /\ Giving(h)' <=> Giving(h)
  BY DEF Holding, Taking, Giving
<1>3. (Sound(h)' => Sound(h)) /\ Fits(h)' = Fits(h) /\ (B!Missing(h)' <=> B!Missing(h))
  BY DEF Sound, Fits, B!Missing, Alone
<1>4. Noted(h)'
  <2>1. boxes[h].token \in Fits(h)'
    BY <1>3 DEF Fits
  <2> QED
    BY <2>1 DEF Noted, Alone
<1>5. ASSUME Fresh(h) PROVE Fresh(h)'
  <2>1. FreshIn(snap.queue, h, Fits(h))'
    <3> DEFINE fits == Fits(h)
    <3>1. boxes[h].token \in fits
      BY DEF Fits
    <3>2. FreshIn(snap.queue, h, fits) /\ fits' = fits
      BY <1>3, <1>5 DEF Fresh
    <3> HIDE DEF fits
    <3>3. FreshIn(snap'.queue, h, fits)
      BY <3>1, <3>2 DEF TakenAway
    <3> QED
      BY <3>2, <3>3 DEF fits
  <2> QED
    BY <1>2, <1>3, <1>5, <2>1 DEF Fresh
<1>6. ASSUME Turns(h) PROVE Turns(h)'
  <2>1. Alternates(snap'.queue, h)
    BY <1>6 DEF Turns, TakenAway
  <2>2. Led(snap'.queue, h) \/ Giving(h) \/ (boxes[h].box /\ ~Taking(h))
    BY <1>6 DEF Turns, TakenAway, Pending
  <2> QED
    BY <1>2, <1>6, <2>1, <2>2 DEF Turns, AskKinds, Alone
<1>7. Known(h)'
  BY DEF Known
<1>8. ASSUME Rescue(h) PROVE Rescue(h)'
  BY <1>1, <1>3, <1>8 DEF Rescue, Left, ListedBy, Alone
<1>9. ASSUME Taken(h) PROVE Taken(h)'
  <2>1. Holding("remove", h)' /\ worker'.at = "frame" => Holding("remove", h) /\ worker.at = "frame"
    BY <1>2 DEF AskKinds
  <2>2. LastAsked(h, boxes[h].token)'
    <3>1. Last(snap'.queue, h, boxes'[h].token)
      BY DEF TakenAway, Alone
    <3>2. Last(snap'.queue, h, boxes[h].token)
      BY DEF TakenAway
    <3> QED
      BY <3>1, <3>2 DEF LastAsked, Alone
  <2>3. \E t \in snap'.tracked[h] : LastAsked(h, t)'
    BY <2>2 DEF Alone
  <2> QED
    BY <1>9, <2>1, <2>3 DEF Taken, Alone
<1> QED
  BY <1>3, <1>4, <1>5, <1>6, <1>7, <1>8, <1>9 DEF OneBox

(***************************************************************************)
(* The daemon asks for several boxes at once, and of some windows nothing. *)
(***************************************************************************)
\* A restore is counted for each lifetime of tok.
Counted(op, tok) ==
    \A k \in B!Keys : snap'.pending[k] = snap.pending[k] +
        IF op = "restore" /\ k[1] \in DOMAIN tok /\ k[2] = tok[k[1]] THEN 1 ELSE 0

LEMMA AccountsMore ==
    ASSUME BoxTypes, Accounts, worker' = worker, NEW op \in AskKinds, NEW tok, Captures(tok),
           Counted(op, tok), NEW q2, Extends(snap.queue, q2, op, tok),
           \A k \in B!Keys : Waiting(snap'.queue, k) = Waiting(q2, k)
    PROVE  Accounts'
<1> SUFFICES ASSUME NEW k \in B!Keys
             PROVE  snap'.pending[k] = Cardinality(Waiting(snap'.queue, k)) + InWork(k)'
  BY DEF Accounts
<1> DEFINE q == snap.queue
           c == Cardinality(Waiting(q, k))
           more == IF op = "restore" /\ k[1] \in DOMAIN tok /\ k[2] = tok[k[1]] THEN 1 ELSE 0
<1>1. q \in Seq(Asks)
  BY SnapTypes
<1>2. c \in Nat /\ Cardinality(Waiting(q2, k)) = c + more
  <2> HIDE DEF q
  <2>1. Extends(q, q2, op, tok)
    BY DEF q
  <2> QED
    BY <1>1, <2>1, WaitingMore
<1>3. InWork(k)' = InWork(k) /\ InWork(k) \in {0, 1} /\ more \in {0, 1}
  BY DEF InWork
<1>4. snap'.pending[k] = snap.pending[k] + more /\ snap.pending[k] = c + InWork(k)
  BY DEF Counted, Accounts
<1>5. Waiting(snap'.queue, k) = Waiting(q2, k)
  OBVIOUS
<1> HIDE DEF c, more
<1>6. snap'.pending[k] = (c + more) + InWork(k)'
  BY <1>2, <1>3, <1>4
<1> QED
  BY <1>2, <1>5, <1>6

LEMMA NoBarrier ==
    ASSUME BoxTypes, Phases, phase = "up", NEW op \in AskKinds, NEW tok, Captures(tok),
           NEW q2, Extends(snap.queue, q2, op, tok)
    PROVE  \A i \in DOMAIN q2 : q2[i] # Barrier
<1> SUFFICES ASSUME NEW i \in DOMAIN q2 PROVE q2[i] # Barrier
  OBVIOUS
<1>1. CASE i \in DOMAIN snap.queue
  BY <1>1 DEF Phases, Extends
<1>2. CASE i \notin DOMAIN snap.queue
  <2>1. i \in New(snap.queue, q2)
    BY <1>2 DEF New
  <2>2. PICK h \in DOMAIN tok : q2[i] = B!Request(op, <<h, tok[h]>>)
    BY <2>1 DEF Extends
  <2> DEFINE k == <<h, tok[h]>>
  <2>3. k \in B!Keys /\ q2[i] = B!Request(op, k)
    BY <2>2 DEF Captures
  <2> HIDE DEF k
  <2> QED
    BY <2>3, RequestIs
<1> QED
  BY <1>1, <1>2

LEMMA ExtendsByNone ==
    ASSUME NEW q \in Seq(Asks), NEW op, NEW tok, DOMAIN tok = {}
    PROVE  Extends(q, q, op, tok) /\ Captures(tok)
<1>1. Len(q) \in Nat
  BY QueueIs
<1> QED
  BY <1>1 DEF Extends, New, Captures

\* What the daemon's own steps leave alone.
Asking(op, tok) ==
    /\ phase = "up" /\ boxes' = boxes /\ worker' = worker /\ todo' = todo
    /\ passed' = passed /\ late' = late /\ crossed' = crossed
    /\ snap' \in Tables /\ home' \in [BoxHandles -> {"out", "tiled", "floating"}]
    /\ snap'.published = snap.published /\ Counted(op, tok)
    /\ \A h \in BoxHandles \ DOMAIN tok :
          /\ h \in snap'.disabled <=> h \in snap.disabled
          /\ snap'.tracked[h] = snap.tracked[h]
          /\ \/ home'[h] = home[h] /\ phase' = phase /\ paused' = paused
             \/ /\ h \notin snap.disabled
                /\ home'[h] # "out" => boxes[h].live /\ boxes[h].token # 0
                /\ phase' = "up" /\ ~paused' /\ home'[h] = "tiled" /\ Sound(h) => ~boxes[h].box /\ ~Pending(h)

LEMMA AsksBackAll ==
    ASSUME BoxInv, NEW tok, Captures(tok), DOMAIN tok \subseteq snap.disabled,
           \A h \in DOMAIN tok : tok[h] = boxes[h].token,
           Asking("restore", tok), NEW q2, Extends(snap.queue, q2, "restore", tok),
           \/ snap'.queue = q2 /\ phase' = "up"
           \/ snap'.queue = Append(q2, Barrier) /\ phase' = "waiting",
           \A h \in DOMAIN tok : /\ h \notin snap'.disabled /\ snap'.tracked[h] = {}
                                 /\ ~(phase' = "up" /\ ~paused' /\ home'[h] = "tiled")
    PROVE  BoxInv'
<1> DEFINE q == snap.queue
<1>a. "restore" \in AskKinds
  BY DEF AskKinds
<1>1. q \in Seq(Asks) /\ q2 \in Seq(Asks) /\ DOMAIN tok \subseteq BoxHandles
  BY SnapTypes DEF BoxInv, Extends
<1>2. BoxTypes'
  BY DEF BoxInv, BoxTypes, Asking
<1>3. Hand'
  BY DEF BoxInv, Hand, Asking
<1>4. ASSUME NEW h \in BoxHandles
      PROVE  /\ \A k \in B!Keys : Waiting(snap'.queue, k) = Waiting(q2, k)
             /\ SameAbout(q2, snap'.queue, h)
  <2>1. CASE snap'.queue = q2
    BY <2>1 DEF SameAbout
  <2>2. CASE snap'.queue = Append(q2, Barrier)
    <3> DEFINE q3 == snap'.queue
    <3>1. q2 \in Seq(Asks) /\ q3 = Append(q2, Barrier)
      BY <1>1, <2>2
    <3> HIDE DEF q3
    <3>2. (\A k \in B!Keys : Waiting(q3, k) = Waiting(q2, k)) /\ SameAbout(q2, q3, h)
      BY ONLY <3>1, BarrierAlike
    <3> QED
      BY <3>2 DEF q3
  <2> QED
    BY <2>1, <2>2
<1>5. Accounts'
  <2>1. \A k \in B!Keys : Waiting(snap'.queue, k) = Waiting(q2, k)
    <3> SUFFICES ASSUME NEW k \in B!Keys PROVE Waiting(snap'.queue, k) = Waiting(q2, k)
      OBVIOUS
    <3>1. k[1] \in BoxHandles
      BY KeyIs
    <3> QED
      BY <1>4, <3>1
  <2>2. BoxTypes /\ Accounts /\ worker' = worker /\ Counted("restore", tok)
    BY DEF BoxInv, Asking
  <2> QED
    BY <1>a, <2>1, <2>2, AccountsMore
<1>6. Phases'
  <2>1. \A i \in DOMAIN q2 : q2[i] # Barrier
    BY <1>a, NoBarrier DEF BoxInv, Asking
  <2>2. \A i \in DOMAIN snap'.queue : snap'.queue[i] = Barrier => i = Len(snap'.queue) /\ phase' # "up"
    <3>1. CASE snap'.queue = q2
      BY <2>1, <3>1
    <3>2. CASE snap'.queue = Append(q2, Barrier) /\ phase' = "waiting"
      <4> DEFINE q3 == snap'.queue
      <4>1. q3 = Append(q2, Barrier)
        BY <3>2
      <4>2. Len(q3) = Len(q2) + 1 /\ DOMAIN q3 = DOMAIN q2 \cup {Len(q2) + 1} /\ \A i \in DOMAIN q2 : q3[i] = q2[i]
        <5> HIDE DEF q3
        <5> QED
          BY <1>1, <4>1, BarrierAlike
      <4> QED
        BY <2>1, <3>2, <4>2
    <3> QED
      BY <3>1, <3>2
  <2>3. "shutdown" \notin DOMAIN todo /\ todo' = todo /\ phase' \in {"up", "waiting"}
    BY DEF BoxInv, Phases, Asking
  <2> QED
    BY <2>2, <2>3 DEF Phases
<1>7. ASSUME NEW h \in BoxHandles PROVE OneBox(h)'
  <2>1. OneBox(h) /\ Phases /\ Alone(h) /\ worker' = worker
    BY DEF BoxInv, Asking, Alone
  <2>2. SameAbout(q2, snap'.queue, h)
    BY <1>4
  <2>3. CASE h \notin DOMAIN tok
    <3>1. SameAbout(q, q2, h)
      <4>1. Extends(q, q2, "restore", tok)
        OBVIOUS
      <4> HIDE DEF q
      <4> QED
        BY <1>1, <2>3, <4>1, ExtendsOthers
    <3>2. SameAbout(snap.queue, snap'.queue, h)
      BY <2>2, <3>1 DEF SameAbout
    <3> QED
      BY <2>1, <2>3, <3>2, Rests DEF Asking, Steady
  <2>4. CASE h \in DOMAIN tok
    <3>1. GivenBack(q, q2, h, tok[h])
      <4>1. Extends(q, q2, "restore", tok)
        OBVIOUS
      <4> HIDE DEF q
      <4> QED
        BY <1>1, <2>4, <4>1, RestoreAdded
    <3>2. GivenBack(snap.queue, snap'.queue, h, boxes[h].token)
      BY <1>a, <2>2, <2>4, <3>1 DEF GivenBack, SameAbout
    <3> QED
      BY <2>1, <2>4, <3>2, AsksBack
  <2> QED
    BY <2>3, <2>4
<1> QED
  BY <1>2, <1>3, <1>5, <1>6, <1>7 DEF BoxInv

LEMMA AsksAwayAll ==
    ASSUME BoxInv, NEW tok, Captures(tok), DOMAIN tok \subseteq BoxHandles,
           \A h \in DOMAIN tok : tok[h] = boxes[h].token,
           Asking("remove", tok), Extends(snap.queue, snap'.queue, "remove", tok),
           phase' = "up",
           \A h \in DOMAIN tok :
              /\ h \notin snap.disabled /\ h \in snap'.disabled /\ snap'.tracked[h] = {tok[h]}
              /\ ~paused' /\ home'[h] = "tiled" /\ boxes[h].live /\ boxes[h].token # 0
              /\ boxes[h].box \/ Pending(h)
    PROVE  BoxInv'
<1> DEFINE q == snap.queue
           q2 == snap'.queue
<1>a. "remove" \in AskKinds
  BY DEF AskKinds
<1>1. q \in Seq(Asks) /\ q2 \in Seq(Asks) /\ Extends(q, q2, "remove", tok)
  BY SnapTypes DEF BoxInv, Extends
<1>2. BoxTypes'
  BY DEF BoxInv, BoxTypes, Asking
<1>3. Hand'
  BY DEF BoxInv, Hand, Asking
<1>4. Accounts'
  <2>1. BoxTypes /\ Accounts /\ worker' = worker /\ Counted("remove", tok)
    BY DEF BoxInv, Asking
  <2>2. \A k \in B!Keys : Waiting(snap'.queue, k) = Waiting(q2, k)
    OBVIOUS
  <2> HIDE DEF q2
  <2>3. Extends(snap.queue, q2, "remove", tok)
    BY <1>1
  <2> QED
    BY <1>a, <2>1, <2>2, <2>3, AccountsMore
<1>5. Phases'
  <2>1. \A i \in DOMAIN q2 : q2[i] # Barrier
    <3> HIDE DEF q2
    <3>1. Extends(snap.queue, q2, "remove", tok)
      BY <1>1
    <3> QED
      BY <1>a, <3>1, NoBarrier DEF BoxInv, Asking
  <2>2. "shutdown" \notin DOMAIN todo /\ todo' = todo /\ phase' = "up"
    BY DEF BoxInv, Phases, Asking
  <2> QED
    BY <2>1, <2>2 DEF Phases
<1>6. ASSUME NEW h \in BoxHandles PROVE OneBox(h)'
  <2>1. OneBox(h) /\ Phases /\ Alone(h) /\ worker' = worker /\ phase = "up"
    BY DEF BoxInv, Asking, Alone
  <2>2. CASE h \notin DOMAIN tok
    <3>1. SameAbout(q, q2, h)
      <4> HIDE DEF q, q2
      <4> QED
        BY <1>1, <2>2, ExtendsOthers
    <3> QED
      BY <2>1, <2>2, <3>1, Rests DEF Asking, Steady
  <2>3. CASE h \in DOMAIN tok
    <3>1. TakenAway(q, q2, h, tok[h])
      <4> HIDE DEF q, q2
      <4> QED
        BY <1>1, <2>3, RemoveAdded
    <3>2. TakenAway(snap.queue, snap'.queue, h, boxes[h].token)
      BY <2>3, <3>1
    <3> QED
      BY <2>1, <2>3, <3>2, AsksAway
  <2> QED
    BY <2>2, <2>3
<1> QED
  BY <1>2, <1>3, <1>4, <1>5, <1>6 DEF BoxInv

(***************************************************************************)
(* The daemon's steps.                                                     *)
(***************************************************************************)
\* What it does for one window: gives the box back.
LEMMA OneGivenBack ==
    ASSUME BoxInv, NEW h \in BoxHandles, phase = "up", UNCHANGED <<boxes, phase, paused, crossed>>,
           UNCHANGED <<passed, late, todo, worker>>, snap' = B!RestoreSnap(h, snap),
           NEW place \in {"out", "floating"}, home' = [home EXCEPT ![h] = place], home[h] # "out"
    PROVE  BoxInv'
<1>1. snap \in Tables /\ snap.queue \in Seq(Asks) /\ snap.pending \in [B!Keys -> Nat]
      /\ home \in [BoxHandles -> {"out", "tiled", "floating"}]
      /\ boxes \in [BoxHandles -> B!Window]
  BY SnapTypes DEF BoxInv, BoxTypes
<1>2. home' \in [BoxHandles -> {"out", "tiled", "floating"}]
      /\ home'[h] = place /\ \A x \in BoxHandles \ {h} : home'[x] = home[x]
  BY <1>1
<1>3. boxes[h].live /\ boxes[h].token # 0 /\ boxes[h].token \in 0..MaxTokens
  BY <1>1 DEF BoxInv, OneBox, Noted, B!Window
<1>4. CASE h \notin snap.disabled
  <2>1. snap' = snap
    BY <1>4 DEF B!RestoreSnap
  <2> DEFINE tok == [x \in {} |-> 0]
  <2>2. DOMAIN tok = {}
    OBVIOUS
  <2> HIDE DEF tok
  <2>3. Extends(snap.queue, snap.queue, "restore", tok) /\ Captures(tok)
    BY <1>1, <2>2, ExtendsByNone
  <2>4. Counted("restore", tok)
    BY <1>1, <2>1, <2>2 DEF Counted
  <2>5. Asking("restore", tok)
    BY <1>1, <1>2, <1>3, <1>4, <2>1, <2>2, <2>4 DEF Asking
  <2> QED
    BY <2>1, <2>2, <2>3, <2>5, AsksBackAll
<1>5. CASE h \in snap.disabled
  <2> DEFINE t == boxes[h].token
             k == <<h, t>>
             tok == [x \in {h} |-> t]
             q2 == Append(snap.queue, B!Request("restore", k))
  <2>1. k \in B!Keys /\ B!Captured(boxes, h) = k
    BY <1>3 DEF B!Keys, B!Captured
  <2>2. snap' = [[snap EXCEPT !.disabled = @ \ {h}, !.tracked[h] = {}]
                    EXCEPT !.pending[k] = @ + 1, !.queue = Append(@, B!Request("restore", k))]
    BY <1>3, <1>5, <2>1 DEF B!RestoreSnap
  <2> HIDE DEF k
  <2>3. /\ snap'.disabled = snap.disabled \ {h}
        /\ snap'.tracked = [snap.tracked EXCEPT ![h] = {}]
        /\ snap'.pending = [snap.pending EXCEPT ![k] = @ + 1]
        /\ snap'.queue = q2 /\ snap'.published = snap.published
        /\ snap' = [disabled |-> snap'.disabled, tracked |-> snap'.tracked, pending |-> snap'.pending,
                    published |-> snap'.published, queue |-> snap'.queue]
    BY <1>1, <2>2 DEF Tables
  <2>4. Extends(snap.queue, q2, "restore", tok)
    <3>1. "restore" \in AskKinds /\ <<h, t>> \in B!Keys
      BY <2>1 DEF AskKinds, k
    <3> HIDE DEF t
    <3>2. Extends(snap.queue, Append(snap.queue, B!Request("restore", <<h, t>>)), "restore", [x \in {h} |-> t])
      BY ONLY <1>1, <3>1, ExtendsByOne
    <3> QED
      BY <3>2 DEF k
  <2>5. DOMAIN tok = {h} /\ tok[h] = t
    OBVIOUS
  <2> HIDE DEF q2, tok
  <2>6. q2 \in Seq(Asks)
    BY <2>4 DEF Extends
  <2>7. snap' \in Tables
    <3>1. snap'.pending \in [B!Keys -> Nat]
      <4>1. snap.pending[k] + 1 \in Nat
        BY <1>1, <2>1
      <4> QED
        BY ONLY <1>1, <2>3, <4>1
    <3>2. snap'.tracked \in [BoxHandles -> SUBSET (0..MaxTokens)]
      BY <1>1, <2>3 DEF Tables
    <3> QED
      BY <1>1, <2>3, <2>6, <3>1, <3>2 DEF Tables
  <2>8. Captures(tok)
    BY <2>1, <2>5 DEF Captures, k
  <2>9. Counted("restore", tok)
    <3> SUFFICES ASSUME NEW c \in B!Keys
                 PROVE  snap'.pending[c] = snap.pending[c] +
                            IF c[1] \in DOMAIN tok /\ c[2] = tok[c[1]] THEN 1 ELSE 0
      BY DEF Counted
    <3>1. c = k <=> c[1] \in DOMAIN tok /\ c[2] = tok[c[1]]
      <4>1. c = <<c[1], c[2]>>
        BY KeyIs
      <4> QED
        BY <2>5, <4>1 DEF k
    <3> QED
      BY <1>1, <2>1, <2>3, <3>1
  <2>10. \A x \in BoxHandles \ DOMAIN tok : snap'.tracked[x] = snap.tracked[x]
    BY <1>1, <2>3, <2>5 DEF Tables
  <2>11. Asking("restore", tok)
    BY <1>2, <2>3, <2>5, <2>7, <2>9, <2>10 DEF Asking
  <2>12. snap'.tracked[h] = {}
    BY <1>1, <2>3 DEF Tables
  <2> QED
    BY <1>2, <1>5, <2>3, <2>4, <2>5, <2>8, <2>11, <2>12, AsksBackAll
<1> QED
  BY <1>4, <1>5

LEMMA LeaveKeeps ==
    ASSUME BoxInv, NEW h \in BoxHandles, B!Leave(h)
    PROVE  BoxInv'
<1>1. /\ phase = "up" /\ UNCHANGED <<boxes, phase, paused, crossed>>
      /\ UNCHANGED <<passed, late, todo, worker>> /\ snap' = B!RestoreSnap(h, snap)
      /\ home' = [home EXCEPT ![h] = "out"] /\ home[h] # "out"
  BY DEF B!Leave, B!Up, B!Managed, B!Away
<1> QED
  BY <1>1, OneGivenBack

\* A box is taken that is there or coming; that of a window it no longer
\* expects to lose or to get back need not be.
LEMMA TakesIs ==
    ASSUME BoxInv, NEW h \in BoxHandles, home[h] # "out"
    PROVE  /\ B!Takes(h, boxes, snap) => boxes[h].box \/ Pending(h)
           /\ ~B!Takes(h, boxes, snap) /\ Sound(h) => ~boxes[h].box /\ ~Pending(h)
<1> DEFINE t == boxes[h].token
           k == <<h, t>>
<1>1. boxes[h].live /\ t \in 0..MaxTokens
  BY DEF BoxInv, BoxTypes, OneBox, Noted, B!Window
<1>2. k \in B!Keys /\ B!Captured(boxes, h) = k
  BY <1>1 DEF B!Keys, B!Captured
<1>3. B!Takes(h, boxes, snap) <=> boxes[h].box \/ snap.pending[k] > 0
  BY <1>1, <1>2 DEF B!Takes
<1>4. snap.pending[k] > 0 => Pending(h)
  <2>1. k[1] = h
    OBVIOUS
  <2> HIDE DEF k
  <2> QED
    BY <1>2, <2>1, PendingKey DEF BoxInv
<1>5. ASSUME Sound(h), Pending(h) PROVE snap.pending[k] > 0
  <2>1. Fresh(h)
    BY <1>5 DEF BoxInv, OneBox
  <2>2. PICK c \in B!Keys : c[1] = h /\ snap.pending[c] > 0 /\ c[2] = t
    BY <1>5, <2>1, PendingKey DEF BoxInv
  <2>3. c = k
    BY <2>2, KeyIs
  <2> QED
    BY <2>2, <2>3
<1> QED
  BY <1>3, <1>4, <1>5

\* What it does for one window: takes the box, if it is there or coming.
LEMMA OneTakenAway ==
    ASSUME BoxInv, NEW h \in BoxHandles, phase = "up", UNCHANGED <<boxes, phase, paused, crossed>>,
           UNCHANGED <<passed, late, todo, worker>>, snap' = B!DisableSnap(h, boxes, snap),
           home' = [home EXCEPT ![h] = "tiled"], home[h] = "floating"
    PROVE  BoxInv'
<1>1. snap \in Tables /\ snap.queue \in Seq(Asks) /\ snap.pending \in [B!Keys -> Nat]
      /\ home \in [BoxHandles -> {"out", "tiled", "floating"}]
      /\ boxes \in [BoxHandles -> B!Window]
  BY SnapTypes DEF BoxInv, BoxTypes
<1>2. home' \in [BoxHandles -> {"out", "tiled", "floating"}]
      /\ home'[h] = "tiled" /\ \A x \in BoxHandles \ {h} : home'[x] = home[x]
  BY <1>1
<1> DEFINE t == boxes[h].token
           k == <<h, t>>
<1>3. boxes[h].live /\ t # 0 /\ t \in 0..MaxTokens /\ h \notin snap.disabled
  BY <1>1 DEF BoxInv, OneBox, Noted, B!Window
<1>4. k \in B!Keys /\ B!Captured(boxes, h) = k
  BY <1>3 DEF B!Keys, B!Captured
<1>5. /\ B!Takes(h, boxes, snap) => boxes[h].box \/ Pending(h)
      /\ ~B!Takes(h, boxes, snap) /\ Sound(h) => ~boxes[h].box /\ ~Pending(h)
  BY <1>1, TakesIs
<1>7. CASE snap' = snap /\ (paused \/ ~B!Takes(h, boxes, snap))
  <2> DEFINE tok == [x \in {} |-> 0]
  <2>2. DOMAIN tok = {}
    OBVIOUS
  <2> HIDE DEF tok
  <2>3. Extends(snap.queue, snap.queue, "restore", tok) /\ Captures(tok)
    BY <1>1, <2>2, ExtendsByNone
  <2>4. Counted("restore", tok)
    BY <1>1, <1>7, <2>2 DEF Counted
  <2>5. paused \/ (Sound(h) => ~boxes[h].box /\ ~Pending(h))
    BY <1>5, <1>7
  <2>6. Asking("restore", tok)
    BY <1>1, <1>2, <1>3, <1>7, <2>2, <2>4, <2>5 DEF Asking
  <2> QED
    BY <1>7, <2>2, <2>3, <2>6, AsksBackAll
<1>8. CASE ~paused /\ B!Takes(h, boxes, snap)
  <2> DEFINE tok == [x \in {h} |-> t]
             q2 == Append(snap.queue, B!Request("remove", k))
  <2>1. snap' = [snap EXCEPT !.disabled = @ \cup {h}, !.tracked[h] = {t},
                             !.queue = Append(@, B!Request("remove", k))]
    BY <1>3, <1>4, <1>8 DEF B!DisableSnap, B!TakeBox
  <2> HIDE DEF k
  <2>2. /\ snap'.disabled = snap.disabled \cup {h}
        /\ snap'.tracked = [snap.tracked EXCEPT ![h] = {t}]
        /\ snap'.pending = snap.pending
        /\ snap'.queue = q2 /\ snap'.published = snap.published
        /\ snap' = [disabled |-> snap'.disabled, tracked |-> snap'.tracked, pending |-> snap'.pending,
                    published |-> snap'.published, queue |-> snap'.queue]
    BY <1>1, <2>1 DEF Tables
  <2>3. Extends(snap.queue, q2, "remove", tok)
    <3>1. "remove" \in AskKinds /\ <<h, t>> \in B!Keys
      BY <1>4 DEF AskKinds, k
    <3> HIDE DEF t
    <3>2. Extends(snap.queue, Append(snap.queue, B!Request("remove", <<h, t>>)), "remove", [x \in {h} |-> t])
      BY ONLY <1>1, <3>1, ExtendsByOne
    <3> QED
      BY <3>2 DEF k
  <2>4. DOMAIN tok = {h} /\ tok[h] = t
    OBVIOUS
  <2> HIDE DEF q2, tok
  <2>5. q2 \in Seq(Asks)
    BY <2>3 DEF Extends
  <2>6. snap'.tracked \in [BoxHandles -> SUBSET (0..MaxTokens)] /\ snap'.tracked[h] = {t}
        /\ \A x \in BoxHandles \ {h} : snap'.tracked[x] = snap.tracked[x]
    BY <1>1, <1>3, <2>2 DEF Tables
  <2>7. snap' \in Tables
    BY <1>1, <2>2, <2>5, <2>6 DEF Tables
  <2>8. Captures(tok)
    BY <1>4, <2>4 DEF Captures, k
  <2>9. Counted("remove", tok)
    BY <1>1, <2>2 DEF Counted
  <2>10. Asking("remove", tok)
    BY <1>2, <2>2, <2>4, <2>6, <2>7, <2>9 DEF Asking
  <2>11. boxes[h].box \/ Pending(h)
    BY <1>5, <1>8
  <2>12. Extends(snap.queue, snap'.queue, "remove", tok)
    BY <2>2, <2>3
  <2>13. ~paused' /\ phase' = "up" /\ h \in snap'.disabled /\ DOMAIN tok \subseteq BoxHandles
    BY <1>8, <2>2, <2>4
  <2> QED
    BY <1>2, <1>3, <2>4, <2>6, <2>8, <2>10, <2>11, <2>12, <2>13, AsksAwayAll
<1>9. paused \/ ~B!Takes(h, boxes, snap) => snap' = snap
  BY <1>3 DEF B!DisableSnap, B!TakeBox
<1> QED
  BY <1>7, <1>8, <1>9

LEMMA ToggleKeeps ==
    ASSUME BoxInv, NEW h \in BoxHandles, B!Toggle(h)
    PROVE  BoxInv'
<1>1. /\ phase = "up" /\ UNCHANGED <<boxes, phase, paused, crossed>> /\ home[h] # "out"
      /\ UNCHANGED <<passed, late, todo, worker>>
      /\ \/ /\ home[h] = "tiled" /\ home' = [home EXCEPT ![h] = "floating"]
            /\ snap' = B!RestoreSnap(h, snap)
         \/ /\ home[h] # "tiled" /\ home' = [home EXCEPT ![h] = "tiled"]
            /\ snap' = B!DisableSnap(h, boxes, snap)
  BY DEF B!Toggle, B!Up, B!Managed, B!Away
<1>2. home[h] \in {"out", "tiled", "floating"}
  BY DEF BoxInv, BoxTypes
<1> QED
  BY <1>1, <1>2, OneGivenBack, OneTakenAway

\* What it does for many, in the order it comes by them.
LEMMA RequestsAre ==
    ASSUME BoxTypes, NEW op \in AskKinds, NEW some \in SUBSET BoxHandles, NEW order \in B!SetToSeqs(some),
           NEW tok, tok = [h \in some |-> boxes[h].token]
    PROVE  /\ Extends(snap.queue, snap.queue \o B!Requests(op, order), op, tok)
           /\ Captures(tok)
<1> DEFINE u == [i \in DOMAIN order |-> B!Request(op, <<order[i], tok[order[i]]>>)]
<1>1. \A i \in DOMAIN order : order[i] \in some
  BY DEF B!SetToSeqs
<1>2. tok \in [some -> 0..MaxTokens]
  BY DEF BoxTypes, B!Window
<1>3. B!Requests(op, order) = u
  BY <1>1 DEF B!Requests, B!Captured
<1>4. Extends(snap.queue, snap.queue \o u, op, tok)
  <2> DEFINE q == snap.queue
             v == u
  <2>1. q \in Seq(Asks) /\ v = u
    BY SnapTypes
  <2> HIDE DEF q, v
  <2>2. Extends(q, q \o v, op, tok)
    BY <1>2, <2>1, ExtendsByAll
  <2> QED
    BY <2>1, <2>2 DEF q
<1>5. Captures(tok)
  BY <1>2 DEF Captures, B!Keys
<1> QED
  BY <1>3, <1>4, <1>5

LEMMA AllGivenBack ==
    ASSUME BoxInv, phase = "up", UNCHANGED <<boxes, home, crossed>>,
           UNCHANGED <<passed, late, todo, worker>>,
           NEW order \in B!SetToSeqs(B!Restorable), NEW s, s = B!RestoreAll(order),
           \/ snap' = s /\ phase' = "up" /\ paused'
           \/ snap' = [s EXCEPT !.queue = Append(@, Barrier)] /\ phase' = "waiting"
    PROVE  BoxInv'
<1>1. /\ snap \in Tables /\ snap.queue \in Seq(Asks) /\ snap.pending \in [B!Keys -> Nat]
      /\ home \in [BoxHandles -> {"out", "tiled", "floating"}]
      /\ boxes \in [BoxHandles -> B!Window] /\ BoxTypes
      /\ snap.disabled \subseteq BoxHandles
      /\ snap.tracked \in [BoxHandles -> SUBSET (0..MaxTokens)]
  BY SnapTypes DEF BoxInv, BoxTypes
<1>2. B!Restorable = snap.disabled
  BY <1>1 DEF BoxInv, OneBox, Noted, B!Restorable
<1> DEFINE tok == [h \in snap.disabled |-> boxes[h].token]
           u == B!Requests("restore", order)
           q2 == snap.queue \o u
<1>3. Extends(snap.queue, q2, "restore", tok) /\ Captures(tok)
  <2>1. "restore" \in AskKinds /\ snap.disabled \in SUBSET BoxHandles /\ order \in B!SetToSeqs(snap.disabled)
    BY <1>1, <1>2 DEF AskKinds
  <2> HIDE DEF tok
  <2>2. tok = [h \in snap.disabled |-> boxes[h].token]
    BY DEF tok
  <2> QED
    BY ONLY <1>1, <2>1, <2>2, RequestsAre
<1>4. /\ s.disabled = {} /\ s.queue = q2 /\ s.published = snap.published
      /\ s.tracked = [h \in BoxHandles |-> IF h \in snap.disabled THEN {} ELSE snap.tracked[h]]
      /\ s.pending = [k \in B!Keys |-> IF k[1] \in snap.disabled /\ k = <<k[1], boxes[k[1]].token>>
                                       THEN snap.pending[k] + 1 ELSE snap.pending[k]]
      /\ s = [disabled |-> s.disabled, tracked |-> s.tracked, pending |-> s.pending,
              published |-> s.published, queue |-> s.queue]
  <2> HIDE DEF u, tok
  <2>1. s = [snap EXCEPT !.disabled = {},
                 !.tracked = [h \in BoxHandles |-> IF h \in snap.disabled THEN {} ELSE snap.tracked[h]],
                 !.pending = [k \in B!Keys |-> IF k[1] \in snap.disabled /\ k = <<k[1], boxes[k[1]].token>>
                                               THEN snap.pending[k] + 1 ELSE snap.pending[k]],
                 !.queue = @ \o u]
    BY <1>2 DEF B!RestoreAll, B!Captured, u
  <2> QED
    BY <1>1, <2>1 DEF Tables
<1> HIDE DEF u, q2
<1>5. /\ snap'.disabled = {} /\ snap'.published = snap.published
      /\ snap'.tracked = s.tracked /\ snap'.pending = s.pending
      /\ snap' = [disabled |-> snap'.disabled, tracked |-> snap'.tracked, pending |-> snap'.pending,
                  published |-> snap'.published, queue |-> snap'.queue]
      /\ \/ snap'.queue = q2 /\ phase' = "up" /\ paused'
         \/ snap'.queue = Append(q2, Barrier) /\ phase' = "waiting"
  <2> DEFINE a == s.disabled
             b == s.tracked
             c == s.pending
             d == s.published
  <2>1. s = [disabled |-> a, tracked |-> b, pending |-> c, published |-> d, queue |-> q2]
        /\ a = {} /\ d = snap.published
    BY <1>4
  <2> HIDE DEF a, b, c, d
  <2>2. /\ snap'.disabled = a /\ snap'.published = d /\ snap'.tracked = b /\ snap'.pending = c
        /\ snap' = [disabled |-> snap'.disabled, tracked |-> snap'.tracked, pending |-> snap'.pending,
                  published |-> snap'.published, queue |-> snap'.queue]
        /\ \/ snap'.queue = q2 /\ phase' = "up" /\ paused'
           \/ snap'.queue = Append(q2, Barrier) /\ phase' = "waiting"
    BY <2>1
  <2> QED
    BY <2>1, <2>2 DEF b, c
<1>6. DOMAIN tok = snap.disabled /\ \A h \in snap.disabled : tok[h] = boxes[h].token
  OBVIOUS
<1> HIDE DEF tok
<1>7. snap' \in Tables
  <2>1. snap'.queue \in Seq(Asks)
    <3>1. q2 \in Seq(Asks)
      BY <1>3 DEF Extends
    <3>2. Append(q2, Barrier) \in Seq(Asks)
      BY <3>1, BarrierAlike
    <3> QED
      BY <1>5, <3>1, <3>2
  <2>2. snap'.pending \in [B!Keys -> Nat]
    BY <1>1, <1>4, <1>5
  <2>3. snap'.tracked \in [BoxHandles -> SUBSET (0..MaxTokens)]
    BY <1>1, <1>4, <1>5
  <2>4. snap'.published \subseteq B!Keys /\ snap'.disabled \subseteq BoxHandles
    BY <1>1, <1>5 DEF Tables
  <2> QED
    BY <1>5, <2>1, <2>2, <2>3, <2>4 DEF Tables
<1>8. Counted("restore", tok)
  <2> SUFFICES ASSUME NEW k \in B!Keys
               PROVE  snap'.pending[k] = snap.pending[k] +
                          IF k[1] \in DOMAIN tok /\ k[2] = tok[k[1]] THEN 1 ELSE 0
    BY DEF Counted
  <2>1. k = <<k[1], k[2]>>
    BY KeyIs
  <2>2. snap.pending[k] \in Nat
    BY <1>1
  <2>3. k[1] \in snap.disabled /\ k = <<k[1], boxes[k[1]].token>> <=>
          k[1] \in DOMAIN tok /\ k[2] = tok[k[1]]
    BY <1>6, <2>1
  <2>4. snap'.pending[k] = IF k[1] \in snap.disabled /\ k = <<k[1], boxes[k[1]].token>>
                           THEN snap.pending[k] + 1 ELSE snap.pending[k]
    BY <1>4, <1>5
  <2> QED
    BY ONLY <2>2, <2>3, <2>4
<1>9. \A h \in BoxHandles : snap'.tracked[h] = IF h \in snap.disabled THEN {} ELSE snap.tracked[h]
  BY <1>4, <1>5
<1>10. Asking("restore", tok)
  <2>1. ASSUME NEW h \in BoxHandles \ DOMAIN tok
        PROVE  /\ h \in snap'.disabled <=> h \in snap.disabled
               /\ snap'.tracked[h] = snap.tracked[h]
               /\ h \notin snap.disabled
               /\ home'[h] # "out" => boxes[h].live /\ boxes[h].token # 0
    BY <1>5, <1>6, <1>9 DEF BoxInv, OneBox, Noted
  <2>2. ~(phase' = "up" /\ ~paused')
    BY <1>5
  <2> QED
    BY <1>1, <1>5, <1>7, <1>8, <2>1, <2>2 DEF Asking
<1> QED
  BY <1>3, <1>5, <1>6, <1>9, <1>10, <1>1, AsksBackAll

LEMMA PauseKeeps ==
    ASSUME BoxInv, B!Pause
    PROVE  BoxInv'
<1>1. PICK order \in B!SetToSeqs(B!Restorable) : snap' = B!RestoreAll(order)
  BY DEF B!Pause
<1>2. /\ phase = "up" /\ phase' = "up" /\ paused' /\ UNCHANGED <<boxes, home, crossed>>
      /\ UNCHANGED <<passed, late, todo, worker>>
  BY DEF B!Pause, B!Up, B!Away
<1> QED
  BY <1>1, <1>2, AllGivenBack

LEMMA ShutdownKeeps ==
    ASSUME BoxInv, B!BeginShutdown
    PROVE  BoxInv'
<1>1. PICK order \in B!SetToSeqs(B!Restorable) :
         snap' = [B!RestoreAll(order) EXCEPT !.queue = Append(@, Barrier)]
  BY DEF B!BeginShutdown, Barrier
<1>2. /\ phase = "up" /\ phase' = "waiting" /\ UNCHANGED <<boxes, home, crossed>>
      /\ UNCHANGED <<passed, late, todo, worker>>
  BY DEF B!BeginShutdown, B!Up
<1> DEFINE s == B!RestoreAll(order)
<1>3. s = B!RestoreAll(order) /\ snap' = [s EXCEPT !.queue = Append(@, Barrier)]
  BY <1>1
<1> HIDE DEF s
<1> QED
  BY <1>2, <1>3, AllGivenBack

LEMMA ResumeKeeps ==
    ASSUME BoxInv, B!Resume
    PROVE  BoxInv'
<1>1. PICK order \in B!SetToSeqs(B!Takable) : snap' = B!TakeAll(order)
  BY DEF B!Resume
<1>2. /\ phase = "up" /\ phase' = "up" /\ paused /\ ~paused' /\ UNCHANGED <<boxes, home, crossed>>
      /\ UNCHANGED <<passed, late, todo, worker>>
  BY DEF B!Resume, B!Up, B!Away
<1>3. /\ snap \in Tables /\ snap.queue \in Seq(Asks) /\ snap.pending \in [B!Keys -> Nat]
      /\ home \in [BoxHandles -> {"out", "tiled", "floating"}] /\ BoxTypes
      /\ snap.disabled \subseteq BoxHandles
      /\ snap.tracked \in [BoxHandles -> SUBSET (0..MaxTokens)]
  BY SnapTypes DEF BoxInv, BoxTypes
<1>4. snap.disabled = {}
  BY <1>2, <1>3 DEF BoxInv, OneBox, Noted
<1> DEFINE some == B!Takable
           tok == [h \in some |-> boxes[h].token]
           q2 == snap.queue \o B!Requests("remove", order)
<1>5. /\ some \in SUBSET BoxHandles
      /\ \A h \in BoxHandles : h \in some <=> home[h] = "tiled" /\ B!Takes(h, boxes, snap)
  BY <1>4 DEF B!Takable, B!Tiled
<1>6. order \in B!SetToSeqs(some)
  OBVIOUS
<1>7. snap' = [snap EXCEPT !.disabled = @ \cup some,
                 !.tracked = [h \in BoxHandles |-> IF h \in some THEN {boxes[h].token} ELSE snap.tracked[h]],
                 !.queue = q2]
  BY <1>1 DEF B!TakeAll
<1> HIDE DEF some
<1>8. Extends(snap.queue, q2, "remove", tok) /\ Captures(tok)
  <2>1. "remove" \in AskKinds
    BY DEF AskKinds
  <2> HIDE DEF tok
  <2>2. tok = [h \in some |-> boxes[h].token]
    BY DEF tok
  <2> QED
    BY ONLY <1>3, <1>5, <1>6, <2>1, <2>2, RequestsAre
<1>9. DOMAIN tok = some /\ \A h \in some : tok[h] = boxes[h].token
  OBVIOUS
<1> HIDE DEF tok, q2
<1>10. /\ snap'.disabled = some /\ snap'.published = snap.published
       /\ snap'.tracked = [h \in BoxHandles |-> IF h \in some THEN {boxes[h].token} ELSE snap.tracked[h]]
       /\ snap'.pending = snap.pending /\ snap'.queue = q2
       /\ snap' = [disabled |-> snap'.disabled, tracked |-> snap'.tracked, pending |-> snap'.pending,
                   published |-> snap'.published, queue |-> snap'.queue]
  BY <1>3, <1>4, <1>7 DEF Tables
<1>11. snap' \in Tables
  <2>1. snap'.queue \in Seq(Asks)
    BY <1>8, <1>10 DEF Extends
  <2>2. \A h \in BoxHandles : boxes[h].token \in 0..MaxTokens
    BY <1>3 DEF BoxTypes, B!Window
  <2>3. snap'.tracked \in [BoxHandles -> SUBSET (0..MaxTokens)]
    BY <1>3, <1>10, <2>2
  <2> QED
    BY <1>3, <1>5, <1>10, <2>1, <2>3 DEF Tables
<1>12. Counted("remove", tok)
  BY <1>3, <1>10 DEF Counted
<1>13. \A h \in BoxHandles : snap'.tracked[h] = IF h \in some THEN {boxes[h].token} ELSE snap.tracked[h]
  BY <1>10
<1>14. ASSUME NEW h \in BoxHandles, h \notin some, home[h] = "tiled", Sound(h)
       PROVE  ~boxes[h].box /\ ~Pending(h)
  BY <1>5, <1>14, TakesIs
<1>15. Asking("remove", tok)
  <2>1. ASSUME NEW h \in BoxHandles \ DOMAIN tok
        PROVE  /\ h \in snap'.disabled <=> h \in snap.disabled
               /\ snap'.tracked[h] = snap.tracked[h]
               /\ h \notin snap.disabled
               /\ home'[h] # "out" => boxes[h].live /\ boxes[h].token # 0
               /\ home'[h] = "tiled" /\ Sound(h) => ~boxes[h].box /\ ~Pending(h)
    BY <1>2, <1>4, <1>9, <1>10, <1>13, <1>14 DEF BoxInv, OneBox, Noted
  <2> QED
    BY <1>2, <1>3, <1>10, <1>11, <1>12, <2>1 DEF Asking
<1>16. ASSUME NEW h \in DOMAIN tok
       PROVE  /\ h \notin snap.disabled /\ h \in snap'.disabled /\ snap'.tracked[h] = {tok[h]}
              /\ ~paused' /\ home'[h] = "tiled" /\ boxes[h].live /\ boxes[h].token # 0
              /\ boxes[h].box \/ Pending(h)
              /\ tok[h] = boxes[h].token
  <2>1. h \in BoxHandles /\ h \in some /\ home[h] = "tiled" /\ B!Takes(h, boxes, snap)
    BY <1>5, <1>9
  <2>2. boxes[h].live /\ boxes[h].token # 0
    BY <2>1 DEF BoxInv, OneBox, Noted
  <2>3. boxes[h].box \/ Pending(h)
    BY <2>1, TakesIs
  <2> QED
    BY <1>2, <1>4, <1>9, <1>10, <1>13, <2>1, <2>2, <2>3
<1>17. Extends(snap.queue, snap'.queue, "remove", tok) /\ DOMAIN tok \subseteq BoxHandles /\ phase' = "up"
  BY <1>2, <1>5, <1>8, <1>9, <1>10
<1> QED
  BY <1>8, <1>9, <1>15, <1>16, <1>17, AsksAwayAll

\* A window that was let go and of which nothing is pending is not in the
\* worker's or the queue's way.
LEMMA Forgotten ==
    ASSUME BoxInv, NEW h \in BoxHandles, Sound(h), h \notin snap.disabled, ~Pending(h)
    PROVE  /\ \A i \in DOMAIN snap.queue : ~Of(snap.queue[i], h)
           /\ ~Of(worker, h)
           /\ B!Missing(h) => h \in passed
<1>1. Turns(h) /\ Known(h) /\ snap.queue \in Seq(Asks)
  BY SnapTypes DEF BoxInv, OneBox
<1>2. ~Holds(snap.queue, "restore", h) /\ Ended(snap.queue, h) /\ ~Giving(h)
  BY <1>1 DEF Turns, Pending
<1>3. ~Taking(h)
  BY <1>1, <1>2 DEF Turns
<1>4. ASSUME NEW i \in DOMAIN snap.queue, Of(snap.queue[i], h) PROVE FALSE
  <2>1. snap.queue[i].op \in AskKinds
    <3>1. snap.queue[i] \in Asks
      BY <1>1, QueueIs
    <3> QED
      BY <1>4, <3>1, AskIs DEF Of
  <2>2. About(snap.queue[i], "remove", h)
    BY <1>2, <1>4, <2>1 DEF Of, About, Holds, AskKinds
  <2> QED
    BY <1>2, <2>2 DEF Ended, Holds
<1>5. ~Of(worker, h)
  <2> SUFFICES ASSUME Of(worker, h) PROVE FALSE
    OBVIOUS
  <2>1. worker.op \in {{"remove"}, {"restore"}}
    BY DEF BoxInv, Hand, Of, B!Idle
  <2>2. Holding("remove", h) \/ Holding("restore", h)
    BY <2>1 DEF Of, Holding
  <2> QED
    BY <1>2, <1>3, <2>2 DEF Taking, Giving
<1>6. B!Missing(h) => h \in passed
  BY <1>1 DEF Known
<1> QED
  BY <1>4, <1>5, <1>6

LEMMA NoneOf ==
    ASSUME NEW q, NEW h, \A i \in DOMAIN q : ~Of(q[i], h)
    PROVE  /\ \A fits : FreshIn(q, h, fits)
           /\ Alternates(q, h) /\ Led(q, h) /\ Ended(q, h) /\ ~Holds(q, "restore", h)
<1>1. \A i \in DOMAIN q : \A op : ~About(q[i], op, h)
  BY AboutIs
<1> QED
  BY <1>1 DEF FreshIn, Alternates, Led, Ended, Holds, Of

LEMMA AdmitKeeps ==
    ASSUME BoxInv, NEW h \in BoxHandles, NEW place \in {"tiled", "floating"}, NEW early \in BOOLEAN,
           B!Admit(h, place, early)
    PROVE  BoxInv'
<1> DEFINE w == IF early THEN boxes ELSE boxes'
           t == w[h].token
           k == <<h, t>>
           takes == place = "tiled" /\ ~paused /\ B!Takes(h, w, snap)
<1>1. /\ phase = "up" /\ home[h] = "out" /\ boxes[h].live /\ boxes[h].token < MaxTokens
      /\ early => boxes[h].token = 0
      /\ boxes' = [boxes EXCEPT ![h].token = @ + 1]
      /\ snap' = IF place = "floating" THEN snap ELSE B!DisableSnap(h, w, snap)
      /\ home' = [home EXCEPT ![h] = place]
      /\ crossed' = IF \E c \in B!Keys : c[1] = h /\ snap.pending[c] > 0
                    THEN crossed \cup {h} ELSE crossed
      /\ UNCHANGED <<paused, phase>> /\ UNCHANGED <<passed, late, todo, worker>>
  BY DEF B!Admit, B!Up, B!Managed, B!Away
<1>2. /\ snap \in Tables /\ snap.queue \in Seq(Asks) /\ snap.pending \in [B!Keys -> Nat]
      /\ home \in [BoxHandles -> {"out", "tiled", "floating"}] /\ BoxTypes
      /\ boxes \in [BoxHandles -> B!Window]
      /\ snap.tracked \in [BoxHandles -> SUBSET (0..MaxTokens)]
  BY SnapTypes DEF BoxInv, BoxTypes
<1>3. MaxTokens \in Nat
  BY GeometryAssumption DEF B!BoxesAssumption
<1>4. /\ boxes' \in [BoxHandles -> B!Window] /\ \A x \in BoxHandles \ {h} : boxes'[x] = boxes[x]
      /\ boxes'[h] = [boxes[h] EXCEPT !.token = @ + 1]
  <2>1. boxes[h] \in B!Window /\ boxes[h].token \in Nat
    BY <1>2, <1>3 DEF B!Window
  <2>2. [boxes[h] EXCEPT !.token = @ + 1] \in B!Window
    BY <1>1, <1>3, <2>1 DEF B!Window
  <2> QED
    BY <1>1, <1>2, <2>2
<1>5. /\ boxes'[h].live = boxes[h].live /\ boxes'[h].box = boxes[h].box /\ boxes'[h].native = boxes[h].native
      /\ boxes'[h].token = boxes[h].token + 1 /\ boxes'[h].token \in 1..MaxTokens
  <2>1. boxes[h] \in B!Window /\ boxes[h].token \in Nat
    BY <1>2, <1>3 DEF B!Window
  <2> DEFINE b == boxes[h]
             c == boxes'[h]
  <2>2. b \in B!Window /\ c = [b EXCEPT !.token = @ + 1]
    BY <1>4, <2>1
  <2> HIDE DEF b, c
  <2>3. c.live = b.live /\ c.box = b.box /\ c.native = b.native /\ c.token = b.token + 1
    BY <2>2 DEF B!Window
  <2>4. b.token + 1 \in 1..MaxTokens
    BY <1>1, <1>3, <2>1 DEF b
  <2> QED
    BY <2>3, <2>4 DEF b, c
<1>6. /\ home' \in [BoxHandles -> {"out", "tiled", "floating"}]
      /\ home'[h] = place /\ \A x \in BoxHandles \ {h} : home'[x] = home[x]
  BY <1>1, <1>2
<1>7. h \notin snap.disabled /\ snap.tracked[h] = {} /\ Noted(h)
  BY <1>1 DEF BoxInv, OneBox, Noted
<1>8. /\ t \in {0, boxes'[h].token} /\ t \in 0..MaxTokens
      /\ w[h].live /\ w[h].box = boxes[h].box
  BY <1>1, <1>3, <1>5
<1>9. k \in B!Keys /\ B!Captured(w, h) = k
  BY <1>8 DEF B!Keys, B!Captured
<1>10. snap' = IF takes THEN [snap EXCEPT !.disabled = @ \cup {h}, !.tracked[h] = {t},
                                         !.queue = Append(@, B!Request("remove", k))]
               ELSE snap
  <2> HIDE DEF w, k
  <2>1. B!DisableSnap(h, w, snap) = IF ~paused /\ B!Takes(h, w, snap)
                                    THEN [snap EXCEPT !.disabled = @ \cup {h}, !.tracked[h] = {t},
                                                      !.queue = Append(@, B!Request("remove", k))]
                                    ELSE snap
    BY <1>7, <1>9 DEF B!DisableSnap, B!TakeBox
  <2>2. place = "tiled" <=> place # "floating"
    OBVIOUS
  <2> QED
    BY <1>1, <2>1, <2>2
<1>11. B!Takes(h, w, snap) <=> boxes[h].box \/ snap.pending[k] > 0
  BY <1>8, <1>9 DEF B!Takes
<1> DEFINE tok == [x \in IF takes THEN {h} ELSE {} |-> t]
           q2 == snap'.queue
<1>12. DOMAIN tok = (IF takes THEN {h} ELSE {}) /\ (takes => tok[h] = t)
  OBVIOUS
<1>13. /\ snap'.pending = snap.pending /\ snap'.published = snap.published /\ snap' \in Tables
       /\ snap'.disabled = snap.disabled \cup DOMAIN tok
       /\ \A x \in BoxHandles \ {h} : snap'.tracked[x] = snap.tracked[x]
       /\ snap'.tracked[h] = (IF takes THEN {t} ELSE {})
       /\ Extends(snap.queue, q2, "remove", tok) /\ Captures(tok)
  <2>1. CASE takes
    <3>1. Extends(snap.queue, Append(snap.queue, B!Request("remove", k)), "remove", [x \in {h} |-> t])
      <4>1. "remove" \in AskKinds /\ <<h, t>> \in B!Keys
        BY <1>9 DEF AskKinds
      <4> HIDE DEF t
      <4> QED
        BY ONLY <1>2, <4>1, ExtendsByOne
    <3>2. tok = [x \in {h} |-> t]
      BY <2>1
    <3> HIDE DEF k, tok, takes
    <3> DEFINE q3 == Append(snap.queue, B!Request("remove", k))
    <3>3. q3 \in Seq(Asks)
      BY <3>1 DEF Extends
    <3>4. snap' = [snap EXCEPT !.disabled = @ \cup {h}, !.tracked[h] = {t}, !.queue = q3]
      BY <1>10, <2>1
    <3> HIDE DEF q3
    <3>5. /\ snap'.disabled = snap.disabled \cup {h}
          /\ snap'.tracked = [snap.tracked EXCEPT ![h] = {t}]
          /\ snap'.pending = snap.pending
          /\ snap'.queue = q3 /\ snap'.published = snap.published
          /\ snap' = [disabled |-> snap'.disabled, tracked |-> snap'.tracked, pending |-> snap'.pending,
                      published |-> snap'.published, queue |-> snap'.queue]
      BY <1>2, <3>4 DEF Tables
    <3>6. snap'.tracked \in [BoxHandles -> SUBSET (0..MaxTokens)] /\ snap'.tracked[h] = {t}
          /\ \A x \in BoxHandles \ {h} : snap'.tracked[x] = snap.tracked[x]
      BY <1>2, <1>8, <3>5
    <3>7. snap' \in Tables
      BY <1>2, <3>3, <3>5, <3>6 DEF Tables
    <3>8. Captures(tok)
      BY <1>9, <3>2 DEF Captures, k
    <3>9. Extends(snap.queue, q2, "remove", tok)
      BY <3>1, <3>2, <3>5 DEF q3
    <3> QED
      BY <1>12, <2>1, <3>5, <3>6, <3>7, <3>8, <3>9
  <2>2. CASE ~takes
    <3>1. DOMAIN tok = {} /\ snap' = snap
      BY <1>10, <2>2
    <3> HIDE DEF tok, takes
    <3>2. Extends(snap.queue, snap.queue, "remove", tok) /\ Captures(tok)
      BY <1>2, <3>1, ExtendsByNone
    <3> QED
      BY <1>2, <1>7, <2>2, <3>1, <3>2
  <2> QED
    BY <2>1, <2>2
<1>14. takes => place = "tiled" /\ ~paused /\ (boxes[h].box \/ snap.pending[k] > 0)
  BY <1>11
<1>15. ~takes /\ place = "tiled" /\ ~paused => ~boxes[h].box
  BY <1>11
<1> HIDE DEF tok, takes, q2, w
<1>16. BoxTypes'
  BY <1>1, <1>2, <1>4, <1>6, <1>13 DEF BoxTypes
<1>17. Hand'
  BY <1>1, <1>13 DEF BoxInv, Hand
<1>18. Accounts'
  <2>1. "remove" \in AskKinds
    BY DEF AskKinds
  <2>2. Counted("remove", tok)
    BY <1>2, <1>13 DEF Counted
  <2>3. BoxTypes /\ Accounts /\ worker' = worker
    BY <1>1 DEF BoxInv
  <2>4. \A c \in B!Keys : Waiting(snap'.queue, c) = Waiting(q2, c)
    BY DEF q2
  <2> QED
    BY <1>13, <2>1, <2>2, <2>3, <2>4, AccountsMore
<1>19. Phases'
  <2>1. "remove" \in AskKinds /\ BoxTypes /\ Phases
    BY DEF AskKinds, BoxInv
  <2>2. \A i \in DOMAIN q2 : q2[i] # Barrier
    BY <1>1, <1>13, <2>1, NoBarrier
  <2> QED
    BY <1>1, <2>1, <2>2 DEF Phases, q2
<1>20. ASSUME NEW x \in BoxHandles, x # h PROVE OneBox(x)'
  <2>1. SameAbout(snap.queue, q2, x)
    BY <1>2, <1>12, <1>13, <1>20, ExtendsOthers
  <2>2. OneBox(x) /\ Alone(x) /\ Steady(x)
    BY <1>1, <1>4, <1>20 DEF BoxInv, Alone, Steady
  <2>3. SameAbout(snap.queue, snap'.queue, x)
    BY <2>1 DEF q2
  <2>4. /\ x \in snap'.disabled <=> x \in snap.disabled
        /\ snap'.tracked[x] = snap.tracked[x]
        /\ home'[x] = home[x] /\ phase' = phase /\ paused' = paused
    BY <1>1, <1>6, <1>12, <1>13, <1>20
  <2> QED
    BY <2>2, <2>3, <2>4, Rests
<1>21. Noted(h)'
  <2>1. home'[h] # "out" => boxes'[h].live /\ boxes'[h].token # 0
    BY <1>1, <1>5
  <2>2. h \in snap'.disabled => takes
    BY <1>7, <1>12, <1>13
  <2>3. h \in snap'.disabled => phase' = "up" /\ ~paused' /\ home'[h] = "tiled"
    BY <1>1, <1>6, <1>14, <2>2
  <2>4. snap'.tracked[h] # {} => h \in snap'.disabled /\ \E c \in Fits(h)' : snap'.tracked[h] = {c}
    BY <1>8, <1>12, <1>13 DEF Fits
  <2> QED
    BY <2>1, <2>3, <2>4 DEF Noted
<1>22. ASSUME Sound(h)' PROVE (Fresh(h) /\ Turns(h) /\ Known(h) /\ Rescue(h) /\ Taken(h))'
  <2>1. h \notin crossed /\ \A c \in B!Keys : ~(c[1] = h /\ snap.pending[c] > 0)
    BY <1>1, <1>22 DEF Sound
  <2>2. ~Pending(h) /\ ~(snap.pending[k] > 0)
    <3>1. k[1] = h
      OBVIOUS
    <3> HIDE DEF k
    <3>2. ~(snap.pending[k] > 0)
      BY <1>9, <2>1, <3>1
    <3> QED
      BY <2>1, <3>2, PendingKey DEF BoxInv
  <2>3. Sound(h)
    BY <1>1, <2>1 DEF Sound
  <2>4. /\ \A i \in DOMAIN snap.queue : ~Of(snap.queue[i], h)
        /\ ~Of(worker, h)
        /\ B!Missing(h) => h \in passed
    BY <1>7, <2>2, <2>3, Forgotten
  <2>5. /\ \A fits : FreshIn(snap.queue, h, fits)
        /\ Alternates(snap.queue, h) /\ Led(snap.queue, h) /\ Ended(snap.queue, h)
        /\ ~Holds(snap.queue, "restore", h)
    BY <2>4, NoneOf
  <2>6. ~Holding("remove", h)' /\ ~Holding("restore", h)' /\ ~Taking(h)' /\ ~Giving(h)'
        /\ \A c \in worker'.key : c[1] # h
    BY <1>1, <2>4 DEF Of, Holding, Taking, Giving
  <2>7. "shutdown" \notin DOMAIN todo'
    BY <1>1 DEF BoxInv, Phases
  <2>8. B!Missing(h)' => h \in passed' /\ ~boxes[h].box
    BY <1>1, <1>5, <2>4 DEF B!Missing
  <2>9. Rescue(h)'
    BY <2>7, <2>8 DEF Rescue
  <2>10. Known(h)'
    BY <2>8 DEF Known
  <2>11. CASE takes
    <3>1. boxes[h].box /\ place = "tiled" /\ h \in snap'.disabled /\ snap'.tracked[h] = {t}
      BY <1>12, <1>13, <1>14, <2>2, <2>11
    <3>2. TakenAway(snap.queue, q2, h, t)
      <4>1. h \in DOMAIN tok /\ tok[h] = t
        BY <1>12, <2>11
      <4> HIDE DEF t
      <4>2. TakenAway(snap.queue, q2, h, tok[h])
        BY ONLY <1>2, <1>13, <4>1, RemoveAdded
      <4> QED
        BY <4>1, <4>2
    <3>3. Fresh(h)'
      <4>1. FreshIn(snap.queue, h, Fits(h))'
        <5> DEFINE fits == {0, boxes'[h].token}
        <5>1. t \in fits
          BY <1>8
        <5> HIDE DEF fits
        <5>2. FreshIn(q2, h, fits)
          BY <2>5, <3>2, <5>1 DEF TakenAway
        <5> QED
          BY <5>2 DEF q2, fits, Fits
      <4> QED
        BY <2>6, <4>1 DEF Fresh
    <3>4. Turns(h)'
      <4>1. Alternates(snap'.queue, h)
        BY <2>5, <3>2 DEF TakenAway, q2
      <4> QED
        BY <1>5, <2>6, <3>1, <4>1 DEF Turns
    <3>5. Taken(h)'
      <4>1. Last(snap'.queue, h, t)
        BY <3>2 DEF TakenAway, q2
      <4> HIDE DEF t
      <4>2. \E c \in snap'.tracked[h] : LastAsked(h, c)'
        BY <3>1, <4>1 DEF LastAsked
      <4> QED
        BY <2>6, <3>1, <4>2 DEF Taken
    <3> QED
      BY <2>9, <2>10, <3>3, <3>4, <3>5
  <2>12. CASE ~takes
    <3>1. snap' = snap /\ h \notin snap'.disabled
      BY <1>7, <1>10, <2>12 DEF takes
    <3>2. Fresh(h)'
      BY <2>5, <2>6, <3>1 DEF Fresh
    <3>3. Turns(h)'
      BY <2>5, <2>6, <3>1 DEF Turns
    <3>4. ~Pending(h)'
      BY <2>5, <2>6, <3>1 DEF Pending
    <3>5. Taken(h)'
      BY <1>1, <1>5, <1>6, <1>15, <2>6, <2>12, <3>1, <3>4 DEF Taken
    <3> QED
      BY <2>9, <2>10, <3>2, <3>3, <3>5
  <2> QED
    BY <2>11, <2>12
<1>23. \A x \in BoxHandles : OneBox(x)'
  <2>1. OneBox(h)'
    BY <1>21, <1>22 DEF OneBox
  <2> QED
    BY <1>20, <2>1
<1> QED
  BY <1>16, <1>17, <1>18, <1>19, <1>23 DEF BoxInv

(***************************************************************************)
(* The rescuers.                                                           *)
(***************************************************************************)
LEMMA InHandIs ==
    ASSUME Hand, NEW h
    PROVE  /\ Of(worker, h) <=> Taking(h) \/ Giving(h)
           /\ Of(worker, h) <=> \E k \in snap.published : k[1] = h
<1>1. CASE worker.at = "idle"
  BY <1>1 DEF Hand, B!Idle, Of, Taking, Giving, Holding
<1>2. CASE worker.at # "idle"
  BY <1>2 DEF Hand, Of, Taking, Giving, Holding
<1> QED
  BY <1>1, <1>2

\* What a rescuer finds in the tables.
LEMMA EntriesAre ==
    ASSUME BoxInv, NEW h \in BoxHandles, Sound(h), snap.tracked[h] # {} \/ Pending(h)
    PROVE  Of(worker, h) \/ \E t \in Fits(h) : <<h, t>> \in B!Entries
<1>1. PICK k \in B!Keys : k[1] = h /\ k[2] \in Fits(h) /\ (B!Tracked(k) \/ snap.pending[k] > 0)
  <2>1. CASE snap.tracked[h] # {}
    <3>1. PICK t \in Fits(h) : snap.tracked[h] = {t}
      BY <2>1 DEF BoxInv, OneBox, Noted
    <3>2. t \in 0..MaxTokens
      <4>1. snap.tracked[h] \subseteq 0..MaxTokens
        BY SnapTypes DEF BoxInv
      <4> QED
        BY <3>1, <4>1
    <3> DEFINE k == <<h, t>>
    <3>3. k \in B!Keys /\ k[1] = h /\ k[2] = t
      BY <3>2 DEF B!Keys
    <3> HIDE DEF k
    <3> QED
      BY <3>1, <3>3 DEF B!Tracked
  <2>2. CASE Pending(h)
    <3>1. Fresh(h)
      BY DEF BoxInv, OneBox
    <3>2. PICK k \in B!Keys : k[1] = h /\ snap.pending[k] > 0 /\ k[2] = boxes[h].token
      BY <2>2, <3>1, PendingKey DEF BoxInv
    <3> QED
      BY <3>2 DEF Fits
  <2> QED
    BY <2>1, <2>2
<1>2. CASE k \in snap.published
  BY <1>1, <1>2, InHandIs DEF BoxInv
<1>3. CASE k \notin snap.published
  <2>1. k \in B!Entries /\ k = <<h, k[2]>>
    BY <1>1, <1>3, KeyIs DEF B!Entries
  <2> QED
    BY <1>1, <2>1
<1> QED
  BY <1>2, <1>3

\* A rescuer starts, with what it finds.
LEMMA StartKeeps ==
    ASSUME BoxInv, NEW r \in B!Rescuers, r \notin DOMAIN todo, phase # "done",
           todo' = [s \in DOMAIN todo \cup {r} |-> IF s = r THEN B!Entries ELSE todo[s]],
           UNCHANGED <<boxes, home, worker, paused, crossed, passed>>,
           snap' \in Tables, snap'.queue = snap.queue, snap'.disabled = snap.disabled,
           snap'.pending = snap.pending, snap'.published = snap.published,
           \A h \in BoxHandles : snap'.tracked[h] \in {{}, snap.tracked[h]},
           late \subseteq late',
           r = "fallback" => \A k \in snap.published : k[1] \in late',
           IF r = "shutdown" THEN phase = "waiting" /\ phase' = "rescuing" ELSE phase' = phase
    PROVE  BoxInv'
<1>1. /\ DOMAIN todo' = DOMAIN todo \cup {r} /\ todo'[r] = B!Entries
      /\ \A s \in DOMAIN todo : s # r /\ todo'[s] = todo[s]
  OBVIOUS
<1>2. BoxTypes'
  <2>1. B!Entries \subseteq B!Keys
    BY DEF B!Entries
  <2> QED
    BY <1>1, <2>1 DEF BoxInv, BoxTypes
<1>3. Hand'
  BY DEF BoxInv, Hand
<1>4. Accounts'
  BY DEF BoxInv, Accounts, InWork
<1>5. Phases'
  BY <1>1 DEF BoxInv, Phases
<1>6. ASSUME NEW h \in BoxHandles PROVE OneBox(h)'
  <2>1. OneBox(h) /\ Hand
    BY DEF BoxInv
  <2>2. /\ \A op \in AskKinds : Holding(op, h)' <=> Holding(op, h)
        /\ Taking(h)' <=> Taking(h)
        /\ Giving(h)' <=> Giving(h)
        /\ Pending(h)' <=> Pending(h)
    BY DEF Holding, Taking, Giving, Pending
  <2>3. (Sound(h)' <=> Sound(h)) /\ Fits(h)' = Fits(h) /\ (B!Missing(h)' <=> B!Missing(h))
    BY DEF Sound, Fits, B!Missing
  <2>4. Noted(h)'
    <3>1. r = "shutdown" => h \notin snap.disabled
      BY <2>1 DEF OneBox, Noted
    <3>2. snap'.tracked[h] # {} => snap'.tracked[h] = snap.tracked[h]
      OBVIOUS
    <3> QED
      BY <2>1, <2>3, <3>1, <3>2 DEF OneBox, Noted
  <2>5. ASSUME Sound(h) PROVE (Fresh(h) /\ Turns(h) /\ Known(h) /\ Rescue(h) /\ Taken(h))'
    <3>1. Fresh(h) /\ Turns(h) /\ Known(h) /\ Rescue(h)
      BY <2>1, <2>5 DEF OneBox
    <3>2. Fresh(h)'
      BY <2>2, <2>3, <3>1 DEF Fresh
    <3>3. Turns(h)'
      BY <2>2, <3>1 DEF Turns, AskKinds
    <3>4. Left(h) => Left(h)'
      BY <1>1, <2>3 DEF Left, ListedBy
    <3>5. snap.tracked[h] # {} \/ Pending(h) => Of(worker, h) \/ (ListedBy(r, h)' /\ Left(h)')
      BY <1>1, <2>3, <2>5, EntriesAre DEF Left, ListedBy
    <3>6. Of(worker, h) <=> Taking(h) \/ Giving(h)
      BY <2>1, InHandIs
    <3>7. Giving(h) => Pending(h)
      BY DEF Pending
    <3>8. Known(h)'
      BY <2>2, <2>3, <3>1, <3>4, <3>5, <3>6, <3>7 DEF Known
    <3>9. Rescue(h)'
      <4>1. ASSUME "shutdown" \in DOMAIN todo', B!Missing(h)
            PROVE  h \in passed \/ Taking(h) \/ Giving(h) \/ ListedBy("shutdown", h)'
        <5>1. CASE r = "shutdown"
          <6>1. h \notin snap.disabled
            BY <2>1, <5>1 DEF OneBox, Noted
          <6> QED
            BY <3>1, <3>5, <3>6, <4>1, <5>1, <6>1 DEF Known
        <5>2. CASE r # "shutdown"
          <6>1. "shutdown" \in DOMAIN todo /\ todo'["shutdown"] = todo["shutdown"]
            BY <1>1, <4>1, <5>2
          <6> QED
            BY <2>3, <3>1, <4>1, <6>1 DEF Rescue, ListedBy
        <5> QED
          BY <5>1, <5>2
      <4>2. ASSUME "fallback" \in DOMAIN todo', B!Missing(h)
            PROVE  h \in passed \cup late' \/ Left(h)'
        <5>1. CASE r = "fallback"
          <6>1. Of(worker, h) => h \in late'
            BY <2>1, <5>1, InHandIs
          <6> QED
            BY <3>1, <3>4, <3>5, <3>6, <4>2, <6>1 DEF Known
        <5>2. CASE r # "fallback"
          BY <1>1, <3>1, <3>4, <4>2, <5>2 DEF Rescue
        <5> QED
          BY <5>1, <5>2
      <4> QED
        BY <2>2, <2>3, <4>1, <4>2 DEF Rescue
    <3>10. Taken(h)'
      BY <1>1 DEF Taken
    <3> QED
      BY <3>2, <3>3, <3>8, <3>9, <3>10
  <2> QED
    BY <2>3, <2>4, <2>5 DEF OneBox
<1> QED
  BY <1>2, <1>3, <1>4, <1>5, <1>6 DEF BoxInv

LEMMA Drained ==
    ASSUME BoxInv, snap' = [snap EXCEPT !.tracked = [h \in BoxHandles |-> {}]]
    PROVE  /\ snap' \in Tables /\ snap'.queue = snap.queue /\ snap'.disabled = snap.disabled
           /\ snap'.pending = snap.pending /\ snap'.published = snap.published
           /\ \A h \in BoxHandles : snap'.tracked[h] \in {{}, snap.tracked[h]}
<1>1. snap \in Tables
  BY DEF BoxInv, BoxTypes
<1>2. [h \in BoxHandles |-> {}] \in [BoxHandles -> SUBSET (0..MaxTokens)]
  OBVIOUS
<1> QED
  BY <1>1, <1>2 DEF Tables

LEMMA RescuersStart ==
    ASSUME BoxInv, B!SessionEnd \/ B!GiveUp \/ B!Fallback
    PROVE  BoxInv'
<1>1. CASE B!SessionEnd
  <2>1. /\ "session end" \in B!Rescuers /\ "session end" \notin DOMAIN todo /\ phase # "done"
        /\ todo' = [s \in DOMAIN todo \cup {"session end"} |-> IF s = "session end" THEN B!Entries ELSE todo[s]]
        /\ snap' = [snap EXCEPT !.tracked = [h \in BoxHandles |-> {}]]
        /\ UNCHANGED <<boxes, home, worker, paused, crossed, passed>> /\ late' = late /\ phase' = phase
    BY <1>1 DEF B!SessionEnd, B!Drain, B!Running, B!Started, B!Rescuers
  <2>2. /\ snap' \in Tables /\ snap'.queue = snap.queue /\ snap'.disabled = snap.disabled
        /\ snap'.pending = snap.pending /\ snap'.published = snap.published
        /\ \A h \in BoxHandles : snap'.tracked[h] \in {{}, snap.tracked[h]}
    BY <2>1, Drained
  <2> QED
    BY <2>1, <2>2, StartKeeps
<1>2. CASE B!GiveUp
  <2>1. /\ "shutdown" \in B!Rescuers /\ "shutdown" \notin DOMAIN todo /\ phase = "waiting" /\ phase' = "rescuing"
        /\ todo' = [s \in DOMAIN todo \cup {"shutdown"} |-> IF s = "shutdown" THEN B!Entries ELSE todo[s]]
        /\ snap' = [snap EXCEPT !.tracked = [h \in BoxHandles |-> {}]]
        /\ UNCHANGED <<boxes, home, worker, paused, crossed, passed>> /\ late' = late
    BY <1>2 DEF B!GiveUp, B!Drain, B!Rescuers, BoxInv, Phases
  <2>2. /\ snap' \in Tables /\ snap'.queue = snap.queue /\ snap'.disabled = snap.disabled
        /\ snap'.pending = snap.pending /\ snap'.published = snap.published
        /\ \A h \in BoxHandles : snap'.tracked[h] \in {{}, snap.tracked[h]}
    BY <2>1, Drained
  <2> QED
    BY <2>1, <2>2, StartKeeps
<1>3. CASE B!Fallback
  <2>1. /\ "fallback" \in B!Rescuers /\ "fallback" \notin DOMAIN todo /\ phase # "done"
        /\ todo' = [s \in DOMAIN todo \cup {"fallback"} |-> IF s = "fallback" THEN B!Entries ELSE todo[s]]
        /\ snap' = snap /\ late' = late \cup {k[1] : k \in snap.published}
        /\ UNCHANGED <<boxes, home, worker, paused, crossed, passed>> /\ phase' = phase
    BY <1>3 DEF B!Fallback, B!Running, B!Started, B!Rescuers
  <2>2. snap' \in Tables /\ late \subseteq late' /\ \A k \in snap.published : k[1] \in late'
    BY <2>1 DEF BoxInv, BoxTypes
  <2> QED
    BY <2>1, <2>2, StartKeeps
<1> QED
  BY <1>1, <1>2, <1>3

\* A window off its list has its box, or a silent owner, or is not the one
\* listed.
LEMMA VisitKeeps ==
    ASSUME BoxInv, NEW r \in B!Rescuers, B!Visit(r)
    PROVE  BoxInv'
<1>1. r \in DOMAIN todo /\ phase # "done"
      /\ UNCHANGED <<home, snap, worker, paused, phase, crossed, late>>
  BY DEF B!Visit, B!Waits, B!Started, B!Running
<1>2. PICK k \in todo[r] :
         /\ todo' = [todo EXCEPT ![r] = @ \ {k}]
         /\ \/ /\ B!Matches(k) /\ ~boxes[k[1]].box
               /\ \/ boxes' = [boxes EXCEPT ![k[1]].box = TRUE] /\ passed' = passed
                  \/ passed' = passed \cup {k[1]} /\ boxes' = boxes
            \/ ~(B!Matches(k) /\ ~boxes[k[1]].box) /\ boxes' = boxes /\ passed' = passed
  BY DEF B!Visit
<1>3. /\ k \in B!Keys /\ k[1] \in BoxHandles
      /\ boxes \in [BoxHandles -> B!Window]
      /\ \A s \in DOMAIN todo : todo[s] \subseteq B!Keys
      /\ DOMAIN todo \subseteq B!Rescuers
  <2>1. /\ boxes \in [BoxHandles -> B!Window]
        /\ \A s \in DOMAIN todo : todo[s] \subseteq B!Keys
        /\ DOMAIN todo \subseteq B!Rescuers
    BY DEF BoxInv, BoxTypes
  <2>2. k \in B!Keys
    BY <1>1, <2>1
  <2> QED
    BY <2>1, <2>2, KeyIs
<1>4. DOMAIN todo' = DOMAIN todo /\ todo'[r] = todo[r] \ {k}
      /\ \A s \in DOMAIN todo \ {r} : todo'[s] = todo[s]
  <2>1. \A s \in DOMAIN todo : todo'[s] = IF s = r THEN todo[r] \ {k} ELSE todo[s]
    BY <1>2
  <2> QED
    BY <1>1, <1>2, <2>1
<1>5. /\ boxes' \in [BoxHandles -> B!Window]
      /\ \A h \in BoxHandles : /\ boxes'[h].live = boxes[h].live /\ boxes'[h].native = boxes[h].native
                               /\ boxes'[h].token = boxes[h].token /\ (boxes[h].box => boxes'[h].box)
                               /\ h # k[1] => boxes'[h] = boxes[h]
  <2>1. CASE boxes' = boxes
    BY <1>3, <2>1
  <2>2. CASE boxes' = [boxes EXCEPT ![k[1]].box = TRUE]
    <3> DEFINE b == boxes[k[1]]
               c == [b EXCEPT !.box = TRUE]
    <3>1. b \in B!Window
      BY <1>3
    <3> HIDE DEF b
    <3>2. c \in B!Window /\ c.live = b.live /\ c.native = b.native /\ c.token = b.token /\ c.box
      BY <3>1 DEF B!Window
    <3> HIDE DEF c
    <3>3. boxes' = [boxes EXCEPT ![k[1]] = c]
      BY <2>2 DEF b, c
    <3> QED
      BY <1>3, <3>2, <3>3 DEF b
  <2> QED
    BY <1>2, <2>1, <2>2
<1>6. BoxTypes'
  BY <1>1, <1>3, <1>4, <1>5 DEF BoxInv, BoxTypes
<1>7. Hand'
  BY <1>1 DEF BoxInv, Hand
<1>8. Accounts'
  BY <1>1 DEF BoxInv, Accounts, InWork
<1>9. Phases'
  BY <1>1, <1>4 DEF BoxInv, Phases
<1>10. ASSUME NEW h \in BoxHandles PROVE OneBox(h)'
  <2>1. OneBox(h)
    BY DEF BoxInv
  <2>2. /\ \A op \in AskKinds : Holding(op, h)' <=> Holding(op, h)
        /\ Taking(h)' <=> Taking(h)
        /\ Giving(h)' <=> Giving(h)
        /\ Pending(h)' <=> Pending(h)
    BY <1>1 DEF Holding, Taking, Giving, Pending
  <2>3. (Sound(h)' <=> Sound(h)) /\ Fits(h)' = Fits(h) /\ (B!Missing(h)' => B!Missing(h))
    BY <1>1, <1>5 DEF Sound, Fits, B!Missing
  <2>4. Noted(h)'
    BY <1>1, <1>5, <2>1, <2>3 DEF OneBox, Noted
  <2>5. ASSUME Sound(h) PROVE (Fresh(h) /\ Turns(h) /\ Known(h) /\ Rescue(h) /\ Taken(h))'
    <3>1. Fresh(h) /\ Turns(h) /\ Known(h) /\ Rescue(h)
      BY <2>1, <2>5 DEF OneBox
    <3>2. Fresh(h)'
      BY <1>1, <2>2, <2>3, <3>1 DEF Fresh
    <3>3. Turns(h)'
      BY <1>1, <1>5, <2>2, <3>1 DEF Turns, AskKinds
    <3>4. B!Missing(h)' => h \in passed' \/ (\A t \in Fits(h) : k # <<h, t>>)
      <4> SUFFICES ASSUME B!Missing(h)', NEW t \in Fits(h), k = <<h, t>> PROVE h \in passed'
        OBVIOUS
      <4>1. k[1] = h /\ k[2] = t
        BY ONLY k = <<h, t>>
      <4>2. ~boxes[h].box /\ ~boxes'[h].box /\ boxes[h].live
        BY <2>3 DEF B!Missing
      <4>3. B!Matches(k)
        BY <4>1, <4>2 DEF B!Matches, Fits
      <4>4. boxes' # [boxes EXCEPT ![k[1]].box = TRUE]
        <5> SUFFICES ASSUME boxes' = [boxes EXCEPT ![k[1]].box = TRUE] PROVE FALSE
          OBVIOUS
        <5>1. boxes'[h] = [boxes[h] EXCEPT !.box = TRUE] /\ boxes[h] \in B!Window
          BY <1>3, <4>1
        <5> QED
          BY <4>2, <5>1 DEF B!Window
      <4> QED
        BY <1>2, <4>1, <4>2, <4>3, <4>4
    <3>5. passed \subseteq passed'
      BY <1>2
    <3>6. ASSUME NEW s \in DOMAIN todo, ListedBy(s, h), B!Missing(h)'
          PROVE  ListedBy(s, h)' \/ h \in passed'
      <4>1. PICK t \in Fits(h) : <<h, t>> \in todo[s]
        BY <3>6 DEF ListedBy
      <4>2. <<h, t>> # k => <<h, t>> \in todo'[s]
        BY <1>4, <4>1
      <4> QED
        BY <2>3, <3>4, <3>6, <4>1, <4>2 DEF ListedBy
    <3>7. B!Missing(h)' => (Left(h) => Left(h)' \/ h \in passed')
      BY <1>4, <3>6 DEF Left
    <3>8. Known(h)'
      BY <1>1, <2>2, <2>3, <3>1, <3>5, <3>7 DEF Known
    <3>9. Rescue(h)'
      BY <1>1, <1>4, <2>2, <2>3, <3>1, <3>5, <3>6, <3>7 DEF Rescue
    <3>10. Taken(h)'
      BY <1>1, <1>4 DEF Taken
    <3> QED
      BY <3>2, <3>3, <3>8, <3>9, <3>10
  <2> QED
    BY <2>3, <2>4, <2>5 DEF OneBox
<1> QED
  BY <1>6, <1>7, <1>8, <1>9, <1>10 DEF BoxInv

LEMMA SameIs ==
    ASSUME NEW q, NEW h
    PROVE  SameAbout(q, q, h)
BY DEF SameAbout

LEMMA RescuedKeeps ==
    ASSUME BoxInv, B!Rescued
    PROVE  BoxInv'
<1>1. /\ phase = "rescuing" /\ phase' = "done" /\ ("shutdown" \in DOMAIN todo => todo["shutdown"] = {})
      /\ UNCHANGED <<boxes, home, snap, worker, paused, todo, passed, crossed, late>>
  BY DEF B!Rescued, B!Waits, B!Started
<1>2. BoxTypes' /\ Hand' /\ Accounts' /\ Phases'
  BY <1>1 DEF BoxInv, BoxTypes, Hand, Accounts, InWork, Phases
<1>3. ASSUME NEW h \in BoxHandles PROVE OneBox(h)'
  <2>1. OneBox(h) /\ Alone(h) /\ Steady(h)
    BY <1>1 DEF BoxInv, Alone, Steady
  <2>2. h \notin snap.disabled /\ (home[h] # "out" => boxes[h].live /\ boxes[h].token # 0)
    BY <1>1, <2>1 DEF OneBox, Noted
  <2>3. SameAbout(snap.queue, snap'.queue, h)
    BY <1>1, SameIs
  <2> QED
    BY <1>1, <2>1, <2>2, <2>3, Rests
<1> QED
  BY <1>2, <1>3 DEF BoxInv

LEMMA CloseKeeps ==
    ASSUME BoxInv, NEW h \in BoxHandles, B!Close(h)
    PROVE  BoxInv'
<1>1. /\ home[h] = "out" /\ boxes[h].live /\ phase # "done"
      /\ boxes' = [boxes EXCEPT ![h].live = FALSE, ![h].box = FALSE]
      /\ UNCHANGED <<home, snap, worker, paused, phase, todo, passed, crossed, late>>
  BY DEF B!Close, B!Running, B!Managed
<1>2. /\ boxes' \in [BoxHandles -> B!Window] /\ ~boxes'[h].live /\ boxes'[h].token = boxes[h].token
      /\ \A x \in BoxHandles \ {h} : boxes'[x] = boxes[x]
  <2> DEFINE b == boxes[h]
             c == [[b EXCEPT !.live = FALSE] EXCEPT !.box = FALSE]
  <2>1. boxes \in [BoxHandles -> B!Window] /\ b \in B!Window
    BY DEF BoxInv, BoxTypes
  <2> HIDE DEF b
  <2>2. c \in B!Window /\ ~c.live /\ c.token = b.token
    BY <2>1 DEF B!Window
  <2>3. boxes' = [boxes EXCEPT ![h] = c]
    BY <1>1, <2>1 DEF b, c
  <2> HIDE DEF c
  <2> QED
    BY <2>1, <2>2, <2>3 DEF b
<1>3. BoxTypes' /\ Hand' /\ Accounts' /\ Phases'
  BY <1>1, <1>2 DEF BoxInv, BoxTypes, Hand, Accounts, InWork, Phases
<1>4. ASSUME NEW x \in BoxHandles, x # h PROVE OneBox(x)'
  <2>1. OneBox(x) /\ Alone(x) /\ Steady(x)
    BY <1>1, <1>2, <1>4 DEF BoxInv, Alone, Steady
  <2>2. SameAbout(snap.queue, snap'.queue, x)
    BY <1>1, SameIs
  <2> QED
    BY <1>1, <2>1, <2>2, Rests
<1>5. OneBox(h)'
  BY <1>1, <1>2 DEF BoxInv, OneBox, Noted, Sound, Fits
<1> QED
  BY <1>3, <1>4, <1>5 DEF BoxInv

(***************************************************************************)
(* The worker.                                                             *)
(***************************************************************************)
LEMMA JobIs ==
    ASSUME BoxInv, worker.at # "idle"
    PROVE  /\ B!Job \in B!Keys /\ B!Job[1] \in BoxHandles
           /\ worker.key = {B!Job} /\ snap.published = {B!Job}
           /\ worker.op \in {{"remove"}, {"restore"}}
           /\ B!Doing("remove") <=> worker.op = {"remove"}
           /\ B!Doing("restore") <=> worker.op = {"restore"}
           /\ worker.undo \in BOOLEAN /\ (worker.undo => worker.op = {"restore"})
           /\ \A h : Of(worker, h) <=> h = B!Job[1]
<1>1. PICK k \in B!Keys : worker.key = {k}
  BY DEF BoxInv, Hand
<1>2. B!Job = k
  BY <1>1 DEF B!Job
<1>3. /\ snap.published = worker.key /\ worker.op \in {{"remove"}, {"restore"}}
      /\ worker.undo \in BOOLEAN /\ (worker.undo => worker.op = {"restore"})
  BY SnapTypes DEF BoxInv, Hand
<1>4. \A h : Of(worker, h) <=> h = k[1]
  BY <1>1 DEF Of
<1> QED
  BY <1>1, <1>2, <1>3, <1>4, KeyIs DEF B!Doing

LEMMA AtJob ==
    ASSUME BoxInv, worker.at # "idle", NEW h, h = B!Job[1]
    PROVE  /\ \A op : Holding(op, h) <=> worker.op = {op}
           /\ Taking(h) <=> worker.op = {"remove"} \/ worker.undo
           /\ Giving(h) <=> worker.op = {"restore"} /\ ~worker.undo
<1>1. worker.key = {B!Job} /\ (worker.undo => worker.op = {"restore"})
  BY JobIs
<1>2. \A op : Holding(op, h) <=> worker.op = {op}
  BY <1>1 DEF Holding
<1> QED
  BY <1>1, <1>2 DEF Taking, Giving

\* The worker is done with its request.
Resting ==
    /\ worker.at # "idle" /\ phase # "done" /\ worker' = B!Idle
    /\ UNCHANGED <<boxes, home, paused, phase, todo, passed, crossed, late>>
LEMMA FinishKeeps ==
    ASSUME BoxInv, Resting, NEW s, snap' = B!Retired(s),
           \/ s = snap
           \/ s = [snap EXCEPT !.tracked[B!Job[1]] = @ \ {B!Job[2]}]
    PROVE  /\ BoxTypes' /\ Hand' /\ Accounts' /\ Phases'
           /\ \A h \in BoxHandles : h # B!Job[1] => OneBox(h)'
           /\ snap'.queue = snap.queue /\ snap'.disabled = snap.disabled
           /\ snap'.tracked = s.tracked
<1> DEFINE k == B!Job
           giving == worker.op = {"restore"} /\ ~worker.undo
<1>1. /\ k \in B!Keys /\ k[1] \in BoxHandles /\ worker.key = {k}
      /\ B!Doing("restore") <=> worker.op = {"restore"}
      /\ \A h : Of(worker, h) <=> h = k[1]
  BY JobIs DEF Resting
<1>2. /\ snap \in Tables /\ snap.queue \in Seq(Asks) /\ snap.pending \in [B!Keys -> Nat]
      /\ snap.tracked \in [BoxHandles -> SUBSET (0..MaxTokens)] /\ BoxTypes
  BY SnapTypes DEF BoxInv, BoxTypes
<1> DEFINE trk == s.tracked
<1>3. /\ s = [snap EXCEPT !.tracked = trk] /\ trk \in [BoxHandles -> SUBSET (0..MaxTokens)]
      /\ \A h \in BoxHandles : h # k[1] => trk[h] = snap.tracked[h]
  <2> HIDE DEF k
  <2>1. CASE s = snap
    BY <1>2, <2>1 DEF Tables
  <2>2. CASE s = [snap EXCEPT !.tracked[k[1]] = @ \ {k[2]}]
    <3>1. trk = [snap.tracked EXCEPT ![k[1]] = @ \ {k[2]}] /\ s = [snap EXCEPT !.tracked = trk]
      BY <1>2, <2>2 DEF Tables
    <3> QED
      BY <1>1, <1>2, <3>1
  <2> QED
    BY <2>1, <2>2 DEF k
<1> HIDE DEF trk
<1>4. snap' = [[snap EXCEPT !.tracked = trk] EXCEPT !.published = {},
                    !.pending[k] = IF giving THEN @ - 1 ELSE @]
  BY <1>1, <1>3 DEF B!Retired
<1> DEFINE pend == [snap.pending EXCEPT ![k] = IF giving THEN @ - 1 ELSE @]
<1> HIDE DEF k, giving
<1>5. /\ snap'.queue = snap.queue /\ snap'.disabled = snap.disabled /\ snap'.tracked = trk
      /\ snap'.pending = pend /\ snap'.published = {}
      /\ snap' = [disabled |-> snap'.disabled, tracked |-> snap'.tracked, pending |-> snap'.pending,
                  published |-> snap'.published, queue |-> snap'.queue]
  BY <1>2, <1>4 DEF Tables
<1>6. \A c \in B!Keys : InWork(c) = (IF c = k /\ giving THEN 1 ELSE 0) /\ InWork(c)' = 0
  BY <1>1 DEF InWork, Resting, B!Idle, giving
<1>7. \A c \in B!Keys : Cardinality(Waiting(snap.queue, c)) \in Nat
                        /\ snap.pending[c] = Cardinality(Waiting(snap.queue, c)) + InWork(c)
  BY <1>2, FinitelyWaiting DEF BoxInv, Accounts
<1>8. \A c \in B!Keys : pend[c] = Cardinality(Waiting(snap.queue, c))
  <2> SUFFICES ASSUME NEW c \in B!Keys PROVE pend[c] = Cardinality(Waiting(snap.queue, c))
    OBVIOUS
  <2> DEFINE n == Cardinality(Waiting(snap.queue, c))
  <2>1. n \in Nat /\ snap.pending[c] = n + (IF c = k /\ giving THEN 1 ELSE 0)
    BY <1>6, <1>7
  <2>2. pend[c] = IF c = k /\ giving THEN snap.pending[c] - 1 ELSE snap.pending[c]
    BY <1>2
  <2> HIDE DEF n, pend
  <2> QED
    BY <2>1, <2>2 DEF n
<1>9. pend \in [B!Keys -> Nat]
  <2>1. DOMAIN pend = B!Keys /\ pend = [c \in B!Keys |-> pend[c]]
    BY <1>2
  <2> HIDE DEF pend
  <2> QED
    BY <1>7, <1>8, <2>1
<1> HIDE DEF pend
<1>10. snap' \in Tables
  BY <1>2, <1>3, <1>5, <1>9 DEF Tables
<1>11. BoxTypes'
  BY <1>2, <1>10 DEF BoxTypes, Resting, B!Idle
<1>12. Hand'
  BY <1>5 DEF Hand, Resting, B!Idle
<1>13. Accounts'
  <2> SUFFICES ASSUME NEW c \in B!Keys
               PROVE  snap'.pending[c] = Cardinality(Waiting(snap'.queue, c)) + InWork(c)'
    BY DEF Accounts
  <2>1. Cardinality(Waiting(snap.queue, c)) \in Nat
    BY <1>7
  <2> QED
    BY <1>5, <1>6, <1>8, <2>1
<1>14. Phases'
  BY <1>5 DEF BoxInv, Phases, Resting
<1>15. ASSUME NEW h \in BoxHandles, h # k[1] PROVE OneBox(h)'
  <2>1. OneBox(h) /\ Alone(h)
    BY DEF BoxInv, Alone, Resting
  <2>2. Steady(h)
    BY <1>1, <1>15 DEF Steady, Resting, B!Idle, Of
  <2>3. SameAbout(snap.queue, snap'.queue, h)
    BY <1>5, SameIs
  <2>4. /\ h \in snap'.disabled <=> h \in snap.disabled
        /\ snap'.tracked[h] = snap.tracked[h]
        /\ home'[h] = home[h] /\ phase' = phase /\ paused' = paused
    BY <1>3, <1>5, <1>15 DEF Resting
  <2> QED
    BY <2>1, <2>2, <2>3, <2>4, Rests
<1> QED
  BY <1>5, <1>11, <1>12, <1>13, <1>14, <1>15 DEF k, trk

\* It has nothing in hand, then: the box of its window is there, or taken as
\* the daemon still wants it.
LEMMA FinishOne ==
    ASSUME BoxInv, Resting, NEW h \in BoxHandles, h = B!Job[1],
           snap'.queue = snap.queue, snap'.disabled = snap.disabled,
           snap'.tracked[h] \subseteq snap.tracked[h],
           Sound(h) => /\ snap'.tracked[h] = snap.tracked[h]
                       /\ worker.op = {"remove"} /\ B!Tracked(B!Job) => worker.at = "frame"
                       /\ ~boxes[h].box => /\ worker.op = {"remove"} /\ worker.at = "frame"
                                           /\ B!Tracked(B!Job)
    PROVE  OneBox(h)'
<1>1. OneBox(h) /\ Phases /\ worker.at # "idle"
  BY DEF BoxInv, Resting
<1>2. /\ \A op : Holding(op, h) <=> worker.op = {op}
      /\ Taking(h) <=> worker.op = {"remove"} \/ worker.undo
      /\ Giving(h) <=> worker.op = {"restore"} /\ ~worker.undo
      /\ worker.op \in {{"remove"}, {"restore"}} /\ worker.key = {B!Job}
      /\ worker.undo => worker.op = {"restore"}
  BY <1>1, AtJob, JobIs
<1>3. /\ ~Holding("remove", h)' /\ ~Holding("restore", h)' /\ ~Taking(h)' /\ ~Giving(h)'
      /\ worker'.key = {} /\ worker'.at = "idle"
  BY DEF Resting, B!Idle, Holding, Taking, Giving
<1>4. (Sound(h)' <=> Sound(h)) /\ Fits(h)' = Fits(h) /\ (B!Missing(h)' <=> B!Missing(h))
      /\ (Left(h)' <=> Left(h)) /\ boxes' = boxes
  BY DEF Resting, Sound, Fits, B!Missing, Left, ListedBy
<1>5. Noted(h)'
  <2>1. ASSUME snap'.tracked[h] # {} PROVE snap'.tracked[h] = snap.tracked[h] /\ snap.tracked[h] # {}
    BY <1>1, <2>1 DEF OneBox, Noted
  <2> QED
    BY <1>1, <1>4, <2>1 DEF OneBox, Noted, Resting
<1>6. ASSUME Sound(h) PROVE (Fresh(h) /\ Turns(h) /\ Known(h) /\ Rescue(h) /\ Taken(h))'
  <2>1. Fresh(h) /\ Turns(h) /\ Known(h) /\ Rescue(h) /\ Taken(h)
    BY <1>1, <1>6 DEF OneBox
  <2>2. B!Tracked(B!Job) <=> B!Job[2] \in snap.tracked[h]
    BY DEF B!Tracked
  <2>3. ~boxes[h].box => h \in snap.disabled /\ snap.tracked[h] # {} /\ phase = "up"
    BY <1>1, <1>6, <2>2 DEF OneBox, Noted
  <2>4. Fresh(h)'
    BY <1>3, <1>4, <2>1 DEF Fresh
  <2>5. Turns(h)'
    BY <1>2, <1>3, <1>4, <1>6, <2>1 DEF Turns
  <2>6. Known(h)'
    BY <1>4, <1>6, <2>3 DEF Known, B!Missing
  <2>7. Rescue(h)'
    BY <1>1, <1>4, <2>1, <2>3 DEF Rescue, B!Missing, Phases, Resting
  <2>8. Taken(h)'
    <3> SUFFICES ASSUME DOMAIN todo = {} PROVE Taken(h)'
      BY DEF Taken, Resting
    <3>1. phase' = "up" /\ ~paused' /\ home'[h] = "tiled" /\ h \notin snap'.disabled =>
             ~boxes'[h].box /\ ~Pending(h)'
      BY <1>3, <1>4, <2>1 DEF Taken, Pending, Resting
    <3>2. ASSUME h \in snap.disabled PROVE \E t \in snap'.tracked[h] : LastAsked(h, t)'
      <4>1. PICK t \in snap.tracked[h] : LastAsked(h, t)
        BY <2>1, <3>2 DEF Taken
      <4>2. CASE Last(snap.queue, h, t)
        BY <1>6, <4>1, <4>2 DEF LastAsked
      <4>3. CASE ~Holds(snap.queue, "restore", h) /\ Holding("remove", h) /\ worker.key = {<<h, t>>}
        <5>1. B!Job = <<h, t>>
          BY <1>2, <4>3
        <5>2. B!Tracked(B!Job) /\ worker.at = "frame"
          BY <1>2, <1>6, <2>2, <4>1, <4>3, <5>1
        <5>3. ~boxes[h].box
          BY <2>1, <4>3, <5>2 DEF Taken
        <5>4. LastAsked(h, t)'
          BY <1>3, <1>4, <4>3, <5>3 DEF LastAsked
        <5> QED
          BY <1>6, <4>1, <5>4
      <4> QED
        BY <1>2, <4>1, <4>2, <4>3 DEF LastAsked
    <3> QED
      BY <1>3, <3>1, <3>2 DEF Taken
  <2> QED
    BY <2>4, <2>5, <2>6, <2>7, <2>8
<1> QED
  BY <1>4, <1>5, <1>6 DEF OneBox

\* The worker goes on with its request, or undoes it.
Working ==
    /\ worker.at # "idle" /\ phase # "done" /\ snap' = snap
    /\ UNCHANGED <<home, paused, phase, todo, passed, crossed>> /\ late \subseteq late'
    /\ boxes' \in [BoxHandles -> B!Window]
    /\ \A h \in BoxHandles : h # B!Job[1] => boxes'[h] = boxes[h]
    /\ worker'.key = worker.key /\ worker'.at \in {"check", "write", "frame"}
    /\ worker' = [at |-> worker'.at, op |-> worker'.op, key |-> worker.key, undo |-> worker'.undo]
    /\ \/ worker'.op = worker.op /\ worker'.undo = worker.undo
       \/ worker.op = {"remove"} /\ worker'.op = {"restore"} /\ worker'.undo = TRUE

LEMMA WorkKeeps ==
    ASSUME BoxInv, Working
    PROVE  /\ BoxTypes' /\ Hand' /\ Accounts' /\ Phases'
           /\ \A h \in BoxHandles : h # B!Job[1] => OneBox(h)'
<1>1. /\ worker.op \in {{"remove"}, {"restore"}} /\ worker.undo \in BOOLEAN
      /\ worker.undo => worker.op = {"restore"}
      /\ \A h : Of(worker, h) <=> h = B!Job[1]
      /\ worker.key \subseteq B!Keys
  BY JobIs, SnapTypes DEF Working, BoxInv
<1>2. BoxTypes'
  <2>1. worker'.op \in SUBSET AskKinds /\ worker'.undo \in BOOLEAN
        /\ worker'.at \in {"idle", "check", "write", "frame"}
    BY <1>1 DEF Working, AskKinds
  <2>2. worker' \in [at : {"idle", "check", "write", "frame"}, op : SUBSET AskKinds,
                     key : SUBSET B!Keys, undo : BOOLEAN]
    BY <1>1, <2>1 DEF Working
  <2> QED
    BY <2>2 DEF BoxInv, BoxTypes, Working
<1>3. Hand'
  BY <1>1 DEF BoxInv, Hand, Working
<1>4. Accounts'
  <2>1. \A k \in B!Keys : InWork(k)' = InWork(k)
    BY <1>1 DEF InWork, Working
  <2> QED
    BY <2>1 DEF BoxInv, Accounts, Working
<1>5. Phases'
  BY DEF BoxInv, Phases, Working
<1>6. ASSUME NEW h \in BoxHandles, h # B!Job[1] PROVE OneBox(h)'
  <2>1. OneBox(h) /\ Alone(h)
    BY <1>6 DEF BoxInv, Alone, Working
  <2>2. Steady(h)
    BY <1>1, <1>6 DEF Steady, Working, Of
  <2>3. SameAbout(snap.queue, snap'.queue, h)
    BY SameIs DEF Working
  <2>4. /\ h \in snap'.disabled <=> h \in snap.disabled
        /\ snap'.tracked[h] = snap.tracked[h]
        /\ home'[h] = home[h] /\ phase' = phase /\ paused' = paused
    BY DEF Working
  <2> QED
    BY <2>1, <2>2, <2>3, <2>4, Rests
<1> QED
  BY <1>2, <1>3, <1>4, <1>5, <1>6

LEMMA CheckKeeps ==
    ASSUME BoxInv, B!Check
    PROVE  BoxInv'
<1>1. /\ worker.at = "check" /\ phase # "done"
      /\ UNCHANGED <<boxes, home, paused, phase, todo, passed, crossed, late>>
      /\ \/ /\ ~B!Matches(B!Job) /\ worker' = B!Idle
            /\ snap' = B!Retired(IF B!Doing("remove")
                                 THEN [snap EXCEPT !.tracked[B!Job[1]] = @ \ {B!Job[2]}] ELSE snap)
         \/ /\ B!Doing("remove") /\ ~B!Tracked(B!Job) /\ worker' = B!Idle
            /\ snap' = B!Retired(snap)
         \/ /\ ~(B!Doing("remove") /\ ~B!Tracked(B!Job))
            /\ worker' = [worker EXCEPT !.at = "write"] /\ snap' = snap
  BY DEF B!Check, B!Running, B!Finish, B!Elsewhere
<1>0. PICK h \in BoxHandles : h = B!Job[1]
  BY <1>1, JobIs
<1>2. /\ worker.key = {B!Job} /\ (B!Doing("remove") <=> worker.op = {"remove"})
      /\ (\A op : Holding(op, h) <=> worker.op = {op})
      /\ worker.op \in {{"remove"}, {"restore"}} /\ OneBox(h)
      /\ Taking(h) <=> worker.op = {"remove"} \/ worker.undo
      /\ Giving(h) <=> worker.op = {"restore"} /\ ~worker.undo
  BY <1>0, <1>1, JobIs, AtJob DEF BoxInv
<1>3. Sound(h) => B!Matches(B!Job) /\ (worker.op = {"remove"} => boxes[h].box)
  BY <1>0, <1>1, <1>2 DEF OneBox, Sound, Fresh, Fits, Turns, B!Matches
<1>4. CASE worker' = B!Idle
  <2>1. Resting
    BY <1>1, <1>4 DEF Resting
  <2>2. PICK s : /\ snap' = B!Retired(s)
                 /\ \/ s = snap /\ (Sound(h) => worker.op = {"remove"} /\ ~B!Tracked(B!Job))
                    \/ s = [snap EXCEPT !.tracked[B!Job[1]] = @ \ {B!Job[2]}] /\ ~Sound(h)
    <3>1. worker.at # "write"
      BY <1>1
    <3>2. worker' # [worker EXCEPT !.at = "write"]
      <4>1. worker \in [at : {"idle", "check", "write", "frame"}, op : SUBSET AskKinds,
                        key : SUBSET B!Keys, undo : BOOLEAN]
        BY DEF BoxInv, BoxTypes
      <4> QED
        BY <1>4, <4>1 DEF B!Idle
    <3> QED
      BY <1>1, <1>2, <1>3, <3>2
  <2>3. /\ BoxTypes' /\ Hand' /\ Accounts' /\ Phases'
        /\ \A x \in BoxHandles : x # B!Job[1] => OneBox(x)'
        /\ snap'.queue = snap.queue /\ snap'.disabled = snap.disabled
        /\ snap'.tracked = s.tracked
    BY <2>1, <2>2, FinishKeeps
  <2>4. snap'.tracked[h] \subseteq snap.tracked[h] /\ (Sound(h) => snap'.tracked[h] = snap.tracked[h])
    <3>1. snap \in Tables
      BY DEF BoxInv, BoxTypes
    <3>2. CASE s = snap
      BY <2>3, <3>2
    <3>3. CASE s = [snap EXCEPT !.tracked[B!Job[1]] = @ \ {B!Job[2]}] /\ ~Sound(h)
      <4>1. s.tracked[h] = snap.tracked[h] \ {B!Job[2]}
        BY <1>0, <3>1, <3>3 DEF Tables
      <4> QED
        BY <2>3, <3>3, <4>1
    <3> QED
      BY <2>2, <3>2, <3>3
  <2>5. OneBox(h)'
    <3>1. Sound(h) => worker.op = {"remove"} /\ ~B!Tracked(B!Job) /\ boxes[h].box
      BY <1>3, <2>2
    <3> QED
      BY <1>0, <2>1, <2>3, <2>4, <3>1, FinishOne
  <2> QED
    BY <1>0, <2>3, <2>5 DEF BoxInv
<1>5. CASE worker' = [worker EXCEPT !.at = "write"] /\ snap' = snap
  <2>1. /\ worker'.at = "write" /\ worker'.op = worker.op /\ worker'.key = worker.key
        /\ worker'.undo = worker.undo
        /\ worker' = [at |-> worker'.at, op |-> worker'.op, key |-> worker.key, undo |-> worker'.undo]
    BY <1>5 DEF BoxInv, BoxTypes
  <2>2. Working
    BY <1>1, <1>5, <2>1 DEF Working, BoxInv, BoxTypes
  <2>3. /\ BoxTypes' /\ Hand' /\ Accounts' /\ Phases'
        /\ \A x \in BoxHandles : x # B!Job[1] => OneBox(x)'
    BY <2>2, WorkKeeps
  <2>4. OneBox(h)'
    <3>1. /\ \A op : Holding(op, h)' <=> Holding(op, h)
          /\ Taking(h)' <=> Taking(h)
          /\ Giving(h)' <=> Giving(h)
          /\ Pending(h)' <=> Pending(h)
      BY <1>1, <1>5, <2>1 DEF Holding, Taking, Giving, Pending
    <3>2. (Sound(h)' <=> Sound(h)) /\ Fits(h)' = Fits(h) /\ (B!Missing(h)' <=> B!Missing(h))
          /\ (Left(h)' <=> Left(h)) /\ (ListedBy("shutdown", h)' <=> ListedBy("shutdown", h))
      BY <1>1 DEF Sound, Fits, B!Missing, Left, ListedBy
    <3>3. Noted(h)'
      BY <1>1, <1>2, <1>5, <3>2 DEF OneBox, Noted
    <3>4. ASSUME Fresh(h) PROVE Fresh(h)'
      BY <1>5, <2>1, <3>1, <3>2, <3>4 DEF Fresh
    <3>5. ASSUME Turns(h) PROVE Turns(h)'
      BY <1>1, <1>5, <2>1, <3>1, <3>5 DEF Turns
    <3>6. ASSUME Known(h) PROVE Known(h)'
      BY <1>1, <1>5, <3>1, <3>2, <3>6 DEF Known
    <3>7. ASSUME Rescue(h) PROVE Rescue(h)'
      BY <1>1, <1>5, <3>1, <3>2, <3>7 DEF Rescue
    <3>8. ASSUME Taken(h) PROVE Taken(h)'
      <4>1. \A t : LastAsked(h, t)' <=> LastAsked(h, t)
        BY <1>1, <1>5, <2>1, <3>1 DEF LastAsked
      <4> QED
        BY <1>1, <1>5, <2>1, <3>1, <3>8, <4>1 DEF Taken
    <3> QED
      BY <1>2, <3>2, <3>3, <3>4, <3>5, <3>6, <3>7, <3>8 DEF OneBox
  <2> QED
    BY <1>0, <2>3, <2>4 DEF BoxInv
<1> QED
  BY <1>1, <1>4, <1>5

LEMMA WriteKeeps ==
    ASSUME BoxInv, B!Write
    PROVE  BoxInv'
<1>1. /\ worker.at = "write" /\ phase # "done"
      /\ UNCHANGED <<home, paused, phase, todo, passed, crossed>>
      /\ \/ /\ boxes[B!Job[1]].live /\ boxes[B!Job[1]].box # B!Doing("restore")
            /\ boxes' = [boxes EXCEPT ![B!Job[1]].box = B!Doing("restore")]
            /\ worker' = [worker EXCEPT !.at = "frame"] /\ snap' = snap
            /\ late' = IF ~B!Doing("restore") /\ "fallback" \in DOMAIN todo
                       THEN late \cup {B!Job[1]} ELSE late
         \/ /\ ~(boxes[B!Job[1]].live /\ boxes[B!Job[1]].box # B!Doing("restore"))
            /\ worker' = B!Idle /\ snap' = B!Retired(snap)
            /\ boxes' = boxes /\ late' = late
  BY DEF B!Write, B!Running, B!Finish, B!Elsewhere
<1>0. PICK h \in BoxHandles : h = B!Job[1]
  BY <1>1, JobIs
<1> DEFINE give == B!Doing("restore")
<1>2. /\ worker.key = {B!Job} /\ give = (worker.op = {"restore"})
      /\ (\A op : Holding(op, h) <=> worker.op = {op})
      /\ worker.op \in {{"remove"}, {"restore"}} /\ OneBox(h)
      /\ Taking(h) <=> worker.op = {"remove"} \/ worker.undo
      /\ Giving(h) <=> worker.op = {"restore"} /\ ~worker.undo
      /\ worker.undo => worker.op = {"restore"}
  <2>1. give <=> worker.op = {"restore"}
    BY <1>1, JobIs
  <2>2. give = (worker.op = {"restore"})
    BY <2>1 DEF B!Doing
  <2> QED
    BY <1>0, <1>1, <2>2, JobIs, AtJob DEF BoxInv
<1> HIDE DEF give
<1>3. CASE /\ ~(boxes[h].live /\ boxes[h].box # give) /\ worker' = B!Idle /\ snap' = B!Retired(snap)
           /\ boxes' = boxes /\ late' = late
  <2>1. Resting
    BY <1>1, <1>3 DEF Resting
  <2>2. /\ BoxTypes' /\ Hand' /\ Accounts' /\ Phases'
        /\ \A x \in BoxHandles : x # B!Job[1] => OneBox(x)'
        /\ snap'.queue = snap.queue /\ snap'.disabled = snap.disabled
        /\ snap'.tracked = snap.tracked
    BY <1>3, <2>1, FinishKeeps
  <2>3. boxes[h].box \in BOOLEAN
    BY DEF BoxInv, BoxTypes, B!Window
  <2>4. Sound(h) => boxes[h].box /\ worker.op # {"remove"}
    BY <1>1, <1>2, <1>3, <2>3 DEF OneBox, Sound, Turns
  <2>5. OneBox(h)'
    BY <1>0, <2>1, <2>2, <2>4, FinishOne
  <2> QED
    BY <1>0, <2>2, <2>5 DEF BoxInv
<1>4. CASE /\ boxes[h].live /\ boxes[h].box # give
           /\ boxes' = [boxes EXCEPT ![h].box = give]
           /\ worker' = [worker EXCEPT !.at = "frame"] /\ snap' = snap
           /\ late' = IF ~give /\ "fallback" \in DOMAIN todo THEN late \cup {h} ELSE late
  <2>1. /\ worker'.at = "frame" /\ worker'.op = worker.op /\ worker'.key = worker.key
        /\ worker'.undo = worker.undo
        /\ worker' = [at |-> worker'.at, op |-> worker'.op, key |-> worker.key, undo |-> worker'.undo]
    BY <1>4 DEF BoxInv, BoxTypes
  <2>2. /\ boxes' \in [BoxHandles -> B!Window]
        /\ \A x \in BoxHandles : x # h => boxes'[x] = boxes[x]
        /\ boxes'[h].live = boxes[h].live /\ boxes'[h].native = boxes[h].native
        /\ boxes'[h].token = boxes[h].token /\ boxes'[h].box = give /\ boxes[h].box = ~give
    <3> DEFINE b == boxes[h]
               c == [b EXCEPT !.box = give]
    <3>1. boxes \in [BoxHandles -> B!Window] /\ b \in B!Window /\ give \in BOOLEAN
      BY <1>2 DEF BoxInv, BoxTypes
    <3>2. b.box # give
      BY <1>4
    <3> HIDE DEF b
    <3>3. /\ c \in B!Window /\ c.live = b.live /\ c.native = b.native /\ c.token = b.token /\ c.box = give
          /\ b.box = ~give
      BY <3>1, <3>2 DEF B!Window
    <3>4. boxes' = [boxes EXCEPT ![h] = c]
      BY <1>4 DEF b
    <3> HIDE DEF c
    <3> QED
      BY <3>1, <3>3, <3>4 DEF b
  <2>3. Working
    <3>1. late \subseteq late'
      BY <1>4
    <3> QED
      BY <1>0, <1>1, <1>4, <2>1, <2>2, <3>1 DEF Working
  <2>4. /\ BoxTypes' /\ Hand' /\ Accounts' /\ Phases'
        /\ \A x \in BoxHandles : x # B!Job[1] => OneBox(x)'
    BY <2>3, WorkKeeps
  <2>5. /\ \A op : Holding(op, h)' <=> Holding(op, h)
        /\ Taking(h)' <=> Taking(h)
        /\ Giving(h)' <=> Giving(h)
        /\ Pending(h)' <=> Pending(h)
    BY <1>4, <2>1 DEF Holding, Taking, Giving, Pending
  <2>6. (Sound(h)' <=> Sound(h)) /\ Fits(h)' = Fits(h)
        /\ (Left(h)' <=> Left(h)) /\ (B!Missing(h)' => ~give)
    BY <1>1, <2>2 DEF Sound, Fits, Left, ListedBy, B!Missing
  <2>7. Noted(h)'
    BY <1>1, <1>2, <1>4, <2>2, <2>6 DEF OneBox, Noted
  <2>8. ASSUME Sound(h) PROVE (Fresh(h) /\ Turns(h) /\ Known(h) /\ Rescue(h) /\ Taken(h))'
    <3>1. Fresh(h) /\ Turns(h) /\ Taken(h)
      BY <1>2, <2>8 DEF OneBox
    <3>2. ~give => Taking(h) /\ Holding("remove", h) /\ ~Giving(h)
      BY <1>2
    <3>3. Fresh(h)'
      BY <1>4, <2>1, <2>5, <2>6, <3>1 DEF Fresh
    <3>4. Turns(h)'
      <4>1. Led(snap.queue, h) \/ Giving(h) \/ (give /\ ~Taking(h))
        <5>1. Led(snap.queue, h) \/ Giving(h) \/ (boxes[h].box /\ ~Taking(h))
          BY <3>1 DEF Turns
        <5>2. CASE give
          <6>1. ~boxes[h].box
            BY <2>2, <5>2
          <6> QED
            BY <5>1, <6>1
        <5>3. CASE ~give
          BY <3>2, <5>1, <5>3
        <5> QED
          BY <5>2, <5>3
      <4>2. worker.op = {"restore"} <=> give
        BY <1>2
      <4> QED
        BY <1>2, <1>4, <2>1, <2>2, <2>5, <3>1, <4>1, <4>2 DEF Turns
    <3>5. Known(h)'
      BY <1>4, <2>5, <2>6, <3>1, <3>2 DEF Known, Turns, Pending
    <3>6. Rescue(h)'
      BY <1>1, <1>4, <2>5, <2>6, <3>2 DEF Rescue
    <3>7. Taken(h)'
      <4> SUFFICES ASSUME DOMAIN todo = {} PROVE Taken(h)'
        BY <1>1 DEF Taken
      <4>1. Holding("remove", h)' => ~boxes'[h].box
        <5> SUFFICES ASSUME Holding("remove", h)' PROVE ~boxes'[h].box
          OBVIOUS
        <5>1. worker.op = {"remove"} /\ {"remove"} # {"restore"}
          BY <1>2, <2>5
        <5>2. ~give
          BY <1>2, <5>1
        <5> QED
          BY <2>2, <5>2
      <4>2. ~(phase' = "up" /\ ~paused' /\ home'[h] = "tiled" /\ h \notin snap'.disabled)
        <5> SUFFICES ASSUME phase = "up", ~paused, home[h] = "tiled", h \notin snap.disabled PROVE FALSE
          BY <1>1, <1>4
        <5>1. ~boxes[h].box /\ ~Pending(h)
          BY <3>1 DEF Taken
        <5>2. give /\ ~Giving(h) /\ ~Holds(snap.queue, "restore", h)
          BY <2>2, <5>1 DEF Pending
        <5>3. Taking(h)
          BY <1>2, <5>2
        <5> QED
          BY <3>1, <5>2, <5>3 DEF Turns
      <4>3. \A t : LastAsked(h, t) => LastAsked(h, t)'
        BY <1>2, <1>4, <2>1, <2>2, <2>5 DEF LastAsked
      <4> QED
        BY <1>4, <3>1, <4>1, <4>2, <4>3 DEF Taken
    <3> QED
      BY <3>3, <3>4, <3>5, <3>6, <3>7
  <2>9. OneBox(h)'
    BY <2>6, <2>7, <2>8 DEF OneBox
  <2> QED
    BY <1>0, <2>4, <2>9 DEF BoxInv
<1> QED
  BY <1>0, <1>1, <1>3, <1>4 DEF give

LEMMA FrameKeeps ==
    ASSUME BoxInv, B!Frame
    PROVE  BoxInv'
<1>1. /\ worker.at = "frame" /\ phase # "done"
      /\ UNCHANGED <<boxes, home, paused, phase, todo, passed, crossed, late>>
      /\ \/ /\ B!Doing("remove") /\ ~B!Tracked(B!Job) /\ snap' = snap
            /\ worker' = [worker EXCEPT !.at = "check", !.op = {"restore"}, !.undo = TRUE]
         \/ /\ ~(B!Doing("remove") /\ ~B!Tracked(B!Job))
            /\ worker' = B!Idle /\ snap' = B!Retired(snap)
  BY DEF B!Frame, B!Running, B!Finish, B!Elsewhere
<1>0. PICK h \in BoxHandles : h = B!Job[1]
  BY <1>1, JobIs
<1>2. /\ worker.key = {B!Job} /\ (B!Doing("remove") <=> worker.op = {"remove"})
      /\ (\A op : Holding(op, h) <=> worker.op = {op})
      /\ worker.op \in {{"remove"}, {"restore"}} /\ OneBox(h)
      /\ Taking(h) <=> worker.op = {"remove"} \/ worker.undo
      /\ Giving(h) <=> worker.op = {"restore"} /\ ~worker.undo
      /\ worker.undo => worker.op = {"restore"}
  BY <1>0, <1>1, JobIs, AtJob DEF BoxInv
<1>3. CASE ~(B!Doing("remove") /\ ~B!Tracked(B!Job)) /\ worker' = B!Idle /\ snap' = B!Retired(snap)
  <2>1. Resting
    BY <1>1, <1>3 DEF Resting
  <2>2. /\ BoxTypes' /\ Hand' /\ Accounts' /\ Phases'
        /\ \A x \in BoxHandles : x # B!Job[1] => OneBox(x)'
        /\ snap'.queue = snap.queue /\ snap'.disabled = snap.disabled
        /\ snap'.tracked = snap.tracked
    BY <1>3, <2>1, FinishKeeps
  <2>3. Sound(h) /\ ~boxes[h].box => worker.op = {"remove"} /\ B!Tracked(B!Job)
    BY <1>1, <1>2, <1>3 DEF OneBox, Turns
  <2>4. OneBox(h)'
    BY <1>0, <1>1, <2>1, <2>2, <2>3, FinishOne
  <2> QED
    BY <1>0, <2>2, <2>4 DEF BoxInv
<1>4. CASE /\ B!Doing("remove") /\ ~B!Tracked(B!Job) /\ snap' = snap
           /\ worker' = [worker EXCEPT !.at = "check", !.op = {"restore"}, !.undo = TRUE]
  <2>1. /\ worker'.at = "check" /\ worker'.op = {"restore"} /\ worker'.key = worker.key
        /\ worker'.undo = TRUE /\ worker.op = {"remove"}
        /\ worker' = [at |-> worker'.at, op |-> worker'.op, key |-> worker.key, undo |-> worker'.undo]
    BY <1>2, <1>4 DEF BoxInv, BoxTypes
  <2>2. Working
    BY <1>1, <1>4, <2>1 DEF Working, BoxInv, BoxTypes
  <2>3. /\ BoxTypes' /\ Hand' /\ Accounts' /\ Phases'
        /\ \A x \in BoxHandles : x # B!Job[1] => OneBox(x)'
    BY <2>2, WorkKeeps
  <2>4. /\ ~Holding("remove", h)' /\ Taking(h)' /\ Taking(h) /\ ~Giving(h)' /\ ~Giving(h)
        /\ Holding("remove", h) /\ ~Holding("restore", h)
        /\ Pending(h)' <=> Pending(h)
    <3>1. Taking(h) /\ ~Giving(h) /\ Holding("remove", h) /\ ~Holding("restore", h)
      BY <1>2, <2>1
    <3>2. Holding("restore", h)'
      BY <2>1, <3>1 DEF Holding
    <3>3. ~Holding("remove", h)'
      BY <2>1 DEF Holding
    <3> QED
      BY <1>4, <2>1, <3>1, <3>2, <3>3 DEF Taking, Giving, Pending
  <2>5. (Sound(h)' <=> Sound(h)) /\ Fits(h)' = Fits(h) /\ (B!Missing(h)' <=> B!Missing(h))
        /\ (Left(h)' <=> Left(h))
    BY <1>1 DEF Sound, Fits, B!Missing, Left, ListedBy
  <2>6. Noted(h)'
    BY <1>1, <1>2, <1>4, <2>5 DEF OneBox, Noted
  <2>7. ASSUME Sound(h) PROVE (Fresh(h) /\ Turns(h) /\ Known(h) /\ Rescue(h) /\ Taken(h))'
    <3>1. Fresh(h) /\ Turns(h) /\ Known(h) /\ Rescue(h) /\ Taken(h)
      BY <1>2, <2>7 DEF OneBox
    <3>2. Fresh(h)'
      BY <1>4, <2>1, <2>4, <2>5, <3>1 DEF Fresh
    <3>3. Turns(h)'
      BY <1>1, <1>4, <2>1, <2>4, <3>1 DEF Turns
    <3>4. Known(h)'
      BY <1>1, <1>4, <2>4, <2>5, <3>1 DEF Known
    <3>5. Rescue(h)'
      BY <1>1, <1>4, <2>4, <2>5, <3>1 DEF Rescue
    <3>6. Taken(h)'
      <4>1. ASSUME NEW t \in snap.tracked[h], LastAsked(h, t) PROVE LastAsked(h, t)'
        <5>1. worker.key # {<<h, t>>}
          <6> SUFFICES ASSUME worker.key = {<<h, t>>} PROVE FALSE
            OBVIOUS
          <6>1. B!Job = <<h, t>>
            BY <1>2
          <6>2. B!Job[1] = h /\ B!Job[2] = t
            BY ONLY <6>1
          <6> QED
            BY <1>4, <6>2 DEF B!Tracked
        <5> QED
          BY <1>4, <2>4, <4>1, <5>1 DEF LastAsked
      <4> QED
        BY <1>1, <1>4, <2>4, <3>1, <4>1 DEF Taken
    <3> QED
      BY <3>2, <3>3, <3>4, <3>5, <3>6
  <2>8. OneBox(h)'
    BY <2>5, <2>6, <2>7 DEF OneBox
  <2> QED
    BY <1>0, <2>3, <2>8 DEF BoxInv
<1> QED
  BY <1>1, <1>3, <1>4

\* The worker takes its next request, or the barrier that ends the wait for it.
LEMMA TakeIs ==
    ASSUME BoxInv, B!Take, NEW r, r = Head(snap.queue)
    PROVE  /\ worker.at = "idle" /\ worker = B!Idle /\ phase # "done" /\ snap.queue # <<>>
           /\ UNCHANGED <<boxes, home, paused, passed, crossed, todo, late>>
           /\ snap' = [disabled |-> snap.disabled, tracked |-> snap.tracked,
                       pending |-> snap.pending,
                       published |-> IF r.op = "barrier" THEN snap.published ELSE r.key,
                       queue |-> Tail(snap.queue)]
           /\ IF r.op = "barrier"
              THEN worker' = worker /\ phase' = IF phase = "waiting" THEN "done" ELSE phase
              ELSE /\ worker' = [at |-> "check", op |-> {r.op}, key |-> r.key, undo |-> FALSE]
                   /\ phase' = phase
<1>1. /\ worker.at = "idle" /\ phase # "done" /\ snap.queue # <<>>
      /\ UNCHANGED <<boxes, home, paused, passed, crossed, todo, late>>
      /\ IF r.op = "barrier"
         THEN /\ snap' = [snap EXCEPT !.queue = Tail(@)] /\ worker' = worker
              /\ phase' = IF phase = "waiting" THEN "done" ELSE phase
         ELSE /\ snap' = [[snap EXCEPT !.queue = Tail(@)] EXCEPT !.published = r.key]
              /\ worker' = [B!Idle EXCEPT !.at = "check", !.op = {r.op}, !.key = r.key]
              /\ phase' = phase
  BY DEF B!Take, B!Running
<1>2. worker = B!Idle
  BY <1>1 DEF BoxInv, Hand
<1>3. r.op # "barrier" => worker' = [at |-> "check", op |-> {r.op}, key |-> r.key, undo |-> FALSE]
  BY <1>1 DEF B!Idle
<1>4. snap' = [disabled |-> snap.disabled, tracked |-> snap.tracked, pending |-> snap.pending,
               published |-> IF r.op = "barrier" THEN snap.published ELSE r.key,
               queue |-> Tail(snap.queue)]
  <2>1. snap \in Tables
    BY DEF BoxInv, BoxTypes
  <2>2. CASE r.op = "barrier"
    BY <1>1, <2>1, <2>2 DEF Tables
  <2>3. CASE r.op # "barrier"
    BY <1>1, <2>1, <2>3 DEF Tables
  <2> QED
    BY <2>2, <2>3
<1> QED
  BY <1>1, <1>2, <1>3, <1>4

LEMMA BarrierTaken ==
    ASSUME BoxInv, B!Take, Head(snap.queue) = Barrier
    PROVE  BoxInv'
<1>0. Barrier.op = "barrier" /\ \A h : ~Of(Barrier, h)
  BY DEF Barrier, Of
<1>1. /\ worker.at = "idle" /\ phase # "done" /\ snap.queue # <<>>
      /\ UNCHANGED <<boxes, home, paused, passed, crossed, todo, late, worker>>
      /\ phase' = IF phase = "waiting" THEN "done" ELSE phase
      /\ snap' = [disabled |-> snap.disabled, tracked |-> snap.tracked, pending |-> snap.pending,
                  published |-> snap.published, queue |-> Tail(snap.queue)]
  BY <1>0, TakeIs
<1>2. /\ snap'.disabled = snap.disabled /\ snap'.tracked = snap.tracked
      /\ snap'.pending = snap.pending /\ snap'.published = snap.published
      /\ snap'.queue = Tail(snap.queue)
  BY <1>1
<1>3. /\ snap.queue \in Seq(Asks) /\ snap.queue[1] = Barrier /\ snap'.queue \in Seq(Asks)
      /\ snap'.queue = <<>>
  <2>1. snap.queue \in Seq(Asks)
    BY SnapTypes DEF BoxInv
  <2>2. /\ Tail(snap.queue) \in Seq(Asks) /\ Head(snap.queue) = snap.queue[1] /\ 1 \in DOMAIN snap.queue
        /\ Len(Tail(snap.queue)) = Len(snap.queue) - 1
    BY <1>1, <2>1, QueueTail
  <2>3. Len(snap.queue) = 1
    BY <2>2 DEF BoxInv, Phases
  <2>4. Len(Tail(snap.queue)) = 0
    BY <2>2, <2>3
  <2> QED
    BY <1>2, <2>1, <2>2, <2>4, EmptySeq
<1>4. BoxTypes'
  BY <1>1, <1>2, <1>3 DEF BoxInv, BoxTypes, Tables
<1>5. Hand' /\ Phases'
  BY <1>1, <1>2, <1>3 DEF BoxInv, Hand, Phases
<1>6. Accounts'
  <2> SUFFICES ASSUME NEW k \in B!Keys
               PROVE  snap'.pending[k] = Cardinality(Waiting(snap'.queue, k)) + InWork(k)'
    BY DEF Accounts
  <2>1. snap.queue[1] # B!Request("restore", k)
    BY <1>3, RequestIs DEF AskKinds
  <2>2. /\ Cardinality(Waiting(Tail(snap.queue), k)) \in Nat
        /\ Cardinality(Waiting(snap.queue, k)) = Cardinality(Waiting(Tail(snap.queue), k)) + 0
    BY <1>1, <1>3, <2>1, WaitingTail
  <2>3. InWork(k)' = InWork(k)
    BY <1>1 DEF InWork
  <2> QED
    BY <1>2, <2>2, <2>3 DEF BoxInv, Accounts
<1>7. ASSUME NEW h \in BoxHandles PROVE OneBox(h)'
  <2>1. OneBox(h) /\ Alone(h) /\ Steady(h)
    BY <1>1 DEF BoxInv, Alone, Steady
  <2>2. SameAbout(snap.queue, snap'.queue, h)
    BY <1>0, <1>1, <1>2, <1>3, TailKeeps
  <2>3. phase' = phase \/ (phase' = "done" /\ phase # "up")
    BY <1>1
  <2>4. CASE phase' = phase
    BY <1>1, <1>2, <2>1, <2>2, <2>4, Rests
  <2>5. CASE phase' = "done" /\ phase # "up"
    <3>1. h \notin snap.disabled /\ (home[h] # "out" => boxes[h].live /\ boxes[h].token # 0)
      BY <2>1, <2>5 DEF OneBox, Noted
    <3> QED
      BY <1>1, <1>2, <2>1, <2>2, <2>5, <3>1, Rests
  <2> QED
    BY <2>3, <2>4, <2>5
<1> QED
  BY <1>4, <1>5, <1>6, <1>7 DEF BoxInv

LEMMA AskTaken ==
    ASSUME BoxInv, B!Take, NEW op \in AskKinds, NEW k \in B!Keys,
           Head(snap.queue) = B!Request(op, k)
    PROVE  BoxInv'
<1>0. B!Request(op, k).op = op /\ B!Request(op, k).key = {k} /\ op # "barrier"
  BY RequestIs DEF AskKinds
<1>1. /\ worker.at = "idle" /\ worker = B!Idle /\ phase # "done" /\ snap.queue # <<>>
      /\ UNCHANGED <<boxes, home, paused, passed, crossed, todo, late, phase>>
      /\ worker' = [at |-> "check", op |-> {op}, key |-> {k}, undo |-> FALSE]
      /\ snap' = [disabled |-> snap.disabled, tracked |-> snap.tracked, pending |-> snap.pending,
                  published |-> {k}, queue |-> Tail(snap.queue)]
  BY <1>0, TakeIs
<1>2. /\ snap'.disabled = snap.disabled /\ snap'.tracked = snap.tracked
      /\ snap'.pending = snap.pending /\ snap'.published = {k}
      /\ snap'.queue = Tail(snap.queue)
      /\ worker'.at = "check" /\ worker'.op = {op} /\ worker'.key = {k} /\ worker'.undo = FALSE
      /\ worker.op = {} /\ worker.key = {} /\ worker.at = "idle" /\ worker.undo = FALSE
  BY <1>1 DEF B!Idle
<1>3. /\ snap.queue \in Seq(Asks) /\ snap'.queue \in Seq(Asks) /\ 1 \in DOMAIN snap.queue
      /\ snap.queue[1] = B!Request(op, k) /\ snap.queue[1].key = {k} /\ snap.queue[1].op = op
      /\ \A i \in DOMAIN snap'.queue : i \in Nat \ {0} /\ i + 1 \in DOMAIN snap.queue
                                      /\ snap'.queue[i] = snap.queue[i + 1]
      /\ Len(snap'.queue) = Len(snap.queue) - 1 /\ Len(snap.queue) \in Nat
      /\ \A i \in DOMAIN snap.queue : i \in Nat \ {0}
  <2>1. snap.queue \in Seq(Asks)
    BY SnapTypes DEF BoxInv
  <2> QED
    BY <1>0, <1>1, <1>2, <2>1, QueueTail, QueueIs
<1>4. BoxTypes'
  BY <1>1, <1>2, <1>3 DEF BoxInv, BoxTypes, Tables
<1>5. Hand'
  BY <1>1, <1>2 DEF Hand, AskKinds
<1>6. Phases'
  <2>1. ASSUME NEW i \in DOMAIN snap'.queue, snap'.queue[i] = Barrier
        PROVE  i = Len(snap'.queue) /\ phase # "up"
    BY <1>3, <2>1 DEF BoxInv, Phases
  <2> QED
    BY <1>1, <1>2, <2>1 DEF BoxInv, Phases
<1>7. Accounts'
  <2> SUFFICES ASSUME NEW c \in B!Keys
               PROVE  snap'.pending[c] = Cardinality(Waiting(snap'.queue, c)) + InWork(c)'
    BY DEF Accounts
  <2> DEFINE one == IF snap.queue[1] = B!Request("restore", c) THEN 1 ELSE 0
             n == Cardinality(Waiting(snap'.queue, c))
  <2>1. n \in Nat /\ Cardinality(Waiting(snap.queue, c)) = n + one
    BY <1>1, <1>2, <1>3, WaitingTail
  <2>2. InWork(c) = 0 /\ InWork(c)' = one
    <3>1. snap.queue[1] = B!Request("restore", c) <=> op = "restore" /\ k = c
      <4>1. B!Request("restore", c).op = "restore" /\ B!Request("restore", c).key = {c}
        BY DEF B!Request
      <4>2. snap.queue[1] = B!Request("restore", c) => op = "restore" /\ {k} = {c}
        BY <1>3, <4>1
      <4> QED
        BY <1>3, <4>2
    <3>2. worker'.op = {"restore"} /\ worker'.key = {c} /\ ~worker'.undo <=> op = "restore" /\ k = c
      BY <1>2
    <3>3. worker.op # {"restore"}
      BY <1>2
    <3> QED
      BY <3>1, <3>2, <3>3 DEF InWork
  <2>3. snap.pending[c] = Cardinality(Waiting(snap.queue, c)) + InWork(c)
    BY DEF BoxInv, Accounts
  <2>4. one \in {0, 1}
    OBVIOUS
  <2> HIDE DEF n, one
  <2>5. snap'.pending[c] = n + InWork(c)'
    BY <1>2, <2>1, <2>2, <2>3, <2>4
  <2> QED
    BY <2>5 DEF n
<1>8. ASSUME NEW x \in BoxHandles, x # k[1] PROVE OneBox(x)'
  <2>1. ~Of(snap.queue[1], x) /\ ~Of(worker, x) /\ ~Of(worker', x)
    BY <1>2, <1>3, <1>8 DEF Of
  <2>2. OneBox(x) /\ Alone(x) /\ Steady(x)
    BY <1>1, <2>1 DEF BoxInv, Alone, Steady
  <2>3. SameAbout(snap.queue, snap'.queue, x)
    BY <1>1, <1>2, <1>3, <2>1, TailKeeps
  <2> QED
    BY <1>1, <1>2, <2>2, <2>3, Rests
<1>9. PICK h \in BoxHandles : h = k[1]
  BY KeyIs
<1>10. /\ \A o : ~Holding(o, h) /\ (Holding(o, h)' <=> o = op)
       /\ ~Taking(h) /\ ~Giving(h)
       /\ (Taking(h)' <=> op = "remove") /\ (Giving(h)' <=> op = "restore")
       /\ Pending(h) <=> Holds(snap.queue, "restore", h)
       /\ Pending(h)' <=> Holds(snap'.queue, "restore", h) \/ op = "restore"
  <2>1. \A o : ~Holding(o, h) /\ (Holding(o, h)' <=> o = op)
    BY <1>2, <1>9 DEF Holding
  <2> QED
    BY <1>2, <2>1 DEF Taking, Giving, Pending
<1>11. /\ FreshIn(snap.queue, h, Fits(h)) => FreshIn(snap'.queue, h, Fits(h))
       /\ Alternates(snap.queue, h) => Alternates(snap'.queue, h)
       /\ Ended(snap.queue, h) => Ended(snap'.queue, h)
       /\ Holds(snap'.queue, "restore", h) => Holds(snap.queue, "restore", h)
       /\ About(snap.queue[1], op, h)
  <2>1. About(snap.queue[1], op, h)
    BY <1>3, <1>9 DEF About
  <2> QED
    BY <1>1, <1>2, <1>3, <2>1, TailKeeps
<1>12. /\ OneBox(h) /\ (Sound(h)' <=> Sound(h)) /\ Fits(h)' = Fits(h)
       /\ (B!Missing(h)' <=> B!Missing(h)) /\ (Left(h)' <=> Left(h))
       /\ (ListedBy("shutdown", h)' <=> ListedBy("shutdown", h))
  BY <1>1 DEF BoxInv, Sound, Fits, B!Missing, Left, ListedBy
<1>13. Noted(h)'
  BY <1>1, <1>2, <1>12 DEF OneBox, Noted
<1>14. ASSUME Sound(h) PROVE (Fresh(h) /\ Turns(h) /\ Known(h) /\ Rescue(h) /\ Taken(h))'
  <2>0. Fresh(h) /\ Turns(h) /\ Known(h) /\ Rescue(h) /\ Taken(h)
    BY <1>12, <1>14 DEF OneBox
  <2>1. Fresh(h)'
    <3>1. k[2] \in Fits(h) /\ (op = "restore" => k[2] # 0)
      BY <1>3, <1>9, <2>0 DEF Fresh, FreshIn
    <3>2. FreshIn(snap'.queue, h, Fits(h)')
      BY <1>11, <1>12, <2>0 DEF Fresh
    <3> QED
      BY <1>2, <1>10, <1>12, <3>1, <3>2 DEF Fresh
  <2>2. CASE op = "restore"
    <3>1. Holds(snap.queue, "restore", h) /\ Pending(h)' /\ Giving(h)' /\ ~Taking(h)'
      BY <1>3, <1>10, <1>11, <2>2 DEF Holds
    <3>2. Turns(h)'
      BY <1>2, <1>10, <1>11, <2>0, <2>2, <3>1 DEF Turns
    <3>3. Known(h)' /\ Rescue(h)'
      BY <1>1, <1>12, <2>0, <3>1 DEF Known, Rescue
    <3>4. Taken(h)'
      <4>1. \A t : LastAsked(h, t) => LastAsked(h, t)'
        <5> SUFFICES ASSUME NEW t, LastAsked(h, t) PROVE LastAsked(h, t)'
          OBVIOUS
        <5>1. Last(snap.queue, h, t)
          BY <3>1 DEF LastAsked
        <5>2. Last(snap'.queue, h, t)
          BY <1>1, <1>2, <1>3, <1>11, <2>2, <5>1, RestoreLeaves
        <5> QED
          BY <5>2 DEF LastAsked
      <4>2. Pending(h)
        BY <1>10, <3>1
      <4> QED
        BY <1>1, <1>2, <1>10, <2>0, <2>2, <4>1, <4>2 DEF Taken
    <3> QED
      BY <2>1, <3>2, <3>3, <3>4
  <2>3. CASE op = "remove"
    <3>1. /\ Holds(snap'.queue, "restore", h) <=> Holds(snap.queue, "restore", h)
          /\ Led(snap'.queue, h)
          /\ Ended(snap.queue, h) => Holds(snap'.queue, "restore", h)
          /\ \A t : Last(snap.queue, h, t) =>
                \/ Last(snap'.queue, h, t)
                \/ ~Holds(snap'.queue, "restore", h) /\ {k} = {<<h, t>>}
      <4>1. Alternates(snap.queue, h) /\ About(snap.queue[1], "remove", h)
        BY <1>11, <2>0, <2>3 DEF Turns
      <4>2. ASSUME NEW t
            PROVE  /\ Holds(snap'.queue, "restore", h) <=> Holds(snap.queue, "restore", h)
                   /\ Led(snap'.queue, h)
                   /\ Ended(snap.queue, h) => Holds(snap'.queue, "restore", h)
                   /\ Last(snap.queue, h, t) =>
                         \/ Last(snap'.queue, h, t)
                         \/ ~Holds(snap'.queue, "restore", h) /\ {k} = {<<h, t>>}
        BY <1>1, <1>2, <1>3, <4>1, RemoveLeaves
      <4> QED
        BY <4>2
    <3>2. boxes[h].box
      <4>1. ~Led(snap.queue, h)
        BY <1>3, <1>11, <2>3 DEF Led
      <4> QED
        BY <1>10, <2>0, <4>1 DEF Turns
    <3>3. ~B!Missing(h) /\ Taking(h)' /\ ~Giving(h)' /\ (Pending(h)' <=> Pending(h))
      BY <1>10, <2>3, <3>1, <3>2 DEF B!Missing
    <3>4. Turns(h)'
      BY <1>1, <1>2, <1>10, <1>11, <2>0, <2>3, <3>1, <3>2 DEF Turns
    <3>5. Known(h)' /\ Rescue(h)'
      BY <1>12, <3>3 DEF Known, Rescue
    <3>6. Taken(h)'
      <4>1. \A t : LastAsked(h, t) => LastAsked(h, t)'
        <5> SUFFICES ASSUME NEW t, LastAsked(h, t) PROVE LastAsked(h, t)'
          OBVIOUS
        <5>1. Last(snap.queue, h, t)
          BY <1>10, <3>2 DEF LastAsked
        <5>2. Holding("remove", h)' /\ worker'.key = {k}
          BY <1>2, <1>10, <2>3
        <5> QED
          BY <3>1, <5>1, <5>2 DEF LastAsked
      <4> QED
        BY <1>1, <1>2, <2>0, <3>2, <4>1 DEF Taken
    <3> QED
      BY <2>1, <3>4, <3>5, <3>6
  <2> QED
    BY <2>2, <2>3 DEF AskKinds
<1>15. OneBox(h)'
  BY <1>12, <1>13, <1>14 DEF OneBox
<1> QED
  BY <1>4, <1>5, <1>6, <1>7, <1>8, <1>9, <1>15 DEF BoxInv

LEMMA TakeKeeps ==
    ASSUME BoxInv, B!Take
    PROVE  BoxInv'
<1>1. snap.queue \in Seq(Asks) /\ snap.queue # <<>>
  BY SnapTypes DEF BoxInv, B!Take
<1>2. Head(snap.queue) \in Asks
  BY <1>1, QueueTail
<1>3. CASE Head(snap.queue) = Barrier
  BY <1>3, BarrierTaken
<1>4. CASE Head(snap.queue) # Barrier
  <2>1. PICK k \in B!Keys : Head(snap.queue) = B!Request(Head(snap.queue).op, k)
                            /\ Head(snap.queue).op \in AskKinds
    BY <1>2, <1>4, AskIs
  <2> QED
    BY <2>1, AskTaken
<1> QED
  BY <1>3, <1>4

(***************************************************************************)
(* The theorem.                                                            *)
(***************************************************************************)
LEMMA BoxesInit ==
    ASSUME B!BoxInit
    PROVE  BoxInv
<1>1. /\ boxes \in [BoxHandles -> {w \in B!Window : w.live /\ w.token = 0 /\ w.box = w.native}]
      /\ home = [h \in BoxHandles |-> "out"]
      /\ snap = [disabled |-> {}, tracked |-> [h \in BoxHandles |-> {}],
                 pending |-> [k \in B!Keys |-> 0], published |-> {}, queue |-> <<>>]
      /\ worker = B!Idle /\ phase = "up" /\ todo = [r \in {} |-> {}]
      /\ crossed = {}
  BY DEF B!BoxInit
<1>2. /\ snap.disabled = {} /\ snap.tracked = [h \in BoxHandles |-> {}]
      /\ snap.pending = [k \in B!Keys |-> 0] /\ snap.published = {} /\ snap.queue = <<>>
      /\ worker.at = "idle" /\ worker.op = {} /\ worker.key = {} /\ worker.undo = FALSE
      /\ DOMAIN todo = {}
  BY <1>1 DEF B!Idle
<1>3. snap.queue \in Seq(Asks) /\ DOMAIN snap.queue = {}
  BY <1>2
<1>4. BoxTypes
  <2>1. MaxTokens \in Nat
    BY GeometryAssumption DEF B!BoxesAssumption
  <2>2. boxes \in [BoxHandles -> B!Window]
    BY <1>1
  <2>3. snap \in Tables
    BY <1>1, <1>3 DEF Tables
  <2>4. worker \in [at : {"idle", "check", "write", "frame"}, op : SUBSET AskKinds,
                    key : SUBSET B!Keys, undo : BOOLEAN]
    BY <1>1 DEF B!Idle
  <2> QED
    BY <1>1, <1>2, <2>2, <2>3, <2>4 DEF BoxTypes
<1>5. Hand /\ Phases
  BY <1>1, <1>2, <1>3 DEF Hand, Phases
<1>6. Accounts
  <2> SUFFICES ASSUME NEW k \in B!Keys
               PROVE  snap.pending[k] = Cardinality(Waiting(snap.queue, k)) + InWork(k)
    BY DEF Accounts
  <2>1. Cardinality(Waiting(snap.queue, k)) \in Nat /\ ~(Cardinality(Waiting(snap.queue, k)) > 0)
    BY <1>3, FinitelyWaiting
  <2>2. InWork(k) = 0
    BY <1>2 DEF InWork
  <2> QED
    BY <1>2, <2>1, <2>2
<1>7. ASSUME NEW h \in BoxHandles PROVE OneBox(h)
  <2>1. boxes[h].live /\ boxes[h].token = 0 /\ boxes[h].box = boxes[h].native
    BY <1>1
  <2>2. ~B!Missing(h) /\ (\A op : ~Holding(op, h)) /\ ~Taking(h) /\ ~Giving(h)
    <3>1. ~B!Missing(h)
      BY <2>1 DEF B!Missing
    <3>2. \A op : ~Holding(op, h)
      BY <1>2 DEF Holding
    <3> QED
      BY <3>1, <3>2 DEF Taking, Giving
  <2>3. /\ FreshIn(snap.queue, h, Fits(h)) /\ Alternates(snap.queue, h)
        /\ Led(snap.queue, h) /\ Ended(snap.queue, h)
    BY <1>3 DEF FreshIn, Alternates, Led, Ended
  <2>4. Noted(h)
    BY <1>1, <1>2 DEF Noted
  <2>5. Fresh(h) /\ Turns(h)
    BY <1>2, <2>2, <2>3 DEF Fresh, Turns
  <2>6. Known(h) /\ Rescue(h)
    BY <1>2, <2>2 DEF Known, Rescue
  <2>7. Taken(h)
    BY <1>1, <1>2, <2>2 DEF Taken
  <2> QED
    BY <2>4, <2>5, <2>6, <2>7 DEF OneBox
<1> QED
  BY <1>4, <1>5, <1>6, <1>7 DEF BoxInv

LEMMA BoxesStep ==
    ASSUME BoxInv, B!BoxNext
    PROVE  BoxInv'
<1>1. CASE \E h \in BoxHandles, place \in {"tiled", "floating"}, early \in BOOLEAN :
              B!Admit(h, place, early)
  BY <1>1, AdmitKeeps
<1>2. CASE \E h \in BoxHandles : B!Leave(h) \/ B!Toggle(h) \/ B!Close(h)
  BY <1>2, LeaveKeeps, ToggleKeeps, CloseKeeps
<1>3. CASE B!Pause \/ B!Resume
  BY <1>3, PauseKeeps, ResumeKeeps
<1>4. CASE B!Take \/ B!Check \/ B!Write \/ B!Frame
  BY <1>4, TakeKeeps, CheckKeeps, WriteKeeps, FrameKeeps
<1>5. CASE B!SessionEnd \/ B!Fallback \/ B!GiveUp
  BY <1>5, RescuersStart
<1>6. CASE B!BeginShutdown \/ B!Rescued
  BY <1>6, ShutdownKeeps, RescuedKeeps
<1>7. CASE \E r \in B!Rescuers : B!Visit(r)
  BY <1>7, VisitKeeps
<1> QED
  BY <1>1, <1>2, <1>3, <1>4, <1>5, <1>6, <1>7 DEF B!BoxNext

LEMMA BoxesNext ==
    ASSUME BoxesInv, GeometryNext
    PROVE  BoxesInv'
<1>1. part' = part
  BY DEF GeometryNext
<1>2. CASE part = "boxes"
  <2>1. B!BoxNext
    BY <1>2 DEF GeometryNext
  <2> QED
    BY <1>2, <2>1, BoxesStep DEF BoxesInv
<1>3. CASE part # "boxes"
  BY <1>1, <1>3 DEF BoxesInv
<1> QED
  BY <1>2, <1>3

LEMMA BoxesStutter ==
    ASSUME BoxesInv, UNCHANGED <<boxVars, part>>
    PROVE  BoxesInv'
<1>1. UNCHANGED <<boxes, home, snap, worker, paused, phase, todo, passed, crossed, late, part>>
  BY DEF boxVars
<1> SUFFICES ASSUME part = "boxes" PROVE BoxInv'
  BY <1>1 DEF BoxesInv
<1>2. BoxInv
  BY DEF BoxesInv
<1>3. BoxTypes' /\ Hand' /\ Accounts' /\ Phases'
  BY <1>1, <1>2 DEF BoxInv, BoxTypes, Hand, Accounts, InWork, Phases
<1>4. ASSUME NEW h \in BoxHandles PROVE OneBox(h)'
  <2>1. OneBox(h) /\ Alone(h) /\ Steady(h)
    BY <1>1, <1>2 DEF BoxInv, Alone, Steady
  <2>2. SameAbout(snap.queue, snap'.queue, h)
    BY <1>1, SameIs
  <2> QED
    BY <1>1, <2>1, <2>2, Rests
<1> QED
  BY <1>3, <1>4 DEF BoxInv

\* A request in the worker's hand or in the queue is one the property knows.
LEMMA PendingIsKnown ==
    ASSUME BoxInv, NEW h \in BoxHandles, Sound(h), Pending(h)
    PROVE  \E k \in B!Keys : k[1] = h /\ B!Matches(k) /\ snap.pending[k] > 0
<1>1. Fresh(h)
  BY DEF BoxInv, OneBox
<1>2. PICK k \in B!Keys : /\ k[1] = h /\ snap.pending[k] > 0
                          /\ Fresh(h) => k[2] = boxes[h].token /\ k[2] # 0
  BY PendingKey DEF BoxInv
<1> QED
  BY <1>1, <1>2 DEF B!Matches, Sound

LEMMA FitsIs ==
    ASSUME BoxInv, NEW h \in BoxHandles, Sound(h), NEW t \in Fits(h), NEW k, k = <<h, t>>
    PROVE  k \in B!Keys /\ k[1] = h /\ k[2] = t /\ B!Matches(k)
<1>1. MaxTokens \in Nat
  BY GeometryAssumption DEF B!BoxesAssumption
<1>2. boxes[h].live /\ boxes[h].token \in 0..MaxTokens /\ t \in {0, boxes[h].token}
  BY DEF BoxInv, BoxTypes, B!Window, Sound, Fits
<1>3. t \in 0..MaxTokens
  BY <1>1, <1>2
<1> QED
  BY <1>2, <1>3 DEF B!Keys, B!Matches

LEMMA BoxesSoundInv ==
    ASSUME BoxInv
    PROVE  B!BoxesSound
<1>1. ASSUME NEW h \in BoxHandles, B!Missing(h), h \notin passed \cup crossed, ~B!InHand(h)
      PROVE  /\ Sound(h) /\ Known(h) /\ Rescue(h) /\ Noted(h)
             /\ ~Taking(h) /\ ~Giving(h) /\ (Pending(h) <=> Holds(snap.queue, "restore", h))
  <2>1. Sound(h)
    BY <1>1 DEF Sound, B!Missing
  <2>2. ~Taking(h) /\ ~Giving(h)
    BY <1>1, InHandIs DEF BoxInv, B!InHand
  <2> QED
    BY <2>1, <2>2 DEF BoxInv, OneBox, Pending
<1>2. B!BoxesKnown
  <2> SUFFICES ASSUME NEW h \in BoxHandles, B!Missing(h), h \notin passed \cup crossed, ~B!InHand(h)
               PROVE  \E k \in B!Keys : /\ k[1] = h /\ B!Matches(k)
                                        /\ B!Tracked(k) \/ snap.pending[k] > 0 \/ B!Listed(k)
    BY DEF B!BoxesKnown
  <2>1. CASE Pending(h)
    BY <1>1, <2>1, PendingIsKnown
  <2>2. CASE snap.tracked[h] # {}
    <3>1. PICK t \in Fits(h) : snap.tracked[h] = {t}
      BY <1>1, <2>2 DEF Noted
    <3> DEFINE k == <<h, t>>
    <3>2. k \in B!Keys /\ k[1] = h /\ k[2] = t /\ B!Matches(k)
      BY <1>1, FitsIs
    <3> HIDE DEF k
    <3>3. B!Tracked(k)
      BY <3>1, <3>2 DEF B!Tracked
    <3> QED
      BY <3>2, <3>3
  <2>3. CASE Left(h)
    <3>1. PICK r \in DOMAIN todo : ListedBy(r, h)
      BY <2>3 DEF Left
    <3>2. PICK t \in Fits(h) : <<h, t>> \in todo[r]
      BY <3>1 DEF ListedBy
    <3> DEFINE k == <<h, t>>
    <3>3. k \in B!Keys /\ k[1] = h /\ B!Matches(k)
      BY <1>1, FitsIs
    <3>4. k \in todo[r]
      BY <3>2
    <3> HIDE DEF k
    <3> QED
      BY <3>3, <3>4 DEF B!Listed
  <2> QED
    BY <1>1, <2>1, <2>2, <2>3 DEF Known
<1>3. B!BoxesBack
  <2> SUFFICES ASSUME phase = "done", NEW h \in BoxHandles, B!Missing(h), h \notin passed \cup crossed,
                      ~B!InHand(h)
               PROVE  FALSE
    BY DEF B!BoxesBack
  <2>1. CASE "shutdown" \in DOMAIN todo
    <3>1. todo["shutdown"] = {}
      BY <2>1 DEF BoxInv, Phases
    <3>2. ~ListedBy("shutdown", h)
      BY <3>1 DEF ListedBy
    <3> QED
      BY <1>1, <2>1, <3>2 DEF Rescue
  <2>2. CASE "shutdown" \notin DOMAIN todo
    <3>1. snap.queue = <<>>
      BY <2>2 DEF BoxInv, Phases
    <3>2. ~Pending(h)
      BY <1>1, <3>1 DEF Holds
    <3>3. h \notin snap.disabled
      BY <1>1 DEF Noted
    <3> QED
      BY <1>1, <3>2, <3>3 DEF Known
  <2> QED
    BY <2>1, <2>2
<1>4. B!BoxesBackByForce
  <2> SUFFICES ASSUME "fallback" \in DOMAIN todo,
                      NEW h \in BoxHandles, B!Missing(h), h \notin passed \cup crossed \cup late,
                      ~B!InHand(h)
               PROVE  \E k \in B!Keys : k[1] = h /\ B!Listed(k)
    BY DEF B!BoxesBackByForce, B!Started
  <2>1. Left(h)
    BY <1>1 DEF Rescue
  <2>2. PICK r \in DOMAIN todo : ListedBy(r, h)
    BY <2>1 DEF Left
  <2>3. PICK t \in Fits(h) : <<h, t>> \in todo[r]
    BY <2>2 DEF ListedBy
  <2> DEFINE k == <<h, t>>
  <2>4. k \in B!Keys /\ k[1] = h
    BY <1>1, FitsIs
  <2>5. k \in todo[r]
    BY <2>3
  <2> HIDE DEF k
  <2> QED
    BY <2>4, <2>5 DEF B!Listed
<1>5. B!TiledUnboxed
  <2> SUFFICES ASSUME phase = "up", snap.queue = <<>>, worker = B!Idle, ~paused,
                      todo = [r \in {} |-> {}], NEW h \in BoxHandles, boxes[h].live,
                      home[h] = "tiled", h \notin crossed
               PROVE  ~boxes[h].box
    BY DEF B!TiledUnboxed, B!Up
  <2>1. Sound(h) /\ Taken(h)
    BY DEF BoxInv, OneBox, Sound
  <2>2. DOMAIN todo = {} /\ worker.op = {} /\ worker.key = {} /\ worker.at = "idle"
    BY DEF B!Idle
  <2>3. \A op, t : ~Holding(op, h) /\ ~Last(snap.queue, h, t)
    BY <2>2 DEF Holding, Last
  <2>4. CASE h \notin snap.disabled
    BY <2>1, <2>2, <2>4 DEF Taken
  <2>5. CASE h \in snap.disabled
    <3>1. PICK t \in snap.tracked[h] : LastAsked(h, t)
      BY <2>1, <2>2, <2>5 DEF Taken
    <3> QED
      BY <2>3, <3>1 DEF LastAsked
  <2> QED
    BY <2>4, <2>5
<1> QED
  BY <1>2, <1>3, <1>4, <1>5 DEF B!BoxesSound

(***************************************************************************)
(* A maximize box that was taken is known to somebody who will give it     *)
(* back until it is back: the daemon's tables, a waiting restore, the      *)
(* worker or a rescuer.  When the main thread is done every box is back,   *)
(* the quit fallback leaves none it could reach, and a daemon at rest has  *)
(* taken the box of every tiled window, for any windows and any number of  *)
(* admissions; with the exceptions the properties name.                    *)
(***************************************************************************)
THEOREM BoxesSoundHolds == GeometrySpec => []BoxesSound
<1>1. GeometryInit => BoxesInv
  BY BoxesInit DEF GeometryInit, BoxesInv
<1>2. BoxesInv /\ [GeometryNext]_<<scrollVars, tilesVars, placementVars, insetsVars, driftVars, boxVars, part>>
      => BoxesInv'
  BY BoxesNext, BoxesStutter
<1>3. BoxesInv => BoxesSound
  BY BoxesSoundInv DEF BoxesInv, BoxesSound
<1> QED
  BY <1>1, <1>2, <1>3, PTL DEF GeometrySpec
=============================================================================
