---------------------------- MODULE StreamProofs ----------------------------
(***************************************************************************)
(* Proofs about the pipe server's streams: what the run of MCEdges checks  *)
(* of the snapshots a client puts together holds for any number of         *)
(* clients, any capacity of their receivers and any revisions.             *)
(*                                                                         *)
(* All frames of one connection, those still to come included, are thought *)
(* of as written on a tape.  The invariant says that the tape is           *)
(* well-formed, which part of it the client has read, which is in the      *)
(* pipe, which the handler holds and which its receiver, and that the last *)
(* snapshot on it is the state of the moment.                              *)
(***************************************************************************)
EXTENDS MCEdges, SequenceTheorems, FiniteSetTheorems, TLAPS

FrameKinds == {"begin", "chunk", "end", "error", "event", "ack", "answer", "refused", "lagged",
               "heartbeat"}
AnyFrame == [f : FrameKinds, rev : Nat, val : Nat]
Tales == Seq(AnyFrame)
StreamServers == [at : {"none", "reading", "asked", "answered", "startup", "stream", "closed"},
                  unread : Tales, missed : BOOLEAN, todo : Tales, inside : BOOLEAN]
Revs == SUBSET Nat
Gots == Seq(Nat)
Wholes == SUBSET Gots
Readers == [kind : {"none", "watch", "query", "command"},
            at : {"idle", "connecting", "acked", "done", "told", "confused", "gone"},
            rev : Revs, got : Gots, whole : Wholes]

\* The first r of n frames on the tape are read, the first w are written to
\* the pipe.
Tapes == [Nat -> AnyFrame]
Begins(F, b) == b > 0 /\ F[b].f = "begin"
\* A snapshot has begun and not ended at place x.
Open(F, x) == Begins(F, x) \/ Begins(F, x - 1) \/ Begins(F, x - 2)

\* Snapshots come in one piece of four frames, unless word of a loss cuts one off.
Grammar(F, n, now) ==
    \A i \in 1..n :
        /\ F[i].f = "begin" =>
              /\ i + 1 <= n => \/ F[i + 1].f = "lagged"
                               \/ /\ F[i + 1].f = "chunk" /\ F[i + 1].rev = F[i].rev
                                  /\ F[i + 1].val <= now
              /\ i + 2 <= n => F[i + 2].f = "lagged" \/ F[i + 2] = F[i + 1]
              /\ i + 3 <= n => F[i + 3].f = "lagged" \/ (F[i + 3].f = "end" /\ F[i + 3].rev = F[i].rev)
        /\ F[i].f = "chunk" => Begins(F, i - 1) \/ Begins(F, i - 2)
        /\ F[i].f = "end" => Begins(F, i - 3)
        /\ F[i].f = "lagged" => i = n

\* The reader is as far as the tape says, and holds the last snapshot that ended.
ReadUpTo(F, r, rd) ==
    /\ Begins(F, r) => rd.rev = {F[r].rev} /\ rd.got = <<>>
    /\ Begins(F, r - 1) => rd.rev = {F[r - 1].rev} /\ rd.got = <<F[r].val>>
    /\ Begins(F, r - 2) => rd.rev = {F[r - 2].rev} /\ rd.got = <<F[r - 1].val, F[r].val>>
    /\ ~Open(F, r) => rd.rev = {}
    /\ \A b \in 1..r : F[b].f = "begin" /\ b + 3 <= r /\ (\A i \in (b + 1)..r : F[i].f # "begin") =>
          rd.whole = {<<F[b + 1].val, F[b + 1].val>>}

Piped(F, r, w, pp) == r <= w /\ Len(pp) = w - r /\ \A i \in 1..Len(pp) : pp[i] = F[r + i]

\* The last snapshot on the tape is of the moment, or one that cannot be framed
\* is to come.
Newest(F, n, w, now) ==
    \/ \E i \in (w + 1)..n : F[i].f = "error"
    \/ \E b \in 1..n : /\ F[b].f = "begin" /\ b + 3 <= n /\ F[b + 1].val = now
                       /\ \A i \in (b + 1)..n : F[i].f # "begin"

\* What the handler has still to write: the acknowledgement, the frozen
\* snapshot, and what its receiver holds.
Receives(sv, rd) == rd.kind # "command" /\ sv.at \in {"answered", "startup", "stream"}
Base(w, sv) == IF sv.at = "answered" THEN w + 1 ELSE w
Due(w, sv) == Base(w, sv) + Len(sv.todo)
Later(F, n, w, sv, now) ==
    IF sv.missed THEN n = Due(w, sv) + 1 /\ F[n] = E!Frame("lagged", 0, 0)
    ELSE /\ n = Due(w, sv) + Len(sv.unread)
         /\ \A i \in 1..Len(sv.unread) : sv.unread[i] = F[Due(w, sv) + i]
         /\ ~Open(F, n) /\ (\A i \in 1..n : F[i].f # "lagged") /\ Newest(F, n, w, now)
Ahead(F, n, w, sv, rd, now) ==
    /\ sv.at \in {"none", "reading", "asked"} => n = 0
    /\ sv.at = "closed" => n = w
    /\ sv.at = "answered" =>
          w = 0 /\ n > 0 /\ F[1] = E!Frame(IF rd.kind = "command" THEN "answer" ELSE "ack", 0, 0)
    /\ sv.at = "answered" /\ rd.kind = "command" => n = 1
    /\ Receives(sv, rd) =>
          /\ Due(w, sv) <= n
          /\ \A i \in 1..Len(sv.todo) : sv.todo[i] = F[Base(w, sv) + i]
          /\ sv.at = "stream" => sv.todo = <<>> /\ (sv.inside <=> Open(F, w))
          /\ sv.at # "stream" => ~sv.inside /\ ~Open(F, Due(w, sv))
          /\ rd.kind = "query" => n = Due(w, sv)
          /\ rd.kind = "watch" => Later(F, n, w, sv, now)

Written(F, n, r, w, rd, pp, now) ==
    /\ Grammar(F, n, now) /\ ReadUpTo(F, r, rd) /\ Piped(F, r, w, pp) /\ w <= n
    /\ rd.kind # "watch" => \A i \in 1..n : F[i].f \notin {"event", "heartbeat"}
Follows(F, n, r, w, sv, rd, pp, now) ==
    Written(F, n, r, w, rd, pp, now) /\ Ahead(F, n, w, sv, rd, now)

\* Every snapshot the client has put together is one state the daemon had.
Doubles(rd, now) == \A g \in rd.whole : \E v \in 0..now : g = <<v, v>>
Kept(sv, rd, pp, now) ==
    /\ sv \in StreamServers /\ rd \in Readers /\ pp \in Tales
    /\ sv.at \in {"none", "reading", "asked"} =>
          sv.unread = <<>> /\ ~sv.missed /\ sv.todo = <<>> /\ ~sv.inside
    /\ sv.at # "none" \/ rd.at = "connecting" => rd.kind # "none"
    /\ rd.at \in {"idle", "connecting"} => sv.at = "none" /\ pp = <<>> /\ rd.rev = {} /\ rd.whole = {}
    /\ rd.at = "acked" => sv.at # "none"
    /\ rd.at # "confused"
    /\ Doubles(rd, now)
    /\ Len(sv.unread) <= Capacity /\ (sv.missed => sv.unread # <<>>)
    /\ Receives(sv, rd) /\ sv.at # "stream" => sv.todo # <<>>
    /\ sv.at = "startup" => rd.kind \in {"watch", "query"}
    /\ sv.at = "stream" => rd.kind = "watch"
OneStream(sv, rd, pp, now) ==
    /\ Kept(sv, rd, pp, now)
    /\ rd.at = "acked" => \E F \in Tapes, n, r, w \in Nat : Follows(F, n, r, w, sv, rd, pp, now)

Snapshot(v) == [rev : Nat, val : {v}]
StreamInv ==
    /\ world \in Nat /\ queue \in Seq(Clients)
    /\ server \in [Clients -> StreamServers] /\ client \in [Clients -> Readers]
    /\ pipe \in [Clients -> Tales]
    /\ cached = {} \/ \E v \in 0..world : \E s \in Snapshot(v) : cached = {s}
    /\ \A c \in Clients : Receives(server[c], client[c]) => \E s \in Snapshot(world) : cached = {s}
    /\ \A c \in Clients : OneStream(server[c], client[c], pipe[c], world)

(***************************************************************************)
(* Tapes.                                                                  *)
(***************************************************************************)
\* What follows on a tape does not matter for what is before.
LEMMA GrammarSame ==
    ASSUME NEW F \in Tapes, NEW F2 \in Tapes, NEW n \in Nat, NEW m \in Nat, m <= n,
           NEW now \in Nat, NEW now2 \in Nat, now <= now2,
           Grammar(F, n, now), \A i \in 1..m : F2[i] = F[i]
    PROVE  Grammar(F2, m, now2)
<1> SUFFICES ASSUME NEW i \in 1..m
             PROVE  /\ F2[i].f = "begin" =>
                          /\ i + 1 <= m => \/ F2[i + 1].f = "lagged"
                                           \/ /\ F2[i + 1].f = "chunk" /\ F2[i + 1].rev = F2[i].rev
                                              /\ F2[i + 1].val <= now2
                          /\ i + 2 <= m => F2[i + 2].f = "lagged" \/ F2[i + 2] = F2[i + 1]
                          /\ i + 3 <= m => \/ F2[i + 3].f = "lagged"
                                           \/ F2[i + 3].f = "end" /\ F2[i + 3].rev = F2[i].rev
                    /\ F2[i].f = "chunk" => Begins(F2, i - 1) \/ Begins(F2, i - 2)
                    /\ F2[i].f = "end" => Begins(F2, i - 3)
                    /\ F2[i].f = "lagged" => i = m
  BY DEF Grammar
<1>1. i \in 1..n /\ F2[i] = F[i]
  OBVIOUS
<1>2. ASSUME F2[i].f = "begin"
      PROVE  /\ i + 1 <= m => \/ F2[i + 1].f = "lagged"
                              \/ /\ F2[i + 1].f = "chunk" /\ F2[i + 1].rev = F2[i].rev
                                 /\ F2[i + 1].val <= now2
             /\ i + 2 <= m => F2[i + 2].f = "lagged" \/ F2[i + 2] = F2[i + 1]
             /\ i + 3 <= m => \/ F2[i + 3].f = "lagged"
                              \/ F2[i + 3].f = "end" /\ F2[i + 3].rev = F2[i].rev
  <2>1. i + 1 <= m => i + 1 \in 1..m /\ i + 1 <= n /\ F[i + 1].val \in Nat
    BY DEF Tapes, AnyFrame
  <2>2. i + 2 <= m => i + 1 \in 1..m /\ i + 2 \in 1..m /\ i + 2 <= n
    OBVIOUS
  <2>3. i + 3 <= m => i + 3 \in 1..m /\ i + 3 <= n
    OBVIOUS
  <2> QED
    BY <1>1, <1>2, <2>1, <2>2, <2>3 DEF Grammar
<1>3. F2[i].f = "chunk" => Begins(F2, i - 1) \/ Begins(F2, i - 2)
  BY <1>1 DEF Grammar, Begins
<1>4. F2[i].f = "end" => Begins(F2, i - 3)
  BY <1>1 DEF Grammar, Begins
<1>5. F2[i].f = "lagged" => i = m
  BY <1>1 DEF Grammar
<1> QED
  BY <1>2, <1>3, <1>4, <1>5

LEMMA OpenSame ==
    ASSUME NEW F, NEW F2, NEW x \in Nat, \A i \in 1..x : F2[i] = F[i]
    PROVE  Open(F2, x) <=> Open(F, x)
BY DEF Open, Begins

LEMMA ReadSame ==
    ASSUME NEW F, NEW F2, NEW r \in Nat, \A i \in 1..r : F2[i] = F[i], NEW rd, ReadUpTo(F, r, rd)
    PROVE  ReadUpTo(F2, r, rd)
<1>1. /\ Begins(F2, r) <=> Begins(F, r)
      /\ Begins(F2, r - 1) <=> Begins(F, r - 1)
      /\ Begins(F2, r - 2) <=> Begins(F, r - 2)
  BY DEF Begins
<1>2. /\ Begins(F, r) => F2[r] = F[r]
      /\ Begins(F, r - 1) => F2[r] = F[r] /\ F2[r - 1] = F[r - 1]
      /\ Begins(F, r - 2) => F2[r] = F[r] /\ F2[r - 1] = F[r - 1] /\ F2[r - 2] = F[r - 2]
  BY DEF Begins
<1>3. ASSUME NEW b \in 1..r, F2[b].f = "begin", b + 3 <= r, \A i \in (b + 1)..r : F2[i].f # "begin"
      PROVE  rd.whole = {<<F2[b + 1].val, F2[b + 1].val>>}
  <2>1. F[b].f = "begin" /\ F2[b + 1] = F[b + 1] /\ \A i \in (b + 1)..r : F[i].f # "begin"
    BY <1>3
  <2> QED
    BY <1>3, <2>1 DEF ReadUpTo
<1> QED
  BY <1>1, <1>2, <1>3 DEF ReadUpTo, Open

\* A frame that belongs to no snapshot, and a whole snapshot, may be added
\* where none is open.
Plain == {"event", "error", "ack", "answer", "refused", "heartbeat"}
LEMMA AddPlain ==
    ASSUME NEW F \in Tapes, NEW n \in Nat, NEW now \in Nat, Grammar(F, n, now), ~Open(F, n),
           F[n + 1].f \in Plain, \A i \in 1..n : F[i].f # "lagged"
    PROVE  Grammar(F, n + 1, now) /\ ~Open(F, n + 1) /\ \A i \in 1..(n + 1) : F[i].f # "lagged"
<1>1. F[n + 1].f \notin {"begin", "chunk", "end", "lagged"}
  BY DEF Plain
<1>2. ~Begins(F, n + 1) /\ ~Begins(F, n) /\ ~Begins(F, n - 1) /\ ~Begins(F, n - 2)
  BY <1>1 DEF Open, Begins
<1>3. ~Open(F, n + 1)
  <2>1. (n + 1) - 1 = n /\ (n + 1) - 2 = n - 1
    OBVIOUS
  <2> QED
    BY <1>2, <2>1 DEF Open
<1>4. ASSUME NEW i \in 1..(n + 1)
      PROVE  /\ F[i].f = "begin" =>
                   /\ i + 1 <= n + 1 => \/ F[i + 1].f = "lagged"
                                        \/ /\ F[i + 1].f = "chunk" /\ F[i + 1].rev = F[i].rev
                                           /\ F[i + 1].val <= now
                   /\ i + 2 <= n + 1 => F[i + 2].f = "lagged" \/ F[i + 2] = F[i + 1]
                   /\ i + 3 <= n + 1 => \/ F[i + 3].f = "lagged"
                                        \/ F[i + 3].f = "end" /\ F[i + 3].rev = F[i].rev
             /\ F[i].f = "chunk" => Begins(F, i - 1) \/ Begins(F, i - 2)
             /\ F[i].f = "end" => Begins(F, i - 3)
             /\ F[i].f # "lagged"
  <2>1. CASE i = n + 1
    BY <1>1, <2>1
  <2>2. CASE i \in 1..n
    <3>1. F[i].f = "begin" => i # n /\ i # n - 1 /\ i # n - 2
      BY <1>2, <2>2 DEF Begins
    <3>2. F[i].f = "begin" => i + 3 <= n
      BY <2>2, <3>1
    <3> QED
      BY <2>2, <3>2 DEF Grammar
  <2> QED
    BY <2>1, <2>2
<1> QED
  BY <1>3, <1>4 DEF Grammar

LEMMA AddBlock ==
    ASSUME NEW F \in Tapes, NEW n \in Nat, NEW now \in Nat, Grammar(F, n, now), ~Open(F, n),
           \A i \in 1..n : F[i].f # "lagged", NEW v \in Nat, NEW x \in 0..now,
           F[n + 1] = E!Frame("begin", v, 0), F[n + 2] = E!Frame("chunk", v, x),
           F[n + 3] = E!Frame("chunk", v, x), F[n + 4] = E!Frame("end", v, 0)
    PROVE  Grammar(F, n + 4, now) /\ ~Open(F, n + 4) /\ \A i \in 1..(n + 4) : F[i].f # "lagged"
<1>1. /\ F[n + 1].f = "begin" /\ F[n + 2].f = "chunk" /\ F[n + 3].f = "chunk" /\ F[n + 4].f = "end"
      /\ F[n + 1].rev = v /\ F[n + 2].rev = v /\ F[n + 4].rev = v /\ F[n + 2].val = x
      /\ F[n + 3] = F[n + 2]
  BY DEF E!Frame
<1>2. ~Begins(F, n) /\ ~Begins(F, n - 1) /\ ~Begins(F, n - 2)
  BY DEF Open
<1>3. ~Open(F, n + 4)
  <2>1. (n + 4) - 1 = n + 3 /\ (n + 4) - 2 = n + 2
    OBVIOUS
  <2> QED
    BY <1>1, <2>1 DEF Open, Begins
<1>4. ASSUME NEW i \in 1..(n + 4)
      PROVE  /\ F[i].f = "begin" =>
                   /\ i + 1 <= n + 4 => \/ F[i + 1].f = "lagged"
                                        \/ /\ F[i + 1].f = "chunk" /\ F[i + 1].rev = F[i].rev
                                           /\ F[i + 1].val <= now
                   /\ i + 2 <= n + 4 => F[i + 2].f = "lagged" \/ F[i + 2] = F[i + 1]
                   /\ i + 3 <= n + 4 => \/ F[i + 3].f = "lagged"
                                        \/ F[i + 3].f = "end" /\ F[i + 3].rev = F[i].rev
             /\ F[i].f = "chunk" => Begins(F, i - 1) \/ Begins(F, i - 2)
             /\ F[i].f = "end" => Begins(F, i - 3)
             /\ F[i].f # "lagged"
  <2>1. CASE i = n + 1
    <3>1. i + 1 = n + 2 /\ i + 2 = n + 3 /\ i + 3 = n + 4
      BY <2>1
    <3> QED
      BY <1>1, <2>1, <3>1
  <2>2. CASE i = n + 2 \/ i = n + 3 \/ i = n + 4
    <3>1. /\ i = n + 2 => i - 1 = n + 1
          /\ i = n + 3 => i - 2 = n + 1
          /\ i = n + 4 => i - 3 = n + 1
      OBVIOUS
    <3> QED
      BY <1>1, <2>2, <3>1 DEF Begins
  <2>3. CASE i \in 1..n
    <3>1. F[i].f = "begin" => i # n /\ i # n - 1 /\ i # n - 2
      BY <1>2, <2>3 DEF Begins
    <3>2. F[i].f = "begin" => i + 3 <= n
      BY <2>3, <3>1
    <3> QED
      BY <2>3, <3>2 DEF Grammar
  <2> QED
    BY <2>1, <2>2, <2>3
<1> QED
  BY <1>3, <1>4 DEF Grammar

\* Word of a loss may come anywhere, and is the last.
LEMMA AddLagged ==
    ASSUME NEW F \in Tapes, NEW n \in Nat, NEW now \in Nat, Grammar(F, n, now),
           F[n + 1].f = "lagged", \A i \in 1..n : F[i].f # "lagged"
    PROVE  Grammar(F, n + 1, now)
<1> SUFFICES ASSUME NEW i \in 1..(n + 1)
             PROVE  /\ F[i].f = "begin" =>
                          /\ i + 1 <= n + 1 => \/ F[i + 1].f = "lagged"
                                               \/ /\ F[i + 1].f = "chunk" /\ F[i + 1].rev = F[i].rev
                                                  /\ F[i + 1].val <= now
                          /\ i + 2 <= n + 1 => F[i + 2].f = "lagged" \/ F[i + 2] = F[i + 1]
                          /\ i + 3 <= n + 1 => \/ F[i + 3].f = "lagged"
                                               \/ F[i + 3].f = "end" /\ F[i + 3].rev = F[i].rev
                    /\ F[i].f = "chunk" => Begins(F, i - 1) \/ Begins(F, i - 2)
                    /\ F[i].f = "end" => Begins(F, i - 3)
                    /\ F[i].f = "lagged" => i = n + 1
  BY DEF Grammar
<1>1. CASE i = n + 1
  BY <1>1
<1>2. CASE i \in 1..n
  <2>1. /\ i + 1 <= n + 1 => i + 1 <= n \/ i + 1 = n + 1
        /\ i + 2 <= n + 1 => i + 2 <= n \/ i + 2 = n + 1
        /\ i + 3 <= n + 1 => i + 3 <= n \/ i + 3 = n + 1
    OBVIOUS
  <2> QED
    BY <1>2, <2>1 DEF Grammar
<1> QED
  BY <1>1, <1>2

\* Room for more frames after a place of the tape.
Added(F, n, q) == \A i \in 1..Len(q) : F[n + i] = q[i]
LEMMA Extend ==
    ASSUME NEW F \in Tapes, NEW n \in Nat, NEW q \in Seq(AnyFrame)
    PROVE  \E F2 \in Tapes : (\A i \in 1..n : F2[i] = F[i]) /\ Added(F2, n, q)
<1> DEFINE F2 == [i \in Nat |-> IF i <= n \/ i > n + Len(q) THEN F[i] ELSE q[i - n]]
<1>1. ASSUME NEW i \in Nat  PROVE  F2[i] \in AnyFrame
  <2>1. CASE i <= n \/ i > n + Len(q)
    BY <2>1 DEF Tapes
  <2>2. CASE ~(i <= n \/ i > n + Len(q))
    <3>1. i - n \in 1..Len(q)
      BY <2>2
    <3> QED
      BY <2>2, <3>1
  <2> QED
    BY <2>1, <2>2
<1>2. F2 \in Tapes
  BY <1>1 DEF Tapes
<1>3. \A i \in 1..n : F2[i] = F[i]
  OBVIOUS
<1>4. ASSUME NEW i \in 1..Len(q)  PROVE  F2[n + i] = q[i]
  <2>1. n + i \in Nat /\ ~(n + i <= n) /\ ~(n + i > n + Len(q)) /\ (n + i) - n = i
    OBVIOUS
  <2> QED
    BY <2>1
<1> QED
  BY <1>2, <1>3, <1>4 DEF Added

LEMMA PipedWrites ==
    ASSUME NEW F \in Tapes, NEW r \in Nat, NEW w \in Nat, NEW pp \in Seq(AnyFrame),
           Piped(F, r, w, pp)
    PROVE  Piped(F, r, w + 1, Append(pp, F[w + 1]))
<1>1. Len(Append(pp, F[w + 1])) = Len(pp) + 1 /\ F[w + 1] \in AnyFrame
  BY DEF Tapes
<1>2. ASSUME NEW i \in 1..(Len(pp) + 1)  PROVE  Append(pp, F[w + 1])[i] = F[r + i]
  <2>1. CASE i <= Len(pp)
    BY <1>1, <2>1 DEF Piped
  <2>2. CASE i = Len(pp) + 1
    <3>1. r + i = w + 1
      BY <2>2 DEF Piped
    <3> QED
      BY <1>1, <2>2, <3>1
  <2> QED
    BY <2>1, <2>2
<1> QED
  BY <1>1, <1>2 DEF Piped

LEMMA PipedReads ==
    ASSUME NEW F \in Tapes, NEW r \in Nat, NEW w \in Nat, NEW pp \in Seq(AnyFrame),
           Piped(F, r, w, pp), pp # <<>>
    PROVE  r + 1 <= w /\ Head(pp) = F[r + 1] /\ Piped(F, r + 1, w, Tail(pp))
<1>1. Len(pp) >= 1 /\ Len(Tail(pp)) = Len(pp) - 1 /\ Head(pp) = pp[1]
  OBVIOUS
<1>2. ASSUME NEW i \in 1..Len(Tail(pp))  PROVE  Tail(pp)[i] = F[(r + 1) + i]
  <2>1. Tail(pp)[i] = pp[i + 1] /\ i + 1 \in 1..Len(pp) /\ r + (i + 1) = (r + 1) + i
    BY <1>1
  <2> QED
    BY <2>1 DEF Piped
<1> QED
  BY <1>1, <1>2 DEF Piped

LEMMA PipedSame ==
    ASSUME NEW F \in Tapes, NEW F2 \in Tapes, NEW r \in Nat, NEW w \in Nat,
           NEW pp \in Seq(AnyFrame), Piped(F, r, w, pp), \A i \in 1..w : F2[i] = F[i]
    PROVE  Piped(F2, r, w, pp)
<1>1. ASSUME NEW i \in 1..Len(pp)  PROVE  pp[i] = F2[r + i]
  <2>1. r + i \in 1..w
    BY DEF Piped
  <2> QED
    BY <2>1 DEF Piped
<1> QED
  BY <1>1 DEF Piped

(***************************************************************************)
(* What the daemon adds.                                                   *)
(***************************************************************************)
LEMMA FramesAre ==
    ASSUME NEW x \in Nat, NEW s \in Snapshot(x)
    PROVE  /\ E!Frames(s) \in Seq(AnyFrame) /\ Len(E!Frames(s)) > 0
           /\ \A i \in 1..Len(E!Frames(s)) : E!Frames(s)[i].f \in {"begin", "chunk", "end", "error"}
           /\ \/ E!Frames(s) = <<E!Frame("error", 0, 0)>>
              \/ E!Frames(s) = <<E!Frame("begin", s.rev, 0), E!Frame("chunk", s.rev, x),
                                 E!Frame("chunk", s.rev, x), E!Frame("end", s.rev, 0)>>
<1>1. s.rev \in Nat /\ s.val = x
  BY DEF Snapshot
<1>2. /\ E!Frame("error", 0, 0) \in AnyFrame /\ E!Frame("begin", s.rev, 0) \in AnyFrame
      /\ E!Frame("chunk", s.rev, x) \in AnyFrame /\ E!Frame("end", s.rev, 0) \in AnyFrame
      /\ E!Frame("error", 0, 0).f = "error" /\ E!Frame("begin", s.rev, 0).f = "begin"
      /\ E!Frame("chunk", s.rev, x).f = "chunk" /\ E!Frame("end", s.rev, 0).f = "end"
  BY <1>1 DEF E!Frame, AnyFrame, FrameKinds
<1> DEFINE b == E!Frame("begin", s.rev, 0)
           k == E!Frame("chunk", s.rev, x)
           e == E!Frame("end", s.rev, 0)
           o == E!Frame("error", 0, 0)
           kinds == {"begin", "chunk", "end", "error"}
<1> HIDE DEF b, k, e, o
<1>3. /\ <<o>> \in Seq(AnyFrame) /\ Len(<<o>>) = 1
      /\ \A i \in 1..Len(<<o>>) : <<o>>[i].f \in kinds
  BY <1>2 DEF o
<1>4. {b, k, e} \subseteq AnyFrame /\ {b.f, k.f, e.f} \subseteq kinds
  BY <1>2 DEF b, k, e
<1>5. <<b, k, k, e>> \in Seq(AnyFrame) /\ Len(<<b, k, k, e>>) = 4
  BY <1>4
<1>6. ASSUME NEW i \in 1..Len(<<b, k, k, e>>)  PROVE  <<b, k, k, e>>[i].f \in kinds
  <2>1. i \in 1..4
    BY <1>5
  <2>2. i = 1 \/ i = 2 \/ i = 3 \/ i = 4
    BY <2>1
  <2>3. /\ <<b, k, k, e>>[1] = b /\ <<b, k, k, e>>[2] = k
        /\ <<b, k, k, e>>[3] = k /\ <<b, k, k, e>>[4] = e
    OBVIOUS
  <2> QED
    BY <1>4, <2>2, <2>3
<1>7. E!Frames(s) = <<o>> \/ E!Frames(s) = <<b, k, k, e>>
  BY <1>1 DEF E!Frames, b, k, e, o
<1>8. CASE E!Frames(s) = <<o>>
  BY <1>3, <1>8 DEF o
<1>9. CASE E!Frames(s) = <<b, k, k, e>>
  <2>1. E!Frames(s) = <<E!Frame("begin", s.rev, 0), E!Frame("chunk", s.rev, x),
                        E!Frame("chunk", s.rev, x), E!Frame("end", s.rev, 0)>>
    BY <1>9 DEF b, k, e
  <2>2. /\ E!Frames(s) \in Seq(AnyFrame) /\ Len(E!Frames(s)) > 0
        /\ \A i \in 1..Len(E!Frames(s)) : E!Frames(s)[i].f \in kinds
    BY <1>5, <1>6, <1>9
  <2> QED
    BY <2>1, <2>2
<1> QED
  BY <1>7, <1>8, <1>9

\* A tape to which more may be added.
Settled(F, n, now) == Grammar(F, n, now) /\ ~Open(F, n) /\ \A i \in 1..n : F[i].f # "lagged"

LEMMA AddSnapshot ==
    ASSUME NEW F \in Tapes, NEW n \in Nat, NEW now \in Nat, NEW x \in 0..now, NEW s \in Snapshot(x),
           Settled(F, n, now), Added(F, n, E!Frames(s))
    PROVE  /\ Settled(F, n + Len(E!Frames(s)), now)
           /\ \A w \in 0..n : Newest(F, n + Len(E!Frames(s)), w, x)
<1>1. x \in Nat /\ s.rev \in Nat
  BY DEF Snapshot
<1> DEFINE b == E!Frame("begin", s.rev, 0)
           k == E!Frame("chunk", s.rev, x)
           e == E!Frame("end", s.rev, 0)
           o == E!Frame("error", 0, 0)
<1>2. CASE E!Frames(s) = <<o>>
  <2> HIDE DEF o
  <2>1. Len(E!Frames(s)) = 1 /\ F[n + 1] = o
    BY <1>2 DEF Added
  <2>2. F[n + 1].f = "error"
    BY <2>1 DEF o, E!Frame
  <2>3. Settled(F, n + 1, now)
    BY <2>2, AddPlain DEF Settled, Plain
  <2>4. ASSUME NEW w \in 0..n  PROVE  Newest(F, n + 1, w, x)
    <3>1. n + 1 \in (w + 1)..(n + 1)
      OBVIOUS
    <3> QED
      BY <2>2, <3>1 DEF Newest
  <2> QED
    BY <2>1, <2>3, <2>4
<1>3. CASE E!Frames(s) = <<b, k, k, e>>
  <2> HIDE DEF b, k, e
  <2>1. Len(<<b, k, k, e>>) = 4
    OBVIOUS
  <2>2. /\ <<b, k, k, e>>[1] = b /\ <<b, k, k, e>>[2] = k
        /\ <<b, k, k, e>>[3] = k /\ <<b, k, k, e>>[4] = e
    OBVIOUS
  <2>3. F[n + 1] = b /\ F[n + 2] = k /\ F[n + 3] = k /\ F[n + 4] = e
    <3>1. \A i \in 1..4 : F[n + i] = <<b, k, k, e>>[i]
      BY <1>3, <2>1 DEF Added
    <3> QED
      BY <2>2, <3>1
  <2>4. Settled(F, n + 4, now)
    BY <1>1, <2>3, AddBlock DEF Settled, b, k, e
  <2>5. /\ F[n + 1].f = "begin" /\ F[n + 2].f = "chunk" /\ F[n + 3].f = "chunk" /\ F[n + 4].f = "end"
        /\ F[n + 2].val = x
    BY <2>3 DEF b, k, e, E!Frame
  <2>6. ASSUME NEW w \in 0..n  PROVE  Newest(F, n + 4, w, x)
    <3>1. n + 1 \in 1..(n + 4) /\ (n + 1) + 3 <= n + 4 /\ (n + 1) + 1 = n + 2
      OBVIOUS
    <3>2. ASSUME NEW i \in ((n + 1) + 1)..(n + 4)  PROVE  F[i].f # "begin"
      <4>1. i = n + 2 \/ i = n + 3 \/ i = n + 4
        OBVIOUS
      <4> QED
        BY <2>5, <4>1
    <3> QED
      BY <2>5, <3>1, <3>2 DEF Newest
  <2> QED
    BY <1>3, <2>1, <2>4, <2>6
<1> QED
  BY <1>1, <1>2, <1>3, FramesAre

\* What the tape offers to a receiver: news of the older kind, and a snapshot.
LEMMA AddNews ==
    ASSUME NEW F \in Tapes, NEW n \in Nat, NEW now \in Nat, NEW s \in Snapshot(now),
           Settled(F, n, now), NEW older \in {<<>>, <<E!Frame("event", 0, 0)>>},
           Added(F, n, older \o E!Frames(s))
    PROVE  LET m == n + Len(older \o E!Frames(s))
           IN  Settled(F, m, now) /\ \A w \in 0..n : Newest(F, m, w, now)
<1> DEFINE q == E!Frames(s)
<1>1. q \in Seq(AnyFrame)
  BY FramesAre
<1> HIDE DEF q
<1>2. CASE older = <<>>
  <2>1. older \o q = q
    BY <1>1, <1>2
  <2> QED
    BY <2>1, AddSnapshot DEF q
<1>3. CASE older = <<E!Frame("event", 0, 0)>>
  <2> DEFINE v == E!Frame("event", 0, 0)
  <2>0. v.f = "event" /\ v \in AnyFrame
    BY DEF E!Frame, AnyFrame, FrameKinds
  <2>1. older = <<v>>
    BY <1>3
  <2> HIDE DEF v
  <2>2. Len(older \o q) = 1 + Len(q) /\ (older \o q)[1] = v
    BY <1>1, <2>0, <2>1
  <2>3. \A i \in 1..Len(q) : (older \o q)[1 + i] = q[i]
    BY <1>1, <2>0, <2>1
  <2>4. F[n + 1] = v
    BY <2>2 DEF Added, q
  <2>5. Settled(F, n + 1, now)
    BY <2>0, <2>4, AddPlain DEF Settled, Plain
  <2>6. ASSUME NEW i \in 1..Len(q)  PROVE  F[(n + 1) + i] = q[i]
    <3>1. 1 + i \in 1..Len(older \o q) /\ n + (1 + i) = (n + 1) + i
      BY <1>1, <2>2
    <3> QED
      BY <2>3, <3>1 DEF Added, q
  <2>7. Added(F, n + 1, q)
    BY <2>6 DEF Added
  <2>8. Settled(F, (n + 1) + Len(q), now) /\ \A w \in 0..(n + 1) : Newest(F, (n + 1) + Len(q), w, now)
    BY <2>5, <2>7, AddSnapshot DEF q
  <2>9. (n + 1) + Len(q) = n + Len(older \o q) /\ 0..n \subseteq 0..(n + 1)
    BY <1>1, <2>2
  <2> QED
    BY <2>8, <2>9 DEF q
<1> QED
  BY <1>2, <1>3

(***************************************************************************)
(* What the client reads.                                                  *)
(***************************************************************************)
\* Nothing but a chunk, an end or word of a loss comes inside a snapshot.
LEMMA OpenGoesOn ==
    ASSUME NEW F \in Tapes, NEW n \in Nat, NEW r \in Nat, NEW now \in Nat, r + 1 <= n,
           Grammar(F, n, now), F[r + 1].f \notin {"chunk", "end", "lagged"}
    PROVE  ~Open(F, r)
<1>1. (r - 1) + 2 = r + 1 /\ (r - 2) + 3 = r + 1 /\ (r - 1) + 1 = r
  OBVIOUS
<1>2. ~Begins(F, r)
  BY DEF Grammar, Begins
<1>3. ~Begins(F, r - 1)
  <2> SUFFICES ASSUME Begins(F, r - 1)  PROVE  FALSE
    OBVIOUS
  <2>1. r - 1 \in 1..n /\ r \in 1..n /\ F[r - 1].f = "begin"
    BY DEF Begins
  <2>2. F[r + 1] = F[r] /\ (F[r].f = "lagged" \/ F[r].f = "chunk")
    BY <1>1, <2>1 DEF Grammar
  <2> QED
    BY <2>1, <2>2 DEF Grammar
<1>4. ~Begins(F, r - 2)
  <2> SUFFICES ASSUME Begins(F, r - 2)  PROVE  FALSE
    OBVIOUS
  <2>1. r - 2 \in 1..n /\ F[r - 2].f = "begin"
    BY DEF Begins
  <2> QED
    BY <1>1, <2>1 DEF Grammar
<1> QED
  BY <1>2, <1>3, <1>4 DEF Open

\* A frame that ends no snapshot leaves the last whole one what it was.
LEMMA WholeSame ==
    ASSUME NEW F \in Tapes, NEW n \in Nat, NEW r \in Nat, NEW now \in Nat, r + 1 <= n,
           Grammar(F, n, now), F[r + 1].f \notin {"end", "lagged"}, NEW rd, ReadUpTo(F, r, rd),
           NEW b \in 1..(r + 1), F[b].f = "begin", b + 3 <= r + 1,
           \A i \in (b + 1)..(r + 1) : F[i].f # "begin"
    PROVE  rd.whole = {<<F[b + 1].val, F[b + 1].val>>}
<1>1. b \in 1..n /\ b + 3 <= n
  OBVIOUS
<1>2. b + 3 # r + 1
  BY <1>1 DEF Grammar
<1>3. b \in 1..r /\ b + 3 <= r /\ \A i \in (b + 1)..r : F[i].f # "begin"
  BY <1>2
<1> QED
  BY <1>3 DEF ReadUpTo

LEMMA ReadBegin ==
    ASSUME NEW F \in Tapes, NEW n \in Nat, NEW r \in Nat, NEW now \in Nat, r + 1 <= n,
           Grammar(F, n, now), NEW rd \in Readers, ReadUpTo(F, r, rd), F[r + 1].f = "begin"
    PROVE  /\ E!Reads(rd, F[r + 1]) = [rd EXCEPT !.rev = {F[r + 1].rev}, !.got = <<>>]
           /\ E!Reads(rd, F[r + 1]) \in Readers
           /\ ReadUpTo(F, r + 1, E!Reads(rd, F[r + 1]))
<1>1. ~Open(F, r) /\ rd.rev = {}
  BY OpenGoesOn DEF ReadUpTo
<1> DEFINE q == E!Reads(rd, F[r + 1])
<1>2. q = [rd EXCEPT !.rev = {F[r + 1].rev}, !.got = <<>>]
  BY <1>1 DEF E!Reads
<1>3. F[r + 1].rev \in Nat
  BY DEF Tapes, AnyFrame
<1>31. {F[r + 1].rev} \in Revs /\ <<>> \in Gots
  BY <1>3 DEF Revs, Gots
<1>4. q \in Readers /\ q.rev = {F[r + 1].rev} /\ q.got = <<>> /\ q.whole = rd.whole
  BY <1>2, <1>31 DEF Readers
<1> HIDE DEF q
<1>5. Begins(F, r + 1) /\ ~Begins(F, r) /\ ~Begins(F, r - 1)
  BY <1>1 DEF Open, Begins
<1>6. (r + 1) - 1 = r /\ (r + 1) - 2 = r - 1
  OBVIOUS
<1>7. ReadUpTo(F, r + 1, q)
  <2>1. ASSUME NEW b \in 1..(r + 1), F[b].f = "begin", b + 3 <= r + 1,
               \A i \in (b + 1)..(r + 1) : F[i].f # "begin"
        PROVE  q.whole = {<<F[b + 1].val, F[b + 1].val>>}
    BY <1>4, <2>1, WholeSame
  <2> QED
    BY <1>4, <1>5, <1>6, <2>1 DEF ReadUpTo, Open
<1> QED
  BY <1>2, <1>4, <1>7 DEF q

LEMMA ReadChunk ==
    ASSUME NEW F \in Tapes, NEW n \in Nat, NEW r \in Nat, NEW now \in Nat, r + 1 <= n,
           Grammar(F, n, now), NEW rd \in Readers, ReadUpTo(F, r, rd), F[r + 1].f = "chunk"
    PROVE  /\ E!Reads(rd, F[r + 1]) = [rd EXCEPT !.got = Append(@, F[r + 1].val)]
           /\ E!Reads(rd, F[r + 1]) \in Readers
           /\ ReadUpTo(F, r + 1, E!Reads(rd, F[r + 1]))
<1> DEFINE q == E!Reads(rd, F[r + 1])
           q2 == [rd EXCEPT !.got = Append(@, F[r + 1].val)]
<1>1. F[r + 1].val \in Nat /\ F[r + 1].rev \in Nat
  BY DEF Tapes, AnyFrame
<1>11. rd.got \in Seq(Nat) /\ Append(rd.got, F[r + 1].val) \in Gots
  <2>1. rd.got \in Gots
    BY DEF Readers
  <2> QED
    BY <1>1, <2>1 DEF Gots
<1>2. q2 \in Readers /\ q2.rev = rd.rev /\ q2.got = Append(rd.got, F[r + 1].val)
      /\ q2.whole = rd.whole
  BY <1>11 DEF Readers
<1>3. rd.rev = {F[r + 1].rev} => q = q2
  BY DEF E!Reads
<1> HIDE DEF q, q2
<1>4. (r + 1) - 1 = r /\ (r + 1) - 2 = r - 1 /\ (r - 1) + 1 = r /\ (r - 1) + 2 = r + 1
  OBVIOUS
<1>5. ~Begins(F, r + 1)
  BY DEF Begins
<1>6. \A b \in 1..(r + 1) : F[b].f = "begin" /\ b + 3 <= r + 1
                            /\ (\A i \in (b + 1)..(r + 1) : F[i].f # "begin") =>
          q2.whole = {<<F[b + 1].val, F[b + 1].val>>}
  BY <1>2, WholeSame
<1>7. CASE Begins(F, r)
  <2>1. F[r].f = "begin" /\ r \in 1..n
    BY <1>7 DEF Begins
  <2>2. F[r + 1].rev = F[r].rev
    BY <2>1 DEF Grammar
  <2>21. rd.rev = {F[r].rev} /\ rd.got = <<>>
    BY <1>7 DEF ReadUpTo
  <2>22. Append(<<>>, F[r + 1].val) = <<F[r + 1].val>>
    BY <1>1
  <2>3. q = q2 /\ q2.got = <<F[r + 1].val>> /\ q2.rev = {F[r].rev}
    BY <1>2, <1>3, <2>2, <2>21, <2>22
  <2>4. ~Begins(F, r - 1)
    <3> SUFFICES ASSUME Begins(F, r - 1)  PROVE  FALSE
      OBVIOUS
    <3>1. r - 1 \in 1..n /\ F[r - 1].f = "begin"
      BY DEF Begins
    <3> QED
      BY <1>4, <2>1, <3>1 DEF Grammar
  <2>5. ReadUpTo(F, r + 1, q2)
    BY <1>4, <1>5, <1>6, <1>7, <2>3, <2>4 DEF ReadUpTo, Open
  <2> QED
    BY <1>2, <2>3, <2>5 DEF q, q2
<1>8. CASE ~Begins(F, r) /\ Begins(F, r - 1)
  <2>1. F[r - 1].f = "begin" /\ r - 1 \in 1..n /\ r \in 1..n
    BY <1>8 DEF Begins
  <2>2. F[r + 1] = F[r]
    BY <1>4, <2>1 DEF Grammar
  <2>3. F[r].rev = F[r - 1].rev
    BY <1>4, <2>1, <2>2 DEF Grammar
  <2>4. rd.rev = {F[r - 1].rev} /\ rd.got = <<F[r].val>>
    BY <1>8 DEF ReadUpTo
  <2>41. F[r].val \in Nat
    BY DEF Tapes, AnyFrame
  <2>42. Append(<<F[r].val>>, F[r + 1].val) = <<F[r].val, F[r + 1].val>>
    <3> DEFINE x == F[r].val
               y == F[r + 1].val
    <3>1. x \in Nat /\ y \in Nat
      BY <1>1, <2>41
    <3> HIDE DEF x, y
    <3> DEFINE p == Append(<<x>>, y)
    <3>2. p \in Seq(Nat) /\ Len(p) = 2 /\ p[1] = x /\ p[2] = y
      BY ONLY <3>1
    <3>3. <<x, y>> \in Seq(Nat) /\ Len(<<x, y>>) = 2
      BY ONLY <3>1
    <3> HIDE DEF p
    <3>4. \A i \in 1..Len(p) : p[i] = <<x, y>>[i]
      BY ONLY <3>2
    <3>5. p = <<x, y>>
      BY <3>2, <3>3, <3>4, SeqEqual
    <3> QED
      BY <3>5 DEF x, y, p
  <2>5. q = q2 /\ q2.got = <<F[r].val, F[r + 1].val>> /\ q2.rev = {F[r - 1].rev}
    BY <1>2, <1>3, <2>2, <2>3, <2>4, <2>42
  <2>6. ReadUpTo(F, r + 1, q2)
    BY <1>4, <1>5, <1>6, <1>8, <2>5 DEF ReadUpTo, Open
  <2> QED
    BY <1>2, <2>5, <2>6 DEF q, q2
<1>9. Begins(F, r) \/ Begins(F, r - 1)
  BY <1>4 DEF Grammar
<1> QED
  BY <1>7, <1>8, <1>9

LEMMA ReadEnd ==
    ASSUME NEW F \in Tapes, NEW n \in Nat, NEW r \in Nat, NEW now \in Nat, r + 1 <= n,
           Grammar(F, n, now), NEW rd \in Readers, ReadUpTo(F, r, rd), F[r + 1].f = "end"
    PROVE  /\ E!Reads(rd, F[r + 1]) \in Readers
           /\ E!Reads(rd, F[r + 1]).kind = rd.kind
           /\ E!Reads(rd, F[r + 1]).at \in {rd.at, "done"}
           /\ E!Reads(rd, F[r + 1]).whole = {rd.got}
           /\ ReadUpTo(F, r + 1, E!Reads(rd, F[r + 1]))
           /\ \E v \in 0..now : rd.got = <<v, v>>
<1> DEFINE q == E!Reads(rd, F[r + 1])
           q2 == [rd EXCEPT !.rev = {}, !.whole = {rd.got}, !.got = <<>>,
                            !.at = IF rd.kind = "query" THEN "done" ELSE @]
<1>0. {} \in Revs /\ <<>> \in Gots /\ {rd.got} \in Wholes
  BY DEF Revs, Gots, Wholes, Readers
<1>1. /\ q2 \in Readers /\ q2.rev = {} /\ q2.whole = {rd.got}
      /\ q2.kind = rd.kind /\ q2.at \in {rd.at, "done"}
  BY <1>0 DEF Readers
<1>2. rd.rev = {F[r + 1].rev} => q = q2
  BY DEF E!Reads
<1> HIDE DEF q, q2
<1>3. (r + 1) - 1 = r /\ (r + 1) - 2 = r - 1 /\ (r + 1) - 3 = r - 2
      /\ (r - 2) + 1 = r - 1 /\ (r - 2) + 2 = r /\ (r - 2) + 3 = r + 1 /\ (r - 1) + 1 = r
  OBVIOUS
<1>4. Begins(F, r - 2)
  BY <1>3 DEF Grammar
<1>5. F[r - 2].f = "begin" /\ r - 2 \in 1..n /\ r - 1 \in 1..n /\ r \in 1..n
  BY <1>4 DEF Begins
<1>6. F[r].f # "lagged" /\ F[r - 1].f # "lagged"
  BY <1>5 DEF Grammar
<1>7. F[r - 1].f = "chunk" /\ F[r - 1].val <= now
  BY <1>3, <1>5, <1>6 DEF Grammar
<1>71. F[r] = F[r - 1]
  BY <1>3, <1>5, <1>6 DEF Grammar
<1>72. F[r + 1].rev = F[r - 2].rev
  BY <1>3, <1>5 DEF Grammar
<1>8. F[r - 1].val \in 0..now
  BY <1>5, <1>7 DEF Tapes, AnyFrame
<1>9. rd.rev = {F[r - 2].rev} /\ rd.got = <<F[r - 1].val, F[r - 1].val>>
  BY <1>4, <1>71 DEF ReadUpTo
<1>10. q = q2
  BY <1>2, <1>72, <1>9
<1>11. ~Begins(F, r + 1) /\ ~Begins(F, r) /\ ~Begins(F, r - 1)
  BY <1>7, <1>71 DEF Begins
<1>12. ASSUME NEW b \in 1..(r + 1), F[b].f = "begin", b + 3 <= r + 1,
              \A i \in (b + 1)..(r + 1) : F[i].f # "begin"
       PROVE  q2.whole = {<<F[b + 1].val, F[b + 1].val>>}
  <2>1. b = r - 2
    BY <1>5, <1>12
  <2> QED
    BY <1>1, <1>3, <1>9, <2>1
<1>13. ReadUpTo(F, r + 1, q2)
  BY <1>1, <1>3, <1>11, <1>12 DEF ReadUpTo, Open
<1> QED
  BY <1>1, <1>8, <1>9, <1>10, <1>13 DEF q

\* Frames outside of snapshots.
LEMMA ReadPlain ==
    ASSUME NEW F \in Tapes, NEW n \in Nat, NEW r \in Nat, NEW now \in Nat, r + 1 <= n,
           Grammar(F, n, now), NEW rd \in Readers, ReadUpTo(F, r, rd),
           F[r + 1].f \in {"event", "heartbeat", "ack", "answer"},
           F[r + 1].f \in {"event", "heartbeat"} => rd.kind = "watch"
    PROVE  /\ E!Reads(rd, F[r + 1]) \in {rd, [rd EXCEPT !.at = "done"]}
           /\ ReadUpTo(F, r + 1, E!Reads(rd, F[r + 1]))
<1> DEFINE q == E!Reads(rd, F[r + 1])
<1>1. ~Open(F, r) /\ rd.rev = {}
  BY OpenGoesOn DEF ReadUpTo
<1>2. q \in {rd, [rd EXCEPT !.at = "done"]}
  BY <1>1 DEF E!Reads
<1>3. q.rev = {} /\ q.whole = rd.whole
  BY <1>1, <1>2 DEF Readers
<1> HIDE DEF q
<1>4. ~Begins(F, r + 1) /\ ~Begins(F, r) /\ ~Begins(F, r - 1)
  BY <1>1 DEF Open, Begins
<1>5. (r + 1) - 1 = r /\ (r + 1) - 2 = r - 1
  OBVIOUS
<1>6. ASSUME NEW b \in 1..(r + 1), F[b].f = "begin", b + 3 <= r + 1,
             \A i \in (b + 1)..(r + 1) : F[i].f # "begin"
      PROVE  q.whole = {<<F[b + 1].val, F[b + 1].val>>}
  BY <1>3, <1>6, WholeSame
<1>7. ReadUpTo(F, r + 1, q)
  BY <1>3, <1>4, <1>5, <1>6 DEF ReadUpTo, Open
<1> QED
  BY <1>2, <1>7 DEF q

LEMMA ReadOne ==
    ASSUME NEW F \in Tapes, NEW n \in Nat, NEW r \in Nat, NEW now \in Nat, r + 1 <= n,
           Grammar(F, n, now), NEW rd \in Readers, rd.at = "acked", ReadUpTo(F, r, rd),
           Doubles(rd, now), F[r + 1].f \in {"event", "heartbeat"} => rd.kind = "watch"
    PROVE  LET q == E!Reads(rd, F[r + 1])
           IN  /\ q \in Readers /\ q.kind = rd.kind /\ q.at \in {"acked", "done", "told"}
               /\ q.at = "acked" => ReadUpTo(F, r + 1, q)
               /\ Doubles(q, now)
<1> DEFINE q == E!Reads(rd, F[r + 1])
<1> HIDE DEF q
<1> SUFFICES /\ q \in Readers /\ q.kind = rd.kind /\ q.at \in {"acked", "done", "told"}
             /\ q.at = "acked" => ReadUpTo(F, r + 1, q)
             /\ Doubles(q, now)
  BY DEF q
<1>1. CASE F[r + 1].f = "begin"
  <2>1. q = [rd EXCEPT !.rev = {F[r + 1].rev}, !.got = <<>>] /\ q \in Readers /\ ReadUpTo(F, r + 1, q)
    BY <1>1, ReadBegin DEF q
  <2>2. q.kind = rd.kind /\ q.at = rd.at /\ q.whole = rd.whole
    BY <2>1 DEF Readers
  <2> QED
    BY <2>1, <2>2 DEF Doubles
<1>2. CASE F[r + 1].f = "chunk"
  <2>1. q = [rd EXCEPT !.got = Append(@, F[r + 1].val)] /\ q \in Readers /\ ReadUpTo(F, r + 1, q)
    BY <1>2, ReadChunk DEF q
  <2>2. q.kind = rd.kind /\ q.at = rd.at /\ q.whole = rd.whole
    BY <2>1 DEF Readers
  <2> QED
    BY <2>1, <2>2 DEF Doubles
<1>3. CASE F[r + 1].f = "end"
  <2>1. /\ q \in Readers /\ q.kind = rd.kind /\ q.at \in {rd.at, "done"} /\ q.whole = {rd.got}
        /\ ReadUpTo(F, r + 1, q) /\ \E v \in 0..now : rd.got = <<v, v>>
    BY <1>3, ReadEnd DEF q
  <2> QED
    BY <2>1 DEF Doubles
<1>4. CASE F[r + 1].f \in {"event", "heartbeat", "ack", "answer"}
  <2>1. q \in {rd, [rd EXCEPT !.at = "done"]} /\ ReadUpTo(F, r + 1, q)
    BY <1>4, ReadPlain DEF q
  <2>2. q \in Readers /\ q.kind = rd.kind /\ q.at \in {"acked", "done"} /\ q.whole = rd.whole
    BY <2>1 DEF Readers
  <2> QED
    BY <2>1, <2>2 DEF Doubles
<1>5. CASE F[r + 1].f \in {"lagged", "error", "refused"}
  <2>1. q = [E!Nobody EXCEPT !.kind = rd.kind, !.at = "told"]
    BY <1>5 DEF E!Reads, q
  <2>0. {} \in Revs /\ <<>> \in Gots /\ {} \in Wholes
    BY DEF Revs, Gots, Wholes
  <2>2. q \in Readers /\ q.kind = rd.kind /\ q.at = "told" /\ q.whole = {}
    BY <2>0, <2>1 DEF Readers, E!Nobody
  <2> QED
    BY <2>2 DEF Doubles
<1>6. F[r + 1].f \in FrameKinds
  BY DEF Tapes, AnyFrame
<1> QED
  BY <1>1, <1>2, <1>3, <1>4, <1>5, <1>6 DEF FrameKinds

(***************************************************************************)
(* One connection.                                                         *)
(***************************************************************************)
LEMMA WrittenOn ==
    ASSUME NEW F \in Tapes, NEW n \in Nat, NEW r \in Nat, NEW w \in Nat, NEW rd, NEW pp \in Tales,
           NEW now \in Nat, Written(F, n, r, w, rd, pp, now), w + 1 <= n
    PROVE  Written(F, n, r, w + 1, rd, Append(pp, F[w + 1]), now)
BY PipedWrites DEF Written, Tales

\* What is cut off a tape that ends here, or is not yet on it.
LEMMA WrittenTo ==
    ASSUME NEW F \in Tapes, NEW n \in Nat, NEW r \in Nat, NEW w \in Nat, NEW rd, NEW pp \in Tales,
           NEW now \in Nat, Written(F, n, r, w, rd, pp, now),
           NEW F2 \in Tapes, NEW m \in w..n, \A i \in 1..m : F2[i] = F[i],
           NEW now2 \in Nat, now <= now2
    PROVE  Written(F2, m, r, w, rd, pp, now2)
<1>1. m \in Nat /\ m <= n /\ w <= m /\ r <= w
  BY DEF Written, Piped
<1>2. Grammar(F2, m, now2)
  BY <1>1, GrammarSame DEF Written
<1>3. \A i \in 1..r : F2[i] = F[i]
  BY <1>1
<1>4. ReadUpTo(F2, r, rd)
  BY <1>3, ReadSame DEF Written
<1>5. \A i \in 1..w : F2[i] = F[i]
  BY <1>1
<1>6. Piped(F2, r, w, pp)
  BY <1>5, PipedSame DEF Written, Tales
<1>7. rd.kind # "watch" => \A i \in 1..m : F2[i].f \notin {"event", "heartbeat"}
  BY <1>1 DEF Written
<1> QED
  BY <1>1, <1>2, <1>4, <1>6, <1>7 DEF Written

Shut == [E!Unborn EXCEPT !.at = "closed"]
LEMMA ShutIs ==
    /\ Shut \in StreamServers /\ Shut.at = "closed" /\ Shut.unread = <<>> /\ Shut.todo = <<>>
    /\ ~Shut.missed /\ ~Shut.inside
<1>1. <<>> \in Tales
  BY DEF Tales
<1> QED
  BY <1>1 DEF Shut, E!Unborn, StreamServers

\* A handler that ends leaves a tape that ends with what it wrote.
LEMMA Closes ==
    ASSUME NEW now \in Nat, NEW rd \in Readers, NEW pp \in Tales, rd.kind # "none",
           rd.at \notin {"idle", "connecting", "confused"}, Doubles(rd, now),
           rd.at = "acked" => \E F \in Tapes, n, r, w \in Nat : Written(F, n, r, w, rd, pp, now)
    PROVE  OneStream(Shut, rd, pp, now)
<1>1. Kept(Shut, rd, pp, now)
  BY ShutIs, EdgesAssumption DEF Kept, Receives, E!EventStreamAssumption
<1>2. ASSUME rd.at = "acked"
      PROVE  \E F \in Tapes, n, r, w \in Nat : Follows(F, n, r, w, Shut, rd, pp, now)
  <2>1. PICK F \in Tapes, n \in Nat, r \in Nat, w \in Nat : Written(F, n, r, w, rd, pp, now)
    BY <1>2
  <2>2. Written(F, w, r, w, rd, pp, now)
    <3>1. w \in w..n
      BY <2>1 DEF Written
    <3> QED
      BY <2>1, <3>1, WrittenTo
  <2>3. Ahead(F, w, w, Shut, rd, now)
    BY ShutIs DEF Ahead, Receives
  <2> QED
    BY <2>2, <2>3 DEF Follows
<1> QED
  BY <1>1, <1>2 DEF OneStream

\* Steps of one client leave the others as they were.
LEMMA OneClient ==
    ASSUME StreamInv, NEW c \in Clients, world' = world, cached' = cached, queue' \in Seq(Clients),
           server' = [server EXCEPT ![c] = server'[c]], client' = [client EXCEPT ![c] = client'[c]],
           pipe' = [pipe EXCEPT ![c] = pipe'[c]],
           OneStream(server'[c], client'[c], pipe'[c], world),
           Receives(server'[c], client'[c]) => Receives(server[c], client[c])
    PROVE  StreamInv'
<1>1. server'[c] \in StreamServers /\ client'[c] \in Readers /\ pipe'[c] \in Tales
  BY DEF OneStream, Kept
<1>2. /\ server' \in [Clients -> StreamServers] /\ client' \in [Clients -> Readers]
      /\ pipe' \in [Clients -> Tales]
  BY <1>1 DEF StreamInv
<1>3. ASSUME NEW d \in Clients, d # c
      PROVE  server'[d] = server[d] /\ client'[d] = client[d] /\ pipe'[d] = pipe[d]
  BY <1>3 DEF StreamInv
<1>4. ASSUME NEW d \in Clients  PROVE  OneStream(server'[d], client'[d], pipe'[d], world')
  <2>1. CASE d = c
    BY <2>1
  <2>2. CASE d # c
    <3>1. OneStream(server[d], client[d], pipe[d], world)
      BY DEF StreamInv
    <3> QED
      BY <1>3, <2>2, <3>1
  <2> QED
    BY <2>1, <2>2
<1>5. ASSUME NEW d \in Clients, Receives(server'[d], client'[d])
      PROVE  \E s \in Snapshot(world') : cached' = {s}
  <2>1. Receives(server[d], client[d])
    BY <1>3, <1>5
  <2> QED
    BY <2>1 DEF StreamInv
<1>6. world' \in Nat /\ (cached' = {} \/ \E v \in 0..world' : \E s \in Snapshot(v) : cached' = {s})
  BY DEF StreamInv
<1> QED
  BY <1>2, <1>4, <1>5, <1>6 DEF StreamInv

(***************************************************************************)
(* The steps of one connection.                                            *)
(***************************************************************************)
LEMMA KeptHere ==
    ASSUME StreamInv, NEW c \in Clients
    PROVE  /\ OneStream(server[c], client[c], pipe[c], world)
           /\ server[c] \in StreamServers /\ client[c] \in Readers /\ pipe[c] \in Tales /\ world \in Nat
           /\ \A x : [server EXCEPT ![c] = x][c] = x
           /\ \A x : [client EXCEPT ![c] = x][c] = x
           /\ \A x : [pipe EXCEPT ![c] = x][c] = x
           /\ server = [server EXCEPT ![c] = server[c]]
           /\ client = [client EXCEPT ![c] = client[c]]
           /\ pipe = [pipe EXCEPT ![c] = pipe[c]]
BY DEF StreamInv

\* What the client is: only its kind matters to what is on its way.
LEMMA AheadSame ==
    ASSUME NEW F, NEW n, NEW w, NEW sv, NEW rd, NEW rd2, NEW now, rd2.kind = rd.kind,
           Ahead(F, n, w, sv, rd, now)
    PROVE  Ahead(F, n, w, sv, rd2, now)
BY DEF Ahead, Receives

LEMMA StreamAccept ==
    ASSUME StreamInv, NEW c \in Clients, E!Accept(c)
    PROVE  StreamInv'
<1> DEFINE sv == [server[c] EXCEPT !.at = "reading"]
           rd == [client[c] EXCEPT !.at = "acked"]
<1>1. /\ client[c].at = "connecting" /\ world' = world /\ cached' = cached /\ queue' = queue
      /\ server' = [server EXCEPT ![c] = sv] /\ client' = [client EXCEPT ![c] = rd]
      /\ pipe' = [pipe EXCEPT ![c] = pipe[c]]
  BY KeptHere DEF E!Accept
<1>2. Kept(server[c], client[c], pipe[c], world)
  BY KeptHere DEF OneStream
<1>3. /\ server[c].at = "none" /\ client[c].kind # "none" /\ client[c].rev = {}
      /\ client[c].whole = {} /\ pipe[c] = <<>>
      /\ server[c].unread = <<>> /\ ~server[c].missed /\ server[c].todo = <<>> /\ ~server[c].inside
  BY <1>1, <1>2 DEF Kept
<1>4. /\ sv \in StreamServers /\ sv.at = "reading" /\ sv.unread = <<>> /\ ~sv.missed
      /\ sv.todo = <<>> /\ ~sv.inside
  BY <1>3, KeptHere DEF StreamServers
<1>5. /\ rd \in Readers /\ rd.at = "acked" /\ rd.kind = client[c].kind /\ rd.rev = {} /\ rd.whole = {}
  BY <1>3, KeptHere DEF Readers
<1> HIDE DEF sv, rd
<1>6. Kept(sv, rd, pipe[c], world)
  BY <1>2, <1>3, <1>4, <1>5 DEF Kept, Receives, Doubles
<1>7. \E F \in Tapes, n, r, w \in Nat : Follows(F, n, r, w, sv, rd, pipe[c], world)
  <2> DEFINE F == [i \in Nat |-> E!Frame("event", 0, 0)]
  <2>1. F \in Tapes
    BY DEF Tapes, AnyFrame, FrameKinds, E!Frame
  <2> HIDE DEF F
  <2>2. Grammar(F, 0, world) /\ Piped(F, 0, 0, pipe[c])
    BY <1>3 DEF Grammar, Piped
  <2>3. ~Begins(F, 0) /\ ~Begins(F, 0 - 1) /\ ~Begins(F, 0 - 2)
    BY DEF Begins
  <2>4. ReadUpTo(F, 0, rd)
    BY <1>5, <2>3 DEF ReadUpTo
  <2>5. Ahead(F, 0, 0, sv, rd, world)
    BY <1>4 DEF Ahead, Receives
  <2> QED
    BY <2>1, <2>2, <2>4, <2>5 DEF Follows, Written
<1>8. OneStream(sv, rd, pipe[c], world)
  BY <1>6, <1>7 DEF OneStream
<1>9. ~Receives(sv, rd)
  BY <1>4 DEF Receives
<1>10. server'[c] = sv /\ client'[c] = rd /\ pipe'[c] = pipe[c] /\ queue' \in Seq(Clients)
  BY <1>1, KeptHere DEF StreamInv
<1> QED
  BY <1>1, <1>8, <1>9, <1>10, OneClient

LEMMA StreamAsk ==
    ASSUME StreamInv, NEW c \in Clients, E!Ask(c)
    PROVE  StreamInv'
<1> DEFINE sv == [server[c] EXCEPT !.at = "asked"]
<1>1. /\ server[c].at = "reading" /\ world' = world /\ cached' = cached /\ queue' = Append(queue, c)
      /\ server' = [server EXCEPT ![c] = sv] /\ client' = [client EXCEPT ![c] = client[c]]
      /\ pipe' = [pipe EXCEPT ![c] = pipe[c]]
  BY KeptHere DEF E!Ask
<1>2. /\ sv \in StreamServers /\ sv.at = "asked" /\ sv.unread = server[c].unread
      /\ sv.missed = server[c].missed /\ sv.todo = server[c].todo /\ sv.inside = server[c].inside
  BY KeptHere DEF StreamServers
<1> HIDE DEF sv
<1>3. Kept(server[c], client[c], pipe[c], world)
  BY KeptHere DEF OneStream
<1>4. Kept(sv, client[c], pipe[c], world)
  BY <1>1, <1>2, <1>3 DEF Kept, Receives
<1>5. ASSUME client[c].at = "acked"
      PROVE  \E F \in Tapes, n, r, w \in Nat : Follows(F, n, r, w, sv, client[c], pipe[c], world)
  <2>1. PICK F \in Tapes, n \in Nat, r \in Nat, w \in Nat :
               Follows(F, n, r, w, server[c], client[c], pipe[c], world)
    BY <1>5, KeptHere DEF OneStream
  <2>2. Ahead(F, n, w, sv, client[c], world)
    BY <1>1, <1>2, <2>1 DEF Follows, Ahead, Receives
  <2> QED
    BY <2>1, <2>2 DEF Follows
<1>6. OneStream(sv, client[c], pipe[c], world)
  BY <1>4, <1>5 DEF OneStream
<1>7. ~Receives(sv, client[c])
  BY <1>2 DEF Receives
<1>8. server'[c] = sv /\ client'[c] = client[c] /\ pipe'[c] = pipe[c] /\ queue' \in Seq(Clients)
  BY <1>1, KeptHere DEF StreamInv
<1> QED
  BY <1>1, <1>6, <1>7, <1>8, OneClient

\* A client that no longer reads.
LEMMA Away ==
    ASSUME NEW now \in Nat, NEW sv, NEW rd, NEW pp, Kept(sv, rd, pp, now), NEW q \in Tales,
           NEW t \in {"told", "gone"}, rd.at # "idle",
           q = <<>> \/ (rd.at # "connecting" /\ q = pp)
    PROVE  OneStream(sv, [E!Nobody EXCEPT !.kind = rd.kind, !.at = t], q, now)
<1> DEFINE r2 == [E!Nobody EXCEPT !.kind = rd.kind, !.at = t]
<1>0. {} \in Revs /\ <<>> \in Gots /\ {} \in Wholes
  BY DEF Revs, Gots, Wholes
<1>1. r2 \in Readers /\ r2.kind = rd.kind /\ r2.at = t /\ r2.whole = {}
  BY <1>0 DEF Readers, E!Nobody, Kept
<1> HIDE DEF r2
<1>2. Kept(sv, r2, q, now)
  BY <1>1 DEF Kept, Receives, Doubles
<1> QED
  BY <1>1, <1>2 DEF OneStream, r2

LEMMA StreamClientEnds ==
    ASSUME StreamInv, NEW c \in Clients, E!EndOfFile(c) \/ E!Leave(c)
    PROVE  StreamInv'
<1>1. PICK t \in {"told", "gone"}, q \in {<<>>, pipe[c]} :
           /\ client' = [client EXCEPT ![c] = [E!Nobody EXCEPT !.kind = client[c].kind, !.at = t]]
           /\ pipe' = [pipe EXCEPT ![c] = q] /\ client[c].at # "idle"
           /\ q = <<>> \/ client[c].at # "connecting"
           /\ world' = world /\ cached' = cached /\ queue' = queue
           /\ server' = [server EXCEPT ![c] = server[c]]
  <2>1. CASE E!EndOfFile(c)
    <3>1. "told" \in {"told", "gone"} /\ pipe[c] \in {<<>>, pipe[c]}
      OBVIOUS
    <3> QED
      BY <2>1, <3>1, KeptHere DEF E!EndOfFile
  <2>2. CASE E!Leave(c)
    <3>1. "gone" \in {"told", "gone"} /\ <<>> \in {<<>>, pipe[c]}
      OBVIOUS
    <3> QED
      BY <2>2, <3>1, KeptHere DEF E!Leave
  <2> QED
    BY <2>1, <2>2
<1> DEFINE rd == [E!Nobody EXCEPT !.kind = client[c].kind, !.at = t]
<1>2. Kept(server[c], client[c], pipe[c], world) /\ <<>> \in Tales
  BY KeptHere DEF OneStream, Tales
<1>21. /\ world \in Nat /\ q \in Tales /\ t \in {"told", "gone"} /\ client[c].at # "idle"
       /\ q = <<>> \/ (client[c].at # "connecting" /\ q = pipe[c])
  BY <1>1, <1>2, KeptHere
<1>3. OneStream(server[c], rd, q, world)
  <2> DEFINE sv == server[c]
             old == client[c]
             pp == pipe[c]
  <2>1. /\ Kept(sv, old, pp, world) /\ world \in Nat /\ q \in Tales /\ t \in {"told", "gone"}
        /\ old.at # "idle" /\ (q = <<>> \/ (old.at # "connecting" /\ q = pp))
    BY <1>2, <1>21
  <2> HIDE DEF sv, old, pp
  <2>2. OneStream(sv, [E!Nobody EXCEPT !.kind = old.kind, !.at = t], q, world)
    BY ONLY <2>1, Away
  <2> QED
    BY <2>2 DEF sv, old
<1>4. rd.kind = client[c].kind
  BY DEF E!Nobody
<1>5. server'[c] = server[c] /\ client'[c] = rd /\ pipe'[c] = q /\ queue' \in Seq(Clients)
  BY <1>1, KeptHere DEF StreamInv
<1> HIDE DEF rd
<1>6. Receives(server[c], rd) => Receives(server[c], client[c])
  BY <1>4 DEF Receives
<1>7. client' = [client EXCEPT ![c] = rd]
  BY <1>1 DEF rd
<1> QED
  BY <1>1, <1>3, <1>5, <1>6, <1>7, OneClient

LEMMA StreamConnect ==
    ASSUME StreamInv, NEW c \in Clients, NEW kind \in {"watch", "query", "command"},
           E!Connect(c, kind)
    PROVE  StreamInv'
<1> DEFINE rd == [E!Nobody EXCEPT !.kind = kind, !.at = "connecting"]
<1>1. /\ client[c].at = "idle" /\ world' = world /\ cached' = cached /\ queue' = queue
      /\ server' = [server EXCEPT ![c] = server[c]] /\ client' = [client EXCEPT ![c] = rd]
      /\ pipe' = [pipe EXCEPT ![c] = pipe[c]]
  BY KeptHere DEF E!Connect
<1>2. Kept(server[c], client[c], pipe[c], world)
  BY KeptHere DEF OneStream
<1>0. {} \in Revs /\ <<>> \in Gots /\ {} \in Wholes
  BY DEF Revs, Gots, Wholes
<1>3. /\ rd \in Readers /\ rd.at = "connecting" /\ rd.kind = kind /\ rd.rev = {} /\ rd.whole = {}
  BY <1>0 DEF Readers, E!Nobody
<1>4. client'[c] = rd /\ server'[c] = server[c] /\ pipe'[c] = pipe[c] /\ queue' \in Seq(Clients)
  BY <1>1, KeptHere DEF StreamInv
<1> HIDE DEF rd
<1>5. server[c].at = "none" /\ pipe[c] = <<>>
  BY <1>1, <1>2 DEF Kept
<1>6. OneStream(server[c], rd, pipe[c], world)
  BY <1>2, <1>3, <1>5 DEF OneStream, Kept, Receives, Doubles
<1>7. ~Receives(server[c], rd)
  BY <1>5 DEF Receives
<1> QED
  BY <1>1, <1>4, <1>6, <1>7, OneClient

LEMMA StreamEnded ==
    ASSUME StreamInv, NEW c \in Clients, E!Ended(c), world' = world, cached' = cached,
           queue' = queue, client' = client, server[c].at # "none",
           NEW q \in Tales, pipe' = [pipe EXCEPT ![c] = q],
           client[c].at = "acked" =>
              \E F \in Tapes, n, r, w \in Nat : Written(F, n, r, w, client[c], q, world)
    PROVE  StreamInv'
<1>1. server' = [server EXCEPT ![c] = Shut]
  BY DEF E!Ended, Shut
<1>2. Kept(server[c], client[c], pipe[c], world)
  BY KeptHere DEF OneStream
<1>3. client[c].kind # "none" /\ client[c].at \notin {"idle", "connecting", "confused"}
      /\ Doubles(client[c], world)
  BY <1>2 DEF Kept
<1>4. OneStream(Shut, client[c], q, world)
  BY <1>3, KeptHere, Closes
<1>5. ~Receives(Shut, client[c])
  BY ShutIs DEF Receives
<1>6. server'[c] = Shut /\ client'[c] = client[c] /\ pipe'[c] = q /\ queue' \in Seq(Clients)
  BY <1>1, KeptHere DEF StreamInv
<1>7. client' = [client EXCEPT ![c] = client[c]]
  BY KeptHere
<1> QED
  BY <1>1, <1>4, <1>5, <1>6, <1>7, OneClient

LEMMA StreamGivesUp ==
    ASSUME StreamInv, NEW c \in Clients, E!GivesUp(c)
    PROVE  StreamInv'
<1>1. /\ server[c].at # "none" /\ E!Ended(c) /\ world' = world /\ cached' = cached
      /\ queue' = queue /\ client' = client /\ pipe' = [pipe EXCEPT ![c] = pipe[c]]
  BY KeptHere DEF E!GivesUp
<1>2. client[c].at = "acked" =>
         \E F \in Tapes, n, r, w \in Nat : Written(F, n, r, w, client[c], pipe[c], world)
  BY KeptHere DEF OneStream, Follows
<1>3. pipe[c] \in Tales
  BY KeptHere
<1> QED
  BY <1>1, <1>2, <1>3, StreamEnded

LEMMA StreamAnswerTimeout ==
    ASSUME StreamInv, NEW c \in Clients, E!AnswerTimeout(c)
    PROVE  StreamInv'
<1> DEFINE fr == E!Frame("refused", 0, 0)
<1>0. fr \in AnyFrame /\ fr.f = "refused"
  BY DEF E!Frame, AnyFrame, FrameKinds
<1>1. PICK q \in {pipe[c], Append(pipe[c], fr)} :
           /\ server[c].at = "asked" /\ E!Ended(c) /\ world' = world /\ cached' = cached
           /\ queue' = queue /\ client' = client /\ pipe' = [pipe EXCEPT ![c] = q]
  BY KeptHere DEF E!AnswerTimeout, E!Writes
<1> HIDE DEF fr
<1>2. q \in Tales
  <2>1. pipe[c] \in Seq(AnyFrame)
    BY KeptHere DEF Tales
  <2>2. Append(pipe[c], fr) \in Seq(AnyFrame)
    BY ONLY <1>0, <2>1
  <2> QED
    BY <1>1, <2>1, <2>2 DEF Tales
<1>3. ASSUME client[c].at = "acked"
      PROVE  \E F \in Tapes, n, r, w \in Nat : Written(F, n, r, w, client[c], q, world)
  <2>1. PICK F \in Tapes, n \in Nat, r \in Nat, w \in Nat :
               Follows(F, n, r, w, server[c], client[c], pipe[c], world)
    BY <1>3, KeptHere DEF OneStream
  <2>2. CASE q = pipe[c]
    BY <2>1, <2>2 DEF Follows
  <2>3. CASE q = Append(pipe[c], fr)
    <3>1. n = 0 /\ w = 0
      BY <1>1, <2>1 DEF Follows, Ahead, Written
    <3>2. <<fr>> \in Seq(AnyFrame) /\ Len(<<fr>>) = 1 /\ <<fr>>[1] = fr
      BY <1>0
    <3>3. PICK F2 \in Tapes : (\A i \in 1..0 : F2[i] = F[i]) /\ Added(F2, 0, <<fr>>)
      BY <3>2, Extend
    <3>4. F2[1] = fr
      BY <3>2, <3>3 DEF Added
    <3>5. Written(F2, 0, r, 0, client[c], pipe[c], world)
      <4>1. 0 \in 0..0 /\ world <= world /\ world \in Nat /\ pipe[c] \in Tales
        BY KeptHere
      <4> QED
        BY <2>1, <3>1, <3>3, <4>1, WrittenTo DEF Follows
    <3>6. ~Open(F2, 0)
      BY DEF Open, Begins
    <3>61. F2[0 + 1].f \in Plain /\ Grammar(F2, 0, world) /\ world \in Nat /\ 0 \in Nat
           /\ pipe[c] \in Tales /\ \A i \in 1..0 : F2[i].f # "lagged"
      BY <1>0, <3>4, <3>5, KeptHere DEF Written, Plain
    <3>7. Grammar(F2, 0 + 1, world)
      BY ONLY <3>6, <3>61, AddPlain
    <3>8. Written(F2, 1, r, 0, client[c], pipe[c], world)
      <4>1. \A i \in 1..1 : F2[i].f \notin {"event", "heartbeat"}
        BY <1>0, <3>4
      <4> QED
        BY <3>5, <3>7, <4>1 DEF Written
    <3>9. Written(F2, 1, r, 0 + 1, client[c], Append(pipe[c], F2[0 + 1]), world)
      <4>1. 0 + 1 <= 1 /\ 1 \in Nat
        OBVIOUS
      <4> QED
        BY ONLY <3>61, <3>8, <4>1, WrittenOn
    <3> QED
      BY <2>3, <3>4, <3>9
  <2> QED
    BY <2>2, <2>3
<1> QED
  BY <1>1, <1>2, <1>3, StreamEnded

LEMMA StreamRead ==
    ASSUME StreamInv, NEW c \in Clients, E!Read(c)
    PROVE  StreamInv'
<1> DEFINE rd == E!Reads(client[c], Head(pipe[c]))
<1>1. /\ client[c].at = "acked" /\ pipe[c] # <<>> /\ world' = world /\ cached' = cached
      /\ queue' = queue /\ server' = [server EXCEPT ![c] = server[c]]
      /\ client' = [client EXCEPT ![c] = rd] /\ pipe' = [pipe EXCEPT ![c] = Tail(pipe[c])]
  BY KeptHere DEF E!Read
<1>2. PICK F \in Tapes, n \in Nat, r \in Nat, w \in Nat :
             Follows(F, n, r, w, server[c], client[c], pipe[c], world)
  BY <1>1, KeptHere DEF OneStream
<1>3. r + 1 <= w /\ Head(pipe[c]) = F[r + 1] /\ Piped(F, r + 1, w, Tail(pipe[c])) /\ r + 1 <= n
  BY <1>1, <1>2, KeptHere, PipedReads DEF Follows, Written, Tales
<1>4. Kept(server[c], client[c], pipe[c], world)
  BY KeptHere DEF OneStream
<1>5. F[r + 1].f \in {"event", "heartbeat"} => client[c].kind = "watch"
  BY <1>2, <1>3 DEF Follows, Written
<1>6. /\ rd \in Readers /\ rd.kind = client[c].kind /\ rd.at \in {"acked", "done", "told"}
      /\ rd.at = "acked" => ReadUpTo(F, r + 1, rd)
      /\ Doubles(rd, world)
  <2>1. /\ Grammar(F, n, world) /\ ReadUpTo(F, r, client[c]) /\ Doubles(client[c], world)
        /\ client[c] \in Readers /\ world \in Nat
    BY <1>2, <1>4, KeptHere DEF Follows, Written, Kept
  <2> QED
    BY <1>1, <1>3, <1>5, <2>1, ReadOne
<1>7. server'[c] = server[c] /\ client'[c] = rd /\ pipe'[c] = Tail(pipe[c]) /\ queue' \in Seq(Clients)
  BY <1>1, KeptHere DEF StreamInv
<1> HIDE DEF rd
<1>8. Kept(server[c], rd, Tail(pipe[c]), world)
  <2>1. Tail(pipe[c]) \in Tales
    BY <1>1, KeptHere DEF Tales
  <2> QED
    BY <1>1, <1>4, <1>6, <2>1 DEF Kept, Receives
<1>9. ASSUME rd.at = "acked"
      PROVE  \E G \in Tapes, m, a, b \in Nat : Follows(G, m, a, b, server[c], rd, Tail(pipe[c]), world)
  <2>1. Written(F, n, r + 1, w, rd, Tail(pipe[c]), world)
    BY <1>2, <1>3, <1>6, <1>9 DEF Follows, Written
  <2>2. Ahead(F, n, w, server[c], rd, world)
    BY <1>2, <1>6, AheadSame DEF Follows
  <2> QED
    BY <2>1, <2>2 DEF Follows
<1>10. OneStream(server[c], rd, Tail(pipe[c]), world)
  BY <1>8, <1>9 DEF OneStream
<1>11. Receives(server[c], rd) => Receives(server[c], client[c])
  BY <1>6 DEF Receives
<1> QED
  BY <1>1, <1>7, <1>10, <1>11, OneClient

\* What is written next, and the state of the handler after it.
LEMMA StreamWrites ==
    ASSUME StreamInv, NEW c \in Clients, NEW fr \in AnyFrame, NEW sv,
           server' = [server EXCEPT ![c] = sv], pipe' = [pipe EXCEPT ![c] = Append(pipe[c], fr)],
           world' = world, cached' = cached, queue' = queue, client' = client,
           Receives(sv, client[c]) => Receives(server[c], client[c]),
           \A q \in Tales : Kept(sv, client[c], q, world),
           ASSUME client[c].at = "acked", NEW F \in Tapes, NEW n \in Nat, NEW r \in Nat, NEW w \in Nat,
                  Follows(F, n, r, w, server[c], client[c], pipe[c], world)
           PROVE  /\ w + 1 <= n /\ F[w + 1] = fr
                  /\ Ahead(F, n, w + 1, sv, client[c], world)
    PROVE  StreamInv'
<1> DEFINE q == Append(pipe[c], fr)
<1>1. pipe[c] \in Seq(AnyFrame) /\ pipe[c] \in Tales /\ world \in Nat
  BY KeptHere DEF Tales
<1>2. q \in Tales
  BY <1>1 DEF Tales
<1>3. ASSUME client[c].at = "acked"
      PROVE  \E F \in Tapes, n, r, w \in Nat : Follows(F, n, r, w, sv, client[c], q, world)
  <2>1. PICK F \in Tapes, n \in Nat, r \in Nat, w \in Nat :
               Follows(F, n, r, w, server[c], client[c], pipe[c], world)
    BY <1>3, KeptHere DEF OneStream
  <2>2. w + 1 <= n /\ F[w + 1] = fr /\ Ahead(F, n, w + 1, sv, client[c], world)
    BY <1>3, <2>1
  <2>3. Written(F, n, r, w, client[c], pipe[c], world)
    BY <2>1 DEF Follows
  <2>4. Written(F, n, r, w + 1, client[c], Append(pipe[c], F[w + 1]), world)
    BY ONLY <1>1, <2>2, <2>3, WrittenOn
  <2> QED
    BY <2>2, <2>4 DEF Follows
<1>4. OneStream(sv, client[c], q, world)
  BY <1>2, <1>3 DEF OneStream
<1>5. server'[c] = sv /\ client'[c] = client[c] /\ pipe'[c] = q /\ queue' \in Seq(Clients)
  BY KeptHere DEF StreamInv
<1>6. client' = [client EXCEPT ![c] = client[c]]
  BY KeptHere
<1> QED
  BY <1>4, <1>5, <1>6, OneClient

\* The last that is written.
LEMMA StreamWritesLast ==
    ASSUME StreamInv, NEW c \in Clients, NEW fr \in AnyFrame, E!Ended(c),
           pipe' = [pipe EXCEPT ![c] = Append(pipe[c], fr)], server[c].at # "none",
           world' = world, cached' = cached, queue' = queue, client' = client,
           ASSUME client[c].at = "acked", NEW F \in Tapes, NEW n \in Nat, NEW r \in Nat, NEW w \in Nat,
                  Follows(F, n, r, w, server[c], client[c], pipe[c], world)
           PROVE  w + 1 <= n /\ F[w + 1] = fr
    PROVE  StreamInv'
<1> DEFINE q == Append(pipe[c], fr)
<1>1. pipe[c] \in Seq(AnyFrame) /\ pipe[c] \in Tales /\ world \in Nat
  BY KeptHere DEF Tales
<1>2. q \in Tales
  BY <1>1 DEF Tales
<1>3. ASSUME client[c].at = "acked"
      PROVE  \E F \in Tapes, n, r, w \in Nat : Written(F, n, r, w, client[c], q, world)
  <2>1. PICK F \in Tapes, n \in Nat, r \in Nat, w \in Nat :
               Follows(F, n, r, w, server[c], client[c], pipe[c], world)
    BY <1>3, KeptHere DEF OneStream
  <2>2. w + 1 <= n /\ F[w + 1] = fr
    BY <1>3, <2>1
  <2>3. Written(F, n, r, w, client[c], pipe[c], world)
    BY <2>1 DEF Follows
  <2>4. Written(F, n, r, w + 1, client[c], Append(pipe[c], F[w + 1]), world)
    BY ONLY <1>1, <2>2, <2>3, WrittenOn
  <2> QED
    BY <2>2, <2>4
<1> QED
  BY <1>2, <1>3, StreamEnded

\* A frame that is no error leaves what is to come what it was.
LEMMA NewestOn ==
    ASSUME NEW F \in Tapes, NEW n \in Nat, NEW w \in Nat, NEW now, Newest(F, n, w, now),
           F[w + 1].f # "error"
    PROVE  Newest(F, n, w + 1, now)
<1>1. ASSUME NEW i \in (w + 1)..n, F[i].f = "error"  PROVE  i \in ((w + 1) + 1)..n
  BY <1>1
<1> QED
  BY <1>1 DEF Newest

LEMMA StreamAcknowledge ==
    ASSUME StreamInv, NEW c \in Clients, E!Acknowledge(c)
    PROVE  StreamInv'
<1> DEFINE rd == client[c]
           an == E!Frame("answer", 0, 0)
           ak == E!Frame("ack", 0, 0)
           sv == [server[c] EXCEPT !.at = "startup"]
<1>0. an \in AnyFrame /\ ak \in AnyFrame /\ ak.f = "ack"
  BY DEF E!Frame, AnyFrame, FrameKinds
<1>1. server[c].at = "answered" /\ world' = world /\ cached' = cached /\ queue' = queue
      /\ client' = client
  BY DEF E!Acknowledge
<1>2. CASE rd.kind = "command"
  <2>1. E!Ended(c) /\ pipe' = [pipe EXCEPT ![c] = Append(pipe[c], an)]
    BY <1>2 DEF E!Acknowledge, E!Writes
  <2>2. ASSUME rd.at = "acked", NEW F \in Tapes, NEW n \in Nat, NEW r \in Nat, NEW w \in Nat,
               Follows(F, n, r, w, server[c], rd, pipe[c], world)
        PROVE  w + 1 <= n /\ F[w + 1] = an
    <3>1. w = 0 /\ n > 0 /\ F[1] = an
      BY <1>1, <1>2, <2>2 DEF Follows, Ahead
    <3> QED
      BY <3>1
  <2> QED
    BY <1>0, <1>1, <2>1, <2>2, StreamWritesLast
<1>3. CASE rd.kind # "command"
  <2>1. /\ server' = [server EXCEPT ![c] = sv]
        /\ pipe' = [pipe EXCEPT ![c] = Append(pipe[c], ak)]
    BY <1>3 DEF E!Acknowledge, E!Writes
  <2>2. /\ sv \in StreamServers /\ sv.at = "startup" /\ sv.unread = server[c].unread
        /\ sv.missed = server[c].missed /\ sv.todo = server[c].todo /\ sv.inside = server[c].inside
    BY KeptHere DEF StreamServers
  <2> HIDE DEF sv
  <2>3. Receives(sv, rd) /\ Receives(server[c], rd)
    BY <1>1, <1>3, <2>2 DEF Receives
  <2>4. Kept(server[c], rd, pipe[c], world)
    BY KeptHere DEF OneStream
  <2>5. rd.kind \in {"watch", "query"}
    BY <1>1, <1>3, <2>4 DEF Kept, Readers
  <2>6. ASSUME NEW q \in Tales  PROVE  Kept(sv, rd, q, world)
    BY <1>1, <2>2, <2>3, <2>4, <2>5 DEF Kept
  <2>7. ASSUME rd.at = "acked", NEW F \in Tapes, NEW n \in Nat, NEW r \in Nat, NEW w \in Nat,
               Follows(F, n, r, w, server[c], rd, pipe[c], world)
        PROVE  w + 1 <= n /\ F[w + 1] = ak /\ Ahead(F, n, w + 1, sv, rd, world)
    <3>1. w = 0 /\ n > 0 /\ F[1] = ak
      BY <1>1, <1>3, <2>7 DEF Follows, Ahead
    <3>2. Base(w + 1, sv) = Base(w, server[c]) /\ Due(w + 1, sv) = Due(w, server[c])
      BY <1>1, <2>2 DEF Base, Due
    <3>3. ~sv.missed /\ Newest(F, n, w, world) => Newest(F, n, w + 1, world)
      BY <1>0, <3>1, NewestOn
    <3>4. rd.kind = "watch" => Later(F, n, w + 1, sv, world)
      <4>1. rd.kind = "watch" => Later(F, n, w, server[c], world)
        BY <2>3, <2>7 DEF Follows, Ahead
      <4> QED
        BY <2>2, <3>2, <3>3, <4>1 DEF Later
    <3>5. Ahead(F, n, w + 1, sv, rd, world)
      BY <1>1, <2>2, <2>3, <2>7, <3>2, <3>4 DEF Follows, Ahead
    <3> QED
      BY <3>1, <3>5
  <2> QED
    BY <1>0, <1>1, <2>1, <2>3, <2>6, <2>7, StreamWrites
<1> QED
  BY <1>2, <1>3

LEMMA StreamStartup ==
    ASSUME StreamInv, NEW c \in Clients, E!WriteStartup(c)
    PROVE  StreamInv'
<1> DEFINE rd == client[c]
           fr == Head(server[c].todo)
           rest == Tail(server[c].todo)
           sv == [server[c] EXCEPT !.todo = rest, !.at = IF rest = <<>> THEN "stream" ELSE @]
<1>1. /\ server[c].at = "startup" /\ world' = world /\ cached' = cached /\ queue' = queue
      /\ client' = client /\ pipe' = [pipe EXCEPT ![c] = Append(pipe[c], fr)]
  BY DEF E!WriteStartup, E!Writes
<1>2. Kept(server[c], rd, pipe[c], world)
  BY KeptHere DEF OneStream
<1>3. rd.kind \in {"watch", "query"} /\ Receives(server[c], rd) /\ server[c].todo # <<>>
  BY <1>1, <1>2 DEF Kept, Receives
<1>4. server[c].todo \in Seq(AnyFrame)
  BY KeptHere DEF StreamServers, Tales
<1>5. /\ fr \in AnyFrame /\ fr = server[c].todo[1] /\ rest \in Seq(AnyFrame)
      /\ Len(rest) = Len(server[c].todo) - 1 /\ Len(server[c].todo) > 0
      /\ \A i \in 1..Len(rest) : rest[i] = server[c].todo[i + 1]
  BY <1>3, <1>4
<1>6. ASSUME rd.at = "acked", NEW F \in Tapes, NEW n \in Nat, NEW r \in Nat, NEW w \in Nat,
             Follows(F, n, r, w, server[c], rd, pipe[c], world)
      PROVE  w + 1 <= n /\ F[w + 1] = fr /\ Base(w, server[c]) = w
  <2>1. Base(w, server[c]) = w /\ Due(w, server[c]) <= n
    BY <1>1, <1>3, <1>6 DEF Follows, Ahead, Base
  <2>2. \A i \in 1..Len(server[c].todo) : server[c].todo[i] = F[w + i]
    BY <1>3, <1>6, <2>1 DEF Follows, Ahead
  <2> QED
    BY <1>5, <2>1, <2>2 DEF Due
<1>7. CASE fr.f = "error" \/ (rest = <<>> /\ rd.kind = "query")
  <2>1. E!Ended(c)
    BY <1>7 DEF E!WriteStartup
  <2>2. fr \in AnyFrame /\ server[c].at # "none"
    BY <1>1, <1>5
  <2> HIDE DEF fr, rest
  <2>3. ASSUME rd.at = "acked", NEW F \in Tapes, NEW n \in Nat, NEW r \in Nat, NEW w \in Nat,
               Follows(F, n, r, w, server[c], rd, pipe[c], world)
        PROVE  w + 1 <= n /\ F[w + 1] = fr
    BY <1>6, <2>3
  <2> QED
    BY <1>1, <2>1, <2>2, <2>3, StreamWritesLast
<1>8. CASE ~(fr.f = "error" \/ (rest = <<>> /\ rd.kind = "query"))
  <2>1. server' = [server EXCEPT ![c] = sv]
    BY <1>8 DEF E!WriteStartup
  <2>2. /\ sv \in StreamServers /\ sv.unread = server[c].unread
        /\ sv.at = IF rest = <<>> THEN "stream" ELSE "startup"
        /\ sv.missed = server[c].missed /\ sv.todo = rest /\ sv.inside = server[c].inside
    <3> DEFINE x == IF rest = <<>> THEN "stream" ELSE "startup"
    <3>1. rest \in Tales /\ x \in {"startup", "stream"} /\ server[c] \in StreamServers
      BY <1>5, KeptHere DEF Tales
    <3>2. sv = [server[c] EXCEPT !.todo = rest, !.at = x]
      BY <1>1
    <3> HIDE DEF rest, x, sv
    <3>3. /\ sv \in StreamServers /\ sv.unread = server[c].unread /\ sv.at = x
          /\ sv.missed = server[c].missed /\ sv.todo = rest /\ sv.inside = server[c].inside
      BY ONLY <3>1, <3>2 DEF StreamServers
    <3> QED
      BY <3>3 DEF x
  <2> HIDE DEF sv, fr, rest
  <2>3. Receives(sv, rd)
    BY <1>3, <2>2 DEF Receives
  <2>4. ASSUME NEW q \in Tales  PROVE  Kept(sv, rd, q, world)
    BY <1>1, <1>2, <1>3, <1>8, <2>2, <2>3 DEF Kept
  <2>5. ASSUME rd.at = "acked", NEW F \in Tapes, NEW n \in Nat, NEW r \in Nat, NEW w \in Nat,
               Follows(F, n, r, w, server[c], rd, pipe[c], world)
        PROVE  w + 1 <= n /\ F[w + 1] = fr /\ Ahead(F, n, w + 1, sv, rd, world)
    <3>1. w + 1 <= n /\ F[w + 1] = fr /\ Base(w, server[c]) = w
      BY <1>6, <2>5
    <3>2. Base(w + 1, sv) = w + 1 /\ Due(w + 1, sv) = Due(w, server[c])
      <4>1. sv.at # "answered"
        BY <2>2
      <4>2. Len(sv.todo) = Len(server[c].todo) - 1 /\ Len(server[c].todo) \in Nat
        BY <1>4, <1>5, <2>2
      <4>3. Base(w + 1, sv) = w + 1
        BY <4>1 DEF Base
      <4> QED
        BY <3>1, <4>2, <4>3 DEF Due
    <3>3. /\ Due(w, server[c]) <= n
          /\ \A i \in 1..Len(server[c].todo) : server[c].todo[i] = F[w + i]
          /\ ~server[c].inside /\ ~Open(F, Due(w, server[c]))
          /\ rd.kind = "query" => n = Due(w, server[c])
          /\ rd.kind = "watch" => Later(F, n, w, server[c], world)
      BY <1>1, <1>3, <2>5, <3>1 DEF Follows, Ahead
    <3>4. Newest(F, n, w, world) => Newest(F, n, w + 1, world)
      BY <1>8, <3>1, NewestOn
    <3>5. rd.kind = "watch" => Later(F, n, w + 1, sv, world)
      BY <2>2, <3>2, <3>3, <3>4 DEF Later
    <3>6. ASSUME NEW i \in 1..Len(sv.todo)  PROVE  sv.todo[i] = F[Base(w + 1, sv) + i]
      <4>1. i + 1 \in 1..Len(server[c].todo) /\ w + (i + 1) = (w + 1) + i
        BY <1>4, <1>5, <2>2
      <4> QED
        BY <1>5, <2>2, <3>2, <3>3, <4>1
    <3>7. sv.at = "stream" => sv.todo = <<>> /\ Due(w + 1, sv) = w + 1 /\ ~sv.inside /\ ~Open(F, w + 1)
      <4>1. rest = <<>> => Len(rest) = 0
        OBVIOUS
      <4>2. sv.at = "stream" => rest = <<>>
        BY <2>2
      <4>3. sv.at = "stream" => Due(w + 1, sv) = w + 1
        BY <2>2, <3>2, <4>1, <4>2 DEF Due
      <4> QED
        BY <2>2, <3>2, <3>3, <4>2, <4>3
    <3>8. Ahead(F, n, w + 1, sv, rd, world)
      BY <2>2, <3>2, <3>3, <3>5, <3>6, <3>7 DEF Ahead
    <3> QED
      BY <3>1, <3>8
  <2> QED
    BY <1>1, <1>3, <1>5, <2>1, <2>3, <2>4, <2>5, StreamWrites
<1> QED
  BY <1>7, <1>8

\* A snapshot is open from its first frame to its last.
LEMMA OpenOn ==
    ASSUME NEW F \in Tapes, NEW n \in Nat, NEW w \in Nat, NEW now \in Nat, w + 1 <= n,
           Grammar(F, n, now), \A i \in 1..n : F[i].f # "lagged"
    PROVE  Open(F, w + 1) <=> F[w + 1].f = "begin" \/ (Open(F, w) /\ F[w + 1].f # "end")
<1>1. /\ (w + 1) - 1 = w /\ (w + 1) - 2 = w - 1 /\ (w + 1) - 3 = w - 2
      /\ (w - 2) + 1 = w - 1 /\ (w - 2) + 2 = w /\ (w - 2) + 3 = w + 1
  OBVIOUS
<1>2. Begins(F, w + 1) <=> F[w + 1].f = "begin"
  BY DEF Begins
<1>3. CASE Begins(F, w - 2)
  <2>1. w - 2 \in 1..n /\ w - 1 \in 1..n /\ w \in 1..n /\ F[w - 2].f = "begin"
    BY <1>3 DEF Begins
  <2>2. F[w + 1].f = "end" /\ F[w] = F[w - 1] /\ F[w - 1].f = "chunk"
    BY <1>1, <2>1 DEF Grammar
  <2>3. ~Begins(F, w) /\ ~Begins(F, w - 1)
    BY <2>2 DEF Begins
  <2> QED
    BY <1>1, <1>2, <2>2, <2>3 DEF Open
<1>4. CASE ~Begins(F, w - 2)
  <2>1. F[w + 1].f # "end"
    BY <1>1, <1>4 DEF Grammar
  <2> QED
    BY <1>1, <1>2, <1>4, <2>1 DEF Open
<1> QED
  BY <1>3, <1>4

LEMMA StreamStream ==
    ASSUME StreamInv, NEW c \in Clients, E!Stream(c)
    PROVE  StreamInv'
<1> DEFINE rd == client[c]
           fr == IF server[c].missed THEN E!Frame("lagged", 0, 0) ELSE Head(server[c].unread)
           sv == [server[c] EXCEPT !.missed = FALSE,
                                   !.unread = IF server[c].missed THEN @ ELSE Tail(@),
                                   !.inside = fr.f = "begin" \/ (@ /\ fr.f # "end")]
<1>1. /\ server[c].at = "stream" /\ world' = world /\ cached' = cached /\ queue' = queue
      /\ client' = client /\ pipe' = [pipe EXCEPT ![c] = Append(pipe[c], fr)]
      /\ server[c].unread # <<>>
  BY DEF E!Stream, E!Writes
<1>2. Kept(server[c], rd, pipe[c], world)
  BY KeptHere DEF OneStream
<1>3. rd.kind = "watch" /\ Receives(server[c], rd)
  BY <1>1, <1>2 DEF Kept, Receives
<1>4. server[c].unread \in Seq(AnyFrame) /\ server[c].missed \in BOOLEAN /\ server[c].inside \in BOOLEAN
  BY KeptHere DEF StreamServers, Tales
<1>5. /\ Head(server[c].unread) \in AnyFrame /\ Head(server[c].unread) = server[c].unread[1]
      /\ Tail(server[c].unread) \in Seq(AnyFrame)
      /\ Len(Tail(server[c].unread)) = Len(server[c].unread) - 1 /\ Len(server[c].unread) > 0
      /\ \A i \in 1..Len(Tail(server[c].unread)) : Tail(server[c].unread)[i] = server[c].unread[i + 1]
  BY <1>1, <1>4
<1>6. fr \in AnyFrame
  BY <1>5 DEF AnyFrame, E!Frame, FrameKinds
<1>7. ASSUME rd.at = "acked", NEW F \in Tapes, NEW n \in Nat, NEW r \in Nat, NEW w \in Nat,
             Follows(F, n, r, w, server[c], rd, pipe[c], world)
      PROVE  /\ w + 1 <= n /\ F[w + 1] = fr /\ Base(w, server[c]) = w /\ Due(w, server[c]) = w
             /\ server[c].todo = <<>> /\ (server[c].inside <=> Open(F, w))
             /\ Later(F, n, w, server[c], world)
  <2>1. /\ server[c].todo = <<>> /\ (server[c].inside <=> Open(F, w))
        /\ Later(F, n, w, server[c], world)
    BY <1>1, <1>3, <1>7 DEF Follows, Ahead
  <2>2. Base(w, server[c]) = w /\ Due(w, server[c]) = w
    BY <1>1, <2>1 DEF Base, Due
  <2>3. CASE server[c].missed
    BY <2>1, <2>2, <2>3 DEF Later
  <2>4. CASE ~server[c].missed
    BY <1>5, <2>1, <2>2, <2>4 DEF Later
  <2> QED
    BY <2>1, <2>2, <2>3, <2>4
<1>8. CASE ~E!GoesOn(fr)
  <2>1. E!Ended(c)
    BY <1>8 DEF E!Stream
  <2> HIDE DEF fr
  <2>2. ASSUME rd.at = "acked", NEW F \in Tapes, NEW n \in Nat, NEW r \in Nat, NEW w \in Nat,
               Follows(F, n, r, w, server[c], rd, pipe[c], world)
        PROVE  w + 1 <= n /\ F[w + 1] = fr
    BY <1>7, <2>2
  <2>3. fr \in AnyFrame /\ server[c].at # "none"
    BY <1>1, <1>6
  <2> QED
    BY <1>1, <2>1, <2>2, <2>3, StreamWritesLast
<1>9. CASE E!GoesOn(fr)
  <2>1. server' = [server EXCEPT ![c] = sv]
    BY <1>9 DEF E!Stream
  <2>2. ~server[c].missed /\ fr = Head(server[c].unread) /\ fr.f \notin {"lagged", "error"}
    BY <1>9 DEF E!GoesOn, E!Frame
  <2>3. /\ sv \in StreamServers /\ sv.unread = Tail(server[c].unread) /\ sv.at = "stream"
        /\ ~sv.missed /\ sv.todo = server[c].todo
        /\ sv.inside = (fr.f = "begin" \/ (server[c].inside /\ fr.f # "end"))
    <3> DEFINE x == fr.f = "begin" \/ (server[c].inside /\ fr.f # "end")
               u == Tail(server[c].unread)
    <3>1. u \in Tales /\ x \in BOOLEAN /\ FALSE \in BOOLEAN /\ server[c] \in StreamServers
      BY <1>5, KeptHere DEF Tales
    <3>2. sv = [server[c] EXCEPT !.missed = FALSE, !.unread = u, !.inside = x]
      BY <2>2
    <3> HIDE DEF u, x, sv
    <3>3. /\ sv \in StreamServers /\ sv.unread = u /\ sv.at = server[c].at
          /\ sv.missed = FALSE /\ sv.todo = server[c].todo /\ sv.inside = x
      BY ONLY <3>1, <3>2 DEF StreamServers
    <3> QED
      BY <1>1, <3>3 DEF x, u
  <2> HIDE DEF sv, fr
  <2>4. Receives(sv, rd)
    BY <1>3, <2>3 DEF Receives
  <2>5. ASSUME NEW q \in Tales  PROVE  Kept(sv, rd, q, world)
    <3>1. Len(sv.unread) <= Capacity
      <4>1. Len(server[c].unread) <= Capacity /\ Capacity \in Nat
        BY <1>2, EdgesAssumption DEF Kept, E!EventStreamAssumption
      <4> QED
        BY <1>5, <2>3, <4>1
    <3> QED
      BY <1>1, <1>2, <1>3, <2>3, <2>4, <3>1 DEF Kept
  <2>6. ASSUME rd.at = "acked", NEW F \in Tapes, NEW n \in Nat, NEW r \in Nat, NEW w \in Nat,
               Follows(F, n, r, w, server[c], rd, pipe[c], world)
        PROVE  w + 1 <= n /\ F[w + 1] = fr /\ Ahead(F, n, w + 1, sv, rd, world)
    <3>1. /\ w + 1 <= n /\ F[w + 1] = fr /\ Base(w, server[c]) = w /\ Due(w, server[c]) = w
          /\ server[c].todo = <<>> /\ (server[c].inside <=> Open(F, w))
          /\ Later(F, n, w, server[c], world)
      BY <1>7, <2>6
    <3>2. Base(w + 1, sv) = w + 1 /\ Due(w + 1, sv) = w + 1 /\ Len(sv.todo) = 0
      BY <2>3, <3>1 DEF Base, Due
    <3>3. /\ n = w + Len(server[c].unread) /\ ~Open(F, n) /\ (\A i \in 1..n : F[i].f # "lagged")
          /\ \A i \in 1..Len(server[c].unread) : server[c].unread[i] = F[w + i]
          /\ Newest(F, n, w, world)
      BY <2>2, <3>1 DEF Later
    <3>4. Newest(F, n, w + 1, world)
      BY <2>2, <3>1, <3>3, NewestOn
    <3>5. sv.inside <=> Open(F, w + 1)
      <4>1. Open(F, w + 1) <=> F[w + 1].f = "begin" \/ (Open(F, w) /\ F[w + 1].f # "end")
        BY <2>6, <3>1, <3>3, OpenOn, KeptHere DEF Follows, Written
      <4> QED
        BY <2>3, <3>1, <4>1
    <3>6. Later(F, n, w + 1, sv, world)
      <4>1. n = (w + 1) + Len(sv.unread)
        BY <1>5, <2>3, <3>3
      <4>2. ASSUME NEW i \in 1..Len(sv.unread)  PROVE  sv.unread[i] = F[(w + 1) + i]
        <5>1. i + 1 \in 1..Len(server[c].unread) /\ w + (i + 1) = (w + 1) + i
          BY <1>4, <1>5, <2>3
        <5> QED
          BY <1>5, <2>3, <3>3, <5>1
      <4> QED
        BY <2>3, <3>2, <3>3, <3>4, <4>1, <4>2 DEF Later
    <3>7. Ahead(F, n, w + 1, sv, rd, world)
      BY <1>3, <2>3, <3>1, <3>2, <3>5, <3>6 DEF Ahead
    <3> QED
      BY <3>1, <3>7
  <2> QED
    BY <1>1, <1>3, <1>6, <2>1, <2>4, <2>5, <2>6, StreamWrites
<1> QED
  BY <1>8, <1>9

\* A keepalive may be put in where no snapshot is open.
LEMMA Insert ==
    ASSUME NEW F \in Tapes, NEW F2 \in Tapes, NEW n \in Nat, NEW w \in 0..n, NEW now \in Nat,
           Grammar(F, n, now), ~Open(F, w), \A i \in 1..w : F[i].f # "lagged",
           \A i \in 1..w : F2[i] = F[i], F2[w + 1].f = "heartbeat",
           \A i \in (w + 1)..n : F2[i + 1] = F[i]
    PROVE  /\ Grammar(F2, n + 1, now)
           /\ ~Open(F2, w + 1)
           /\ Open(F2, n + 1) => Open(F, n)
           /\ Newest(F, n, w, now) => Newest(F2, n + 1, w + 1, now)
<1>1. ~Begins(F, w) /\ ~Begins(F, w - 1) /\ ~Begins(F, w - 2)
  BY DEF Open
<1>2. ASSUME NEW b \in 1..w  PROVE  Begins(F2, b) <=> Begins(F, b)
  BY DEF Begins
<1>3. ~Begins(F2, w + 1)
  BY DEF Begins
<1>4. ASSUME NEW b \in (w + 1)..n  PROVE  Begins(F2, b + 1) <=> Begins(F, b)
  BY DEF Begins
<1>5. \A b \in Int : b <= 0 => ~Begins(F2, b) /\ ~Begins(F, b)
  BY DEF Begins
<1>6. ~Begins(F2, w) /\ ~Begins(F2, w - 1) /\ ~Begins(F2, w - 2)
  <2>1. \A b \in {w, w - 1, w - 2} : b \in 1..w \/ (b \in Int /\ b <= 0)
    OBVIOUS
  <2> QED
    BY <1>1, <1>2, <1>5, <2>1
<1>7. ~Open(F2, w + 1)
  <2>1. (w + 1) - 1 = w /\ (w + 1) - 2 = w - 1
    OBVIOUS
  <2> QED
    BY <1>3, <1>6, <2>1 DEF Open
<1>8. ASSUME Open(F2, n + 1)  PROVE  Open(F, n)
  <2>1. PICK b \in {n + 1, n, n - 1} : Begins(F2, b)
    <3>1. (n + 1) - 1 = n /\ (n + 1) - 2 = n - 1
      OBVIOUS
    <3> QED
      BY <1>8, <3>1 DEF Open
  <2>2. b > 0 /\ b \in Nat
    BY <2>1, <1>5
  <2>3. b # w + 1 /\ b # w /\ b # w - 1
    BY <1>3, <1>6, <2>1
  <2>4. b - 1 \in (w + 1)..n /\ b - 1 \in {n, n - 1, n - 2} /\ (b - 1) + 1 = b
    BY <2>1, <2>2, <2>3
  <2>5. Begins(F, b - 1)
    BY <1>4, <2>1, <2>4
  <2> QED
    BY <2>4, <2>5 DEF Open
<1>9. ASSUME NEW i \in 1..(n + 1)
      PROVE  /\ F2[i].f = "begin" =>
                   /\ i + 1 <= n + 1 => \/ F2[i + 1].f = "lagged"
                                        \/ /\ F2[i + 1].f = "chunk" /\ F2[i + 1].rev = F2[i].rev
                                           /\ F2[i + 1].val <= now
                   /\ i + 2 <= n + 1 => F2[i + 2].f = "lagged" \/ F2[i + 2] = F2[i + 1]
                   /\ i + 3 <= n + 1 => \/ F2[i + 3].f = "lagged"
                                        \/ F2[i + 3].f = "end" /\ F2[i + 3].rev = F2[i].rev
             /\ F2[i].f = "chunk" => Begins(F2, i - 1) \/ Begins(F2, i - 2)
             /\ F2[i].f = "end" => Begins(F2, i - 3)
             /\ F2[i].f = "lagged" => i = n + 1
  <2>1. CASE i = w + 1
    BY <2>1
  <2>2. CASE i \in 1..w
    <3>1. F2[i] = F[i] /\ i \in 1..n
      BY <2>2
    <3>2. F[i].f = "begin" => i # w /\ i # w - 1 /\ i # w - 2
      BY <1>1, <2>2 DEF Begins
    <3>3. F[i].f = "begin" =>
             /\ i + 1 \in 1..w /\ i + 2 \in 1..w /\ i + 3 \in 1..w
             /\ i + 1 <= n /\ i + 2 <= n /\ i + 3 <= n
      BY <2>2, <3>2
    <3>4. F[i].f = "begin" => F2[i + 1] = F[i + 1] /\ F2[i + 2] = F[i + 2] /\ F2[i + 3] = F[i + 3]
      BY <3>3
    <3>5. F[i].f = "begin" =>
             /\ F[i + 1].f = "lagged" \/ (F[i + 1].f = "chunk" /\ F[i + 1].rev = F[i].rev
                                          /\ F[i + 1].val <= now)
             /\ F[i + 2].f = "lagged" \/ F[i + 2] = F[i + 1]
             /\ F[i + 3].f = "lagged" \/ (F[i + 3].f = "end" /\ F[i + 3].rev = F[i].rev)
      BY <3>1, <3>3 DEF Grammar
    <3>6. F[i].f = "chunk" => Begins(F2, i - 1) \/ Begins(F2, i - 2)
      <4>1. F[i].f = "chunk" => Begins(F, i - 1) \/ Begins(F, i - 2)
        BY <3>1 DEF Grammar
      <4>2. /\ Begins(F, i - 1) => i - 1 \in 1..w
            /\ Begins(F, i - 2) => i - 2 \in 1..w
        BY <2>2 DEF Begins
      <4> QED
        BY <1>2, <4>1, <4>2
    <3>7. F[i].f = "end" => Begins(F2, i - 3)
      <4>1. F[i].f = "end" => Begins(F, i - 3)
        BY <3>1 DEF Grammar
      <4>2. Begins(F, i - 3) => i - 3 \in 1..w
        BY <2>2 DEF Begins
      <4> QED
        BY <1>2, <4>1, <4>2
    <3>8. F[i].f # "lagged"
      BY <2>2
    <3> QED
      BY <3>1, <3>4, <3>5, <3>6, <3>7, <3>8
  <2>3. CASE i \in (w + 2)..(n + 1)
    <3> DEFINE j == i - 1
    <3>1. j \in (w + 1)..n /\ j + 1 = i /\ j \in 1..n /\ F2[i] = F[j]
      BY <2>3
    <3>2. /\ i + 1 <= n + 1 => j + 1 <= n /\ F2[i + 1] = F[j + 1]
          /\ i + 2 <= n + 1 => j + 2 <= n /\ F2[i + 2] = F[j + 2] /\ F2[i + 1] = F[j + 1]
          /\ i + 3 <= n + 1 => j + 3 <= n /\ F2[i + 3] = F[j + 3]
      <4>1. /\ j + 1 <= n => j + 1 \in (w + 1)..n /\ (j + 1) + 1 = i + 1
            /\ j + 2 <= n => j + 2 \in (w + 1)..n /\ (j + 2) + 1 = i + 2 /\ j + 1 <= n
            /\ j + 3 <= n => j + 3 \in (w + 1)..n /\ (j + 3) + 1 = i + 3
            /\ i + 1 <= n + 1 => j + 1 <= n
            /\ i + 2 <= n + 1 => j + 2 <= n
            /\ i + 3 <= n + 1 => j + 3 <= n
        BY <3>1
      <4> QED
        BY <4>1
    <3>3. F[j].f = "begin" =>
             /\ j + 1 <= n => \/ F[j + 1].f = "lagged"
                              \/ /\ F[j + 1].f = "chunk" /\ F[j + 1].rev = F[j].rev
                                 /\ F[j + 1].val <= now
             /\ j + 2 <= n => F[j + 2].f = "lagged" \/ F[j + 2] = F[j + 1]
             /\ j + 3 <= n => F[j + 3].f = "lagged" \/ (F[j + 3].f = "end" /\ F[j + 3].rev = F[j].rev)
      BY <3>1 DEF Grammar
    <3>4. F[j].f = "chunk" => Begins(F2, i - 1) \/ Begins(F2, i - 2)
      <4>1. F[j].f = "chunk" => Begins(F, j - 1) \/ Begins(F, j - 2)
        BY <3>1 DEF Grammar
      <4>2. ASSUME Begins(F, j - 1)  PROVE  Begins(F2, i - 1)
        <5>1. j - 1 > 0 /\ j - 1 # w
          BY <1>1, <3>1, <4>2 DEF Begins
        <5>2. j - 1 \in (w + 1)..n /\ (j - 1) + 1 = i - 1
          BY <3>1, <5>1
        <5> QED
          BY <1>4, <4>2, <5>2
      <4>3. ASSUME Begins(F, j - 2)  PROVE  Begins(F2, i - 2)
        <5>1. j - 2 > 0 /\ j - 2 # w /\ j - 2 # w - 1
          BY <1>1, <3>1, <4>3 DEF Begins
        <5>2. j - 2 \in (w + 1)..n /\ (j - 2) + 1 = i - 2
          BY <3>1, <5>1
        <5> QED
          BY <1>4, <4>3, <5>2
      <4> QED
        BY <4>1, <4>2, <4>3
    <3>5. F[j].f = "end" => Begins(F2, i - 3)
      <4>1. F[j].f = "end" => Begins(F, j - 3)
        BY <3>1 DEF Grammar
      <4>2. ASSUME Begins(F, j - 3)  PROVE  Begins(F2, i - 3)
        <5>1. j - 3 > 0 /\ j - 3 # w /\ j - 3 # w - 1 /\ j - 3 # w - 2
          BY <1>1, <3>1, <4>2 DEF Begins
        <5>2. j - 3 \in (w + 1)..n /\ (j - 3) + 1 = i - 3
          BY <3>1, <5>1
        <5> QED
          BY <1>4, <4>2, <5>2
      <4> QED
        BY <4>1, <4>2
    <3>6. F[j].f = "lagged" => i = n + 1
      BY <3>1 DEF Grammar
    <3> HIDE DEF j
    <3> QED
      BY <3>1, <3>2, <3>3, <3>4, <3>5, <3>6
  <2> QED
    BY <2>1, <2>2, <2>3
<1>10. ASSUME Newest(F, n, w, now)  PROVE  Newest(F2, n + 1, w + 1, now)
  <2>1. CASE \E i \in (w + 1)..n : F[i].f = "error"
    <3>1. PICK i \in (w + 1)..n : F[i].f = "error"
      BY <2>1
    <3>2. i + 1 \in ((w + 1) + 1)..(n + 1) /\ F2[i + 1].f = "error"
      BY <3>1
    <3> QED
      BY <3>2 DEF Newest
  <2>2. CASE \E b \in 1..n : /\ F[b].f = "begin" /\ b + 3 <= n /\ F[b + 1].val = now
                             /\ \A i \in (b + 1)..n : F[i].f # "begin"
    <3>1. PICK b \in 1..n : /\ F[b].f = "begin" /\ b + 3 <= n /\ F[b + 1].val = now
                            /\ \A i \in (b + 1)..n : F[i].f # "begin"
      BY <2>2
    <3>2. CASE b <= w
      <4>1. b # w /\ b # w - 1 /\ b # w - 2
        BY <1>1, <3>1 DEF Begins
      <4>2. b \in 1..w /\ b + 1 \in 1..w /\ b \in 1..(n + 1) /\ b + 3 <= n + 1
        BY <3>1, <3>2, <4>1
      <4>3. F2[b].f = "begin" /\ F2[b + 1].val = now
        BY <3>1, <4>2
      <4>4. ASSUME NEW i \in (b + 1)..(n + 1)  PROVE  F2[i].f # "begin"
        <5>1. CASE i \in 1..w
          BY <3>1, <5>1
        <5>2. CASE i = w + 1
          BY <5>2
        <5>3. CASE i \in (w + 2)..(n + 1)
          <6>1. i - 1 \in (w + 1)..n /\ (i - 1) + 1 = i /\ i - 1 \in (b + 1)..n
            BY <3>2, <5>3
          <6> QED
            BY <3>1, <6>1
        <5> QED
          BY <5>1, <5>2, <5>3
      <4> QED
        BY <4>2, <4>3, <4>4 DEF Newest
    <3>3. CASE b > w
      <4>1. b \in (w + 1)..n /\ b + 1 \in (w + 1)..n /\ b + 1 \in 1..(n + 1) /\ (b + 1) + 3 <= n + 1
        BY <3>1, <3>3
      <4>2. F2[b + 1].f = "begin" /\ F2[(b + 1) + 1].val = now
        BY <3>1, <4>1
      <4>3. ASSUME NEW i \in ((b + 1) + 1)..(n + 1)  PROVE  F2[i].f # "begin"
        <5>1. i - 1 \in (w + 1)..n /\ (i - 1) + 1 = i /\ i - 1 \in (b + 1)..n
          BY <3>3
        <5> QED
          BY <3>1, <5>1
      <4> QED
        BY <4>1, <4>2, <4>3 DEF Newest
    <3> QED
      BY <3>2, <3>3
  <2> QED
    BY <1>10, <2>1, <2>2 DEF Newest
<1> QED
  BY <1>7, <1>8, <1>9, <1>10 DEF Grammar

LEMMA StreamHeartbeat ==
    ASSUME StreamInv, NEW c \in Clients, E!Heartbeat(c)
    PROVE  StreamInv'
<1> DEFINE rd == client[c]
           sv == server[c]
           fr == E!Frame("heartbeat", 0, 0)
           q == Append(pipe[c], fr)
<1>0. fr \in AnyFrame /\ fr.f = "heartbeat"
  BY DEF E!Frame, AnyFrame, FrameKinds
<1>1. /\ sv.at = "stream" /\ ~sv.inside /\ pipe[c] = <<>> /\ world' = world /\ cached' = cached
      /\ queue' = queue /\ server' = server /\ client' = client
      /\ pipe' = [pipe EXCEPT ![c] = q]
  BY DEF E!Heartbeat, E!Writes, E!Quiet
<1> HIDE DEF fr
<1>2. Kept(sv, rd, pipe[c], world) /\ world \in Nat
  BY KeptHere DEF OneStream
<1>3. rd.kind = "watch" /\ Receives(sv, rd)
  BY <1>1, <1>2 DEF Kept, Receives
<1>4. q \in Tales /\ Len(q) = 1 /\ q[1] = fr
  BY <1>0, <1>1 DEF Tales
<1> HIDE DEF q
<1>5. Kept(sv, rd, q, world)
  BY <1>1, <1>2, <1>4 DEF Kept
<1>6. ASSUME rd.at = "acked"
      PROVE  \E G \in Tapes, m, a, b \in Nat : Follows(G, m, a, b, sv, rd, q, world)
  <2>1. PICK F \in Tapes, n \in Nat, r \in Nat, w \in Nat :
               Follows(F, n, r, w, sv, rd, pipe[c], world)
    BY <1>6, KeptHere DEF OneStream
  <2>2. /\ Grammar(F, n, world) /\ ReadUpTo(F, r, rd) /\ r = w /\ w <= n
    BY <1>1, <2>1 DEF Follows, Written, Piped
  <2>3. /\ sv.todo = <<>> /\ ~Open(F, w) /\ Later(F, n, w, sv, world)
    BY <1>1, <1>3, <2>1 DEF Follows, Ahead
  <2>4. Base(w, sv) = w /\ Due(w, sv) = w /\ Base(w + 1, sv) = w + 1 /\ Due(w + 1, sv) = w + 1
        /\ Len(sv.todo) = 0
    BY <1>1, <2>3 DEF Base, Due
  <2>5. ASSUME NEW i \in 1..w  PROVE  F[i].f # "lagged"
    <3>1. CASE sv.missed
      <4>1. n = w + 1
        BY <2>3, <2>4, <3>1 DEF Later
      <4> QED
        BY <2>2, <4>1 DEF Grammar
    <3>2. CASE ~sv.missed
      BY <2>2, <2>3, <3>2 DEF Later
    <3> QED
      BY <3>1, <3>2
  <2> DEFINE F2 == [i \in Nat |-> IF i <= w THEN F[i] ELSE IF i = w + 1 THEN fr ELSE F[i - 1]]
  <2>6. F2 \in Tapes
    <3>1. ASSUME NEW i \in Nat  PROVE  F2[i] \in AnyFrame
      <4>1. F[i] \in AnyFrame /\ (i > 0 => F[i - 1] \in AnyFrame)
        BY DEF Tapes
      <4> QED
        BY <1>0, <4>1
    <3> QED
      BY <3>1 DEF Tapes
  <2>7. /\ \A i \in 1..w : F2[i] = F[i]
        /\ F2[w + 1] = fr
        /\ \A i \in (w + 1)..n : F2[i + 1] = F[i]
    <3>1. \A i \in (w + 1)..n : i + 1 \in Nat /\ ~(i + 1 <= w) /\ i + 1 # w + 1 /\ (i + 1) - 1 = i
      OBVIOUS
    <3>2. \A i \in (w + 1)..n : F2[i + 1] = F[i]
      BY <3>1
    <3> QED
      BY <3>2
  <2> HIDE DEF F2
  <2>8. /\ Grammar(F2, n + 1, world) /\ ~Open(F2, w + 1) /\ (Open(F2, n + 1) => Open(F, n))
        /\ Newest(F, n, w, world) => Newest(F2, n + 1, w + 1, world)
    <3>1. w \in 0..n /\ F2[w + 1].f = "heartbeat"
      BY <1>0, <2>2, <2>7
    <3> QED
      BY <1>2, <2>2, <2>3, <2>5, <2>6, <2>7, <3>1, Insert
  <2>9. Written(F2, n + 1, w, w + 1, rd, q, world)
    <3>1. ReadUpTo(F2, w, rd)
      BY <2>2, <2>7, ReadSame
    <3>2. Piped(F2, w, w + 1, q)
      BY <1>4, <2>7 DEF Piped
    <3> QED
      BY <1>3, <2>2, <2>8, <3>1, <3>2 DEF Written
  <2>10. Later(F2, n + 1, w + 1, sv, world)
    <3>1. CASE sv.missed
      <4>1. n = w + 1 /\ F[n] = E!Frame("lagged", 0, 0)
        BY <2>3, <2>4, <3>1 DEF Later
      <4>2. F2[n + 1] = F[n]
        BY <2>7, <4>1
      <4> QED
        BY <2>4, <3>1, <4>1, <4>2 DEF Later
    <3>2. CASE ~sv.missed
      <4>0. sv.unread \in Seq(AnyFrame)
        BY <1>2 DEF Kept, StreamServers, Tales
      <4>1. /\ n = w + Len(sv.unread) /\ ~Open(F, n) /\ (\A i \in 1..n : F[i].f # "lagged")
            /\ \A i \in 1..Len(sv.unread) : sv.unread[i] = F[w + i]
            /\ Newest(F, n, w, world)
        BY <2>3, <2>4, <3>2 DEF Later
      <4>2. ASSUME NEW i \in 1..(n + 1)  PROVE  F2[i].f # "lagged"
        <5>1. CASE i \in 1..w
          BY <2>5, <2>7, <5>1
        <5>2. CASE i = w + 1
          BY <1>0, <2>7, <5>2
        <5>3. CASE i \in (w + 2)..(n + 1)
          <6>1. i - 1 \in (w + 1)..n /\ (i - 1) + 1 = i /\ i - 1 \in 1..n
            BY <5>3
          <6>2. F2[(i - 1) + 1] = F[i - 1]
            BY <2>7, <6>1
          <6>3. F[i - 1].f # "lagged"
            BY <4>1, <6>1
          <6> QED
            BY ONLY <6>1, <6>2, <6>3
        <5> QED
          BY <5>1, <5>2, <5>3
      <4>3. ASSUME NEW i \in 1..Len(sv.unread)  PROVE  sv.unread[i] = F2[(w + 1) + i]
        <5>1. w + i \in (w + 1)..n /\ (w + i) + 1 = (w + 1) + i
          BY <4>0, <4>1
        <5> QED
          BY <2>7, <4>1, <5>1
      <4>4. n + 1 = (w + 1) + Len(sv.unread)
        <5>1. Len(sv.unread) \in Nat
          BY <4>0
        <5> DEFINE x == Len(sv.unread)
        <5>2. n = w + x /\ x \in Nat /\ n \in Nat /\ w \in Nat
          BY <4>1, <5>1
        <5> HIDE DEF x
        <5>3. n + 1 = (w + 1) + x
          BY ONLY <5>2
        <5> QED
          BY <5>3 DEF x
      <4> QED
        BY <2>4, <2>8, <3>2, <4>1, <4>2, <4>3, <4>4 DEF Later
    <3> QED
      BY <3>1, <3>2
  <2>11. Ahead(F2, n + 1, w + 1, sv, rd, world)
    BY <1>1, <1>3, <2>2, <2>3, <2>4, <2>8, <2>10 DEF Ahead
  <2> QED
    BY <2>6, <2>9, <2>11 DEF Follows
<1>7. OneStream(sv, rd, q, world)
  BY <1>5, <1>6 DEF OneStream
<1>8. /\ server'[c] = sv /\ client'[c] = rd /\ pipe'[c] = q /\ queue' \in Seq(Clients)
      /\ server' = [server EXCEPT ![c] = server'[c]] /\ client' = [client EXCEPT ![c] = client'[c]]
      /\ pipe' = [pipe EXCEPT ![c] = pipe'[c]]
  BY <1>1, KeptHere DEF StreamInv
<1> QED
  BY <1>1, <1>3, <1>7, <1>8, OneClient

(***************************************************************************)
(* The steps of the daemon.                                                *)
(***************************************************************************)
LEMMA FreshIs ==
    ASSUME NEW kept, NEW v \in Nat, NEW now \in Nat,
           kept = {} \/ \E s \in Snapshot(v) : kept = {s}
    PROVE  /\ \E s \in Snapshot(now) : E!Fresh(kept, now) = {s}
           /\ kept # {} /\ v = now => E!Fresh(kept, now) = kept
           /\ kept # {} /\ v # now => E!Fresh(kept, now) # kept
<1>0. MaxRev \in Nat
  BY EdgesAssumption DEF E!EventStreamAssumption
<1>1. CASE kept = {}
  <2> DEFINE s == [rev |-> 0, val |-> now]
  <2>1. s \in Snapshot(now) /\ E!Fresh(kept, now) = {s}
    BY <1>1 DEF Snapshot, E!Fresh
  <2> QED
    BY <1>1, <2>1
<1>2. CASE kept # {}
  <2>1. PICK s \in Snapshot(v) : kept = {s}
    BY <1>2
  <2>2. s.rev \in Nat /\ s.val = v
    BY DEF Snapshot
  <2>3. CASE v = now
    <3>1. \E t \in kept : t.val = now
      BY <2>1, <2>2, <2>3
    <3>2. E!Fresh(kept, now) = kept
      BY <3>1 DEF E!Fresh
    <3> QED
      BY <2>1, <2>3, <3>2
  <2>4. CASE v # now
    <3> DEFINE t == [rev |-> E!NextRev((CHOOSE x \in kept : TRUE).rev), val |-> now]
    <3>1. ~\E x \in kept : x.val = now
      BY <2>1, <2>2, <2>4
    <3>2. E!Fresh(kept, now) = {t}
      BY <1>2, <3>1 DEF E!Fresh
    <3>3. (CHOOSE x \in kept : TRUE) = s
      BY <2>1
    <3>31. E!NextRev(s.rev) \in Nat
      BY <1>0, <2>2 DEF E!NextRev
    <3>32. t = [rev |-> E!NextRev(s.rev), val |-> now]
      BY <3>3
    <3> HIDE DEF t
    <3>4. t \in Snapshot(now) /\ t.val = now
      BY <3>31, <3>32 DEF Snapshot
    <3>5. t # s
      BY <2>2, <2>4, <3>4
    <3> QED
      BY <2>1, <2>4, <3>2, <3>4, <3>5
  <2> QED
    BY <2>3, <2>4
<1> QED
  BY <1>1, <1>2

\* A change of the workspaces is nothing to those who listen to nothing.
LEMMA Passes ==
    ASSUME NEW now \in Nat, NEW sv, NEW rd, NEW pp, OneStream(sv, rd, pp, now), ~Receives(sv, rd)
    PROVE  OneStream(sv, rd, pp, now + 1)
<1>1. Kept(sv, rd, pp, now + 1)
  <2>1. Kept(sv, rd, pp, now)
    BY DEF OneStream
  <2>2. Doubles(rd, now + 1)
    <3>1. 0..now \subseteq 0..(now + 1)
      OBVIOUS
    <3> QED
      BY <2>1, <3>1 DEF Kept, Doubles
  <2> QED
    BY <2>1, <2>2 DEF Kept
<1>2. ASSUME rd.at = "acked"
      PROVE  \E F \in Tapes, n, r, w \in Nat : Follows(F, n, r, w, sv, rd, pp, now + 1)
  <2>1. PICK F \in Tapes, n \in Nat, r \in Nat, w \in Nat : Follows(F, n, r, w, sv, rd, pp, now)
    BY <1>2 DEF OneStream
  <2>2. Written(F, n, r, w, rd, pp, now + 1)
    <3>1. n \in w..n /\ now + 1 \in Nat /\ now <= now + 1 /\ pp \in Tales
      BY <1>1, <2>1 DEF Follows, Written, Kept
    <3> QED
      BY <2>1, <3>1, WrittenTo DEF Follows
  <2>3. Ahead(F, n, w, sv, rd, now + 1)
    BY <2>1 DEF Follows, Ahead
  <2> QED
    BY <2>2, <2>3 DEF Follows
<1> QED
  BY <1>1, <1>2 DEF OneStream

\* What a receiver holds after an offer: all of it, or the last of it and
\* the word that some was lost.
Lost(u, q) == IF Len(u \o q) > Capacity THEN Len(u \o q) - Capacity ELSE 0
Held(u, q) == SubSeq(u \o q, Lost(u, q) + 1, Len(u \o q))
LEMMA HoldsOffer ==
    ASSUME NEW u \in Seq(AnyFrame), NEW q \in Seq(AnyFrame), Len(u) <= Capacity, Len(q) > 0
    PROVE  /\ Held(u, q) \in Seq(AnyFrame) /\ Len(Held(u, q)) <= Capacity /\ Held(u, q) # <<>>
           /\ Lost(u, q) \in Nat
           /\ Lost(u, q) = 0 =>
                 /\ Len(Held(u, q)) = Len(u) + Len(q)
                 /\ \A i \in 1..Len(u) : Held(u, q)[i] = u[i]
                 /\ \A i \in 1..Len(q) : Held(u, q)[Len(u) + i] = q[i]
<1> DEFINE all == u \o q
           lost == Lost(u, q)
           held == Held(u, q)
<1>01. lost = IF Len(all) > Capacity THEN Len(all) - Capacity ELSE 0
  BY DEF Lost
<1>02. held = SubSeq(all, lost + 1, Len(all))
  BY DEF Held
<1>0. Capacity \in Nat /\ Capacity > 0
  BY EdgesAssumption DEF E!EventStreamAssumption
<1>1. /\ all \in Seq(AnyFrame) /\ Len(all) = Len(u) + Len(q) /\ Len(u) \in Nat /\ Len(q) \in Nat
      /\ \A i \in 1..Len(u) : all[i] = u[i]
      /\ \A i \in 1..Len(q) : all[Len(u) + i] = q[i]
  OBVIOUS
<1> HIDE DEF all, lost, held
<1>2. lost \in Nat /\ Len(all) - lost <= Capacity /\ Len(all) - lost > 0
  <2>1. Len(all) \in Nat /\ Len(all) > 0
    BY <1>1
  <2>2. CASE Len(all) > Capacity
    BY ONLY <1>0, <1>01, <2>1, <2>2
  <2>3. CASE ~(Len(all) > Capacity)
    BY ONLY <1>0, <1>01, <2>1, <2>3
  <2> QED
    BY <2>2, <2>3
<1>3. \A i \in (lost + 1)..Len(all) : all[i] \in AnyFrame
  BY <1>1, <1>2
<1>4. /\ held \in Seq(AnyFrame) /\ Len(held) = Len(all) - lost
      /\ \A i \in 1..(Len(all) - lost) : held[i] = all[lost + i]
  <2>1. /\ lost + 1 \in Nat /\ Len(all) \in Nat /\ lost + 1 \in 1..(Len(all) + 1)
    BY <1>1, <1>2
  <2>2. held \in Seq(AnyFrame)
    BY <1>02, <1>1, <1>2, <2>1
  <2>3. Len(held) = Len(all) - lost
    BY <1>02, <1>1, <1>2, <2>1
  <2>4. ASSUME NEW i \in 1..(Len(all) - lost)  PROVE  held[i] = all[lost + i]
    <3>1. (lost + 1) + i - 1 = lost + i /\ i \in 1..(Len(all) - (lost + 1) + 1)
      BY <1>1, <1>2
    <3>2. SubSeq(all, lost + 1, Len(all))[i] = all[(lost + 1) + i - 1]
      <4> DEFINE m == lost + 1
                 k == Len(all)
      <4>1. m \in Int /\ k \in Int /\ (\A j \in m..k : all[j] \in AnyFrame) /\ i \in 1..(k - m + 1)
        <5>1. m \in Int /\ k \in Int
          BY <1>2, <2>1
        <5> QED
          BY <1>3, <3>1, <5>1
      <4> HIDE DEF m, k
      <4>2. \A j \in 1..(k - m + 1) : SubSeq(all, m, k)[j] = all[m + j - 1]
        BY ONLY <4>1, SubSeqProperties
      <4> QED
        BY <4>1, <4>2 DEF m, k
    <3> QED
      BY <1>02, <3>1, <3>2
  <2> QED
    BY <2>2, <2>3, <2>4
<1>5. held # <<>>
  BY <1>2, <1>4
<1>6. ASSUME lost = 0
      PROVE  /\ Len(held) = Len(u) + Len(q)
             /\ \A i \in 1..Len(u) : held[i] = u[i]
             /\ \A i \in 1..Len(q) : held[Len(u) + i] = q[i]
  <2>1. Len(held) = Len(u) + Len(q)
    BY <1>1, <1>4, <1>6
  <2>2. ASSUME NEW i \in 1..(Len(u) + Len(q))  PROVE  held[i] = all[i]
    <3>1. i \in 1..(Len(all) - lost) /\ lost + i = i
      BY <1>1, <1>6
    <3> QED
      BY <1>4, <3>1
  <2>3. ASSUME NEW i \in 1..Len(u)  PROVE  held[i] = u[i]
    <3>1. i \in 1..(Len(u) + Len(q))
      BY <1>1
    <3> QED
      BY <1>1, <2>2, <3>1
  <2>4. ASSUME NEW i \in 1..Len(q)  PROVE  held[Len(u) + i] = q[i]
    <3>1. Len(u) + i \in 1..(Len(u) + Len(q))
      BY <1>1
    <3> QED
      BY <1>1, <2>2, <3>1
  <2> QED
    BY <2>1, <2>3, <2>4
<1> QED
  BY <1>1, <1>2, <1>4, <1>5, <1>6 DEF lost, held

LEMMA Offers ==
    ASSUME NEW now \in Nat, NEW sv, NEW rd, NEW pp, OneStream(sv, rd, pp, now), Receives(sv, rd),
           NEW older \in {<<>>, <<E!Frame("event", 0, 0)>>}, NEW s \in Snapshot(now + 1),
           NEW q, q = older \o E!Frames(s),
           NEW s2, s2 = [sv EXCEPT !.unread = Held(sv.unread, q), !.missed = @ \/ Lost(sv.unread, q) > 0]
    PROVE  OneStream(s2, rd, pp, now + 1)
<1> DEFINE held == Held(sv.unread, q)
           lost == Lost(sv.unread, q)
<1>1. Kept(sv, rd, pp, now) /\ sv \in StreamServers /\ pp \in Tales /\ now + 1 \in Nat
  BY DEF OneStream, Kept
<1>2. sv.unread \in Seq(AnyFrame) /\ Len(sv.unread) <= Capacity /\ sv.missed \in BOOLEAN
  BY <1>1 DEF Kept, StreamServers, Tales
<1>3. q \in Seq(AnyFrame) /\ Len(q) > 0
  <2>1. E!Frames(s) \in Seq(AnyFrame) /\ Len(E!Frames(s)) > 0
    BY <1>1, FramesAre
  <2>2. older \in Seq(AnyFrame)
    <3> DEFINE v == E!Frame("event", 0, 0)
    <3>1. v \in AnyFrame
      BY DEF E!Frame, AnyFrame, FrameKinds
    <3> HIDE DEF v
    <3>2. <<v>> \in Seq(AnyFrame) /\ <<>> \in Seq(AnyFrame)
      BY <3>1
    <3> QED
      BY <3>2 DEF v
  <2> QED
    BY <2>1, <2>2
<1>4. s2 = [sv EXCEPT !.unread = held, !.missed = @ \/ lost > 0]
  OBVIOUS
<1> HIDE DEF held, lost
<1>5. /\ held \in Seq(AnyFrame) /\ Len(held) <= Capacity /\ held # <<>> /\ lost \in Nat
      /\ lost = 0 =>
            /\ Len(held) = Len(sv.unread) + Len(q)
            /\ \A i \in 1..Len(sv.unread) : held[i] = sv.unread[i]
            /\ \A i \in 1..Len(q) : held[Len(sv.unread) + i] = q[i]
  BY <1>2, <1>3, HoldsOffer DEF held, lost
<1>51. lost \in Nat
  BY <1>5
<1>6. /\ s2 \in StreamServers /\ s2.unread = held /\ s2.at = sv.at /\ s2.todo = sv.todo
      /\ s2.inside = sv.inside /\ s2.missed = (sv.missed \/ lost > 0)
  <2> DEFINE m == sv.missed \/ lost > 0
  <2>1. held \in Tales /\ m \in BOOLEAN
    BY <1>2, <1>5 DEF Tales
  <2>2. s2 = [sv EXCEPT !.unread = held, !.missed = m]
    BY <1>4
  <2> HIDE DEF m
  <2>3. /\ s2 \in StreamServers /\ s2.unread = held /\ s2.at = sv.at /\ s2.todo = sv.todo
        /\ s2.inside = sv.inside /\ s2.missed = m
    BY ONLY <1>1, <2>1, <2>2 DEF StreamServers
  <2> QED
    BY <2>3 DEF m
<1>7. Doubles(rd, now + 1)
  <2>1. 0..now \subseteq 0..(now + 1)
    OBVIOUS
  <2> QED
    BY <1>1, <2>1 DEF Kept, Doubles
<1>8. Kept(s2, rd, pp, now + 1)
  BY <1>1, <1>5, <1>6, <1>7 DEF Kept, Receives
<1>9. ASSUME rd.at = "acked"
      PROVE  \E G \in Tapes, m, a, b \in Nat : Follows(G, m, a, b, s2, rd, pp, now + 1)
  <2>1. PICK F \in Tapes, n \in Nat, r \in Nat, w \in Nat : Follows(F, n, r, w, sv, rd, pp, now)
    BY <1>9 DEF OneStream
  <2>2. Written(F, n, r, w, rd, pp, now) /\ Ahead(F, n, w, sv, rd, now) /\ w <= n
    BY <2>1 DEF Follows, Written
  <2> DEFINE k == Due(w, sv)
  <2>3. k \in Nat /\ w <= k /\ k <= n /\ Base(w, sv) \in Nat
    BY <1>1, <2>2 DEF Due, Base, StreamServers, Tales, Ahead
  <2>4. Due(w, s2) = k
    BY <1>6 DEF Due, Base
  <2>41. /\ sv \in StreamServers /\ s2 \in StreamServers /\ s2.at = sv.at /\ s2.todo = sv.todo
         /\ s2.inside = sv.inside /\ Ahead(F, n, w, sv, rd, now)
    BY <1>1, <1>6, <2>2
  <2>42. ASSUME NEW F2 \in Tapes, NEW m \in Nat, k <= m, \A i \in 1..k : F2[i] = F[i],
                rd.kind = "query" => m = k,
                rd.kind = "watch" => Later(F2, m, w, s2, now + 1)
         PROVE  Ahead(F2, m, w, s2, rd, now + 1)
    <3>1. Base(w, s2) = Base(w, sv) /\ Due(w, s2) = Due(w, sv)
      BY <2>41 DEF Base, Due
    <3>2. Base(w, sv) \in Nat /\ Len(sv.todo) \in Nat /\ Due(w, sv) = Base(w, sv) + Len(sv.todo) /\ w <= Base(w, sv)
      BY <2>41 DEF Base, Due, StreamServers, Tales
    <3>3. Due(w, sv) \in Nat /\ w <= Due(w, sv)
      BY <3>2
    <3>4. (Open(F2, w) <=> Open(F, w)) /\ (Open(F2, Due(w, sv)) <=> Open(F, Due(w, sv)))
      <4>1. \A i \in 1..w : F2[i] = F[i]
        BY <2>42, <2>4, <3>1, <3>3
      <4>2. \A i \in 1..Due(w, sv) : F2[i] = F[i]
        BY <2>42, <2>4, <3>1
      <4> QED
        BY <3>3, <4>1, <4>2, OpenSame
    <3>5. ASSUME NEW i \in 1..Len(s2.todo)  PROVE  s2.todo[i] = F2[Base(w, s2) + i]
      <4>1. Base(w, sv) + i \in 1..Due(w, sv) /\ i \in 1..Len(sv.todo)
        BY <2>41, <3>2
      <4>2. sv.todo[i] = F[Base(w, sv) + i]
        BY <2>41, <4>1 DEF Ahead
      <4>3. F2[Base(w, sv) + i] = F[Base(w, sv) + i]
        BY <2>42, <2>4, <3>1, <4>1
      <4> QED
        BY <2>41, <3>1, <4>1, <4>2, <4>3
    <3>6. sv.at \in {"answered", "startup", "stream"} /\ rd.kind # "command"
      BY DEF Receives
    <3>7. s2.at = "answered" => w = 0 /\ m > 0 /\ F2[1] = E!Frame("ack", 0, 0)
      <4>1. sv.at = "answered" => w = 0 /\ F[1] = E!Frame("ack", 0, 0) /\ Base(w, sv) = 1
        BY <2>41, <3>6 DEF Ahead, Base
      <4>2. sv.at = "answered" => 1 \in 1..Due(w, sv)
        BY <3>2, <4>1
      <4>3. sv.at = "answered" => F2[1] = F[1]
        BY <2>42, <2>4, <3>1, <4>2
      <4>4. Due(w, sv) <= m
        BY <2>42, <2>4, <3>1
      <4>5. sv.at = "answered" => m > 0
        BY <3>2, <4>1, <4>4
      <4> QED
        BY <2>41, <4>1, <4>3, <4>5
    <3>8. /\ s2.at = "stream" => s2.todo = <<>> /\ (s2.inside <=> Open(F2, w))
          /\ s2.at # "stream" => ~s2.inside /\ ~Open(F2, Due(w, s2))
      BY <2>41, <3>1, <3>4, <3>6 DEF Ahead, Receives
    <3>9. Due(w, s2) <= m /\ (rd.kind = "query" => m = Due(w, s2))
      BY <2>42, <2>4
    <3> QED
      BY <2>41, <2>42, <3>5, <3>6, <3>7, <3>8, <3>9 DEF Ahead
  <2>5. CASE rd.kind # "watch" \/ sv.missed
    <3>1. rd.kind = "query" \/ (rd.kind = "watch" /\ sv.missed)
      BY <1>1, <2>5 DEF Kept, Receives, Readers
    <3>2. rd.kind = "query" => n = k
      BY <2>2 DEF Ahead
    <3>3. rd.kind = "watch" => Later(F, n, w, s2, now + 1)
      BY <1>6, <2>2, <2>4, <3>1 DEF Ahead, Later
    <3>4. Ahead(F, n, w, s2, rd, now + 1)
      <4>1. Due(w, sv) <= n /\ \A i \in 1..Due(w, sv) : F[i] = F[i]
        BY <2>3
      <4>2. rd.kind = "query" => n = Due(w, sv)
        BY <3>2
      <4> QED
        BY <2>42, <3>3, <4>1, <4>2
    <3>5. Written(F, n, r, w, rd, pp, now + 1)
      <4>1. n \in w..n /\ now <= now + 1
        BY <2>3
      <4> QED
        BY <1>1, <2>2, <4>1, WrittenTo
    <3> QED
      BY <3>4, <3>5 DEF Follows
  <2>6. CASE rd.kind = "watch" /\ ~sv.missed
    <3>1. /\ n = k + Len(sv.unread) /\ ~Open(F, n) /\ (\A i \in 1..n : F[i].f # "lagged")
          /\ \A i \in 1..Len(sv.unread) : sv.unread[i] = F[k + i]
      BY <2>2, <2>6 DEF Ahead, Later
    <3>2. CASE lost = 0
      <4>1. PICK F2 \in Tapes : (\A i \in 1..n : F2[i] = F[i]) /\ Added(F2, n, q)
        BY <1>3, Extend
      <4> DEFINE m == n + Len(q)
      <4>2. m \in Nat /\ n <= m
        BY <1>3
      <4>3. Written(F2, n, r, w, rd, pp, now + 1)
        <5>1. n \in w..n /\ now <= now + 1
          BY <2>3
        <5> QED
          BY <1>1, <2>2, <4>1, <5>1, WrittenTo
      <4>4. Settled(F2, n, now + 1)
        <5>1. ~Open(F2, n) /\ \A i \in 1..n : F2[i].f # "lagged"
          BY <3>1, <4>1, OpenSame
        <5> QED
          BY <4>3, <5>1 DEF Settled, Written
      <4>5. Settled(F2, m, now + 1) /\ \A x \in 0..n : Newest(F2, m, x, now + 1)
        <5>1. Added(F2, n, older \o E!Frames(s))
          BY <4>1
        <5> QED
          BY <1>1, <4>4, <5>1, AddNews
      <4> HIDE DEF m
      <4>6. Written(F2, m, r, w, rd, pp, now + 1)
        BY <2>3, <2>6, <4>2, <4>3, <4>5 DEF Written, Settled
      <4>7. Later(F2, m, w, s2, now + 1)
        <5>1. w \in 0..n
          BY <2>3
        <5>0. Len(sv.unread) \in Nat /\ Len(q) \in Nat
          BY <1>2, <1>3
        <5>01. n = k + Len(sv.unread) /\ Len(s2.unread) = Len(sv.unread) + Len(q)
          BY <1>5, <1>6, <3>1, <3>2
        <5>2. m = k + Len(s2.unread)
          <6> DEFINE a == Len(sv.unread)
                     b == Len(q)
                     e == Len(s2.unread)
          <6>1. k \in Nat /\ a \in Nat /\ b \in Nat /\ n = k + a /\ e = a + b /\ m = n + b
            BY ONLY <2>3, <5>0, <5>01 DEF m
          <6> HIDE DEF a, b, e, k
          <6>2. m = k + e
            BY ONLY <6>1
          <6> QED
            BY <6>2 DEF e
        <5>3. ASSUME NEW i \in 1..Len(s2.unread)  PROVE  s2.unread[i] = F2[k + i]
          <6>0. Len(sv.unread) \in Nat /\ Len(q) \in Nat
            BY <1>2, <1>3
          <6>01. i \in 1..(Len(sv.unread) + Len(q))
            BY <5>01
          <6>1. CASE i <= Len(sv.unread)
            <7>1. k + i \in 1..n /\ i \in 1..Len(sv.unread)
              <8> DEFINE x == Len(sv.unread)
              <8>1. x \in Nat /\ i \in Nat /\ 1 <= i /\ i <= x /\ k \in Nat /\ n = k + x
                BY <2>3, <3>1, <6>0, <6>01, <6>1
              <8> HIDE DEF x, k
              <8>2. k + i \in 1..n /\ i \in 1..x
                BY ONLY <8>1
              <8> QED
                BY <8>2 DEF x, k
            <7> QED
              BY <1>5, <1>6, <3>1, <3>2, <4>1, <7>1
          <6>2. CASE ~(i <= Len(sv.unread))
            <7> DEFINE j == i - Len(sv.unread)
            <7>1. j \in 1..Len(q)
              <8> DEFINE x == Len(sv.unread)
                         y == Len(q)
              <8>1. x \in Nat /\ y \in Nat /\ i \in 1..(x + y) /\ ~(i <= x)
                BY <6>0, <6>01, <6>2
              <8> HIDE DEF x, y
              <8>2. i - x \in 1..y
                BY ONLY <8>1
              <8> QED
                BY <8>2 DEF x, y
            <7>2. k + i = n + j /\ i = Len(sv.unread) + j
              BY <2>3, <5>01, <6>0
            <7> HIDE DEF j
            <7>3. held[Len(sv.unread) + j] = q[j]
              BY <1>5, <3>2, <7>1
            <7>4. F2[n + j] = q[j]
              BY <4>1, <7>1 DEF Added
            <7> QED
              BY <1>6, <7>2, <7>3, <7>4
          <6> QED
            BY <6>1, <6>2
        <5>4. ~s2.missed
          <6>1. ~(lost > 0)
            BY <1>51, <3>2
          <6> QED
            BY <1>6, <2>6, <6>1
        <5> QED
          BY <2>4, <4>5, <5>1, <5>2, <5>3, <5>4 DEF Later, Settled
      <4>8. Ahead(F2, m, w, s2, rd, now + 1)
        <5>1. Due(w, sv) <= m /\ \A i \in 1..Due(w, sv) : F2[i] = F[i]
          BY <2>3, <4>1, <4>2
        <5>2. rd.kind = "query" => m = Due(w, sv)
          BY <2>6
        <5>3. rd.kind = "watch" => Later(F2, m, w, s2, now + 1)
          BY <4>7
        <5> QED
          BY <2>42, <4>2, <5>1, <5>2, <5>3
      <4> QED
        BY <4>2, <4>6, <4>8 DEF Follows
    <3>3. CASE lost # 0
      <4> DEFINE fr == E!Frame("lagged", 0, 0)
      <4>0. <<fr>> \in Seq(AnyFrame) /\ Len(<<fr>>) = 1 /\ <<fr>>[1] = fr /\ fr.f = "lagged"
        BY DEF E!Frame, AnyFrame, FrameKinds
      <4> HIDE DEF fr
      <4>1. PICK F2 \in Tapes : (\A i \in 1..k : F2[i] = F[i]) /\ Added(F2, k, <<fr>>)
        BY <2>3, <4>0, Extend
      <4>2. F2[k + 1] = fr
        BY <4>0, <4>1 DEF Added
      <4>3. Written(F2, k, r, w, rd, pp, now + 1)
        <5>1. k \in w..n /\ now <= now + 1
          BY <2>3
        <5> QED
          BY <1>1, <2>2, <4>1, <5>1, WrittenTo
      <4>4. Grammar(F2, k + 1, now + 1)
        <5>1. \A i \in 1..k : F2[i].f # "lagged"
          <6>1. \A i \in 1..k : i \in 1..n
            BY <2>3
          <6>2. \A i \in 1..n : F[i].f # "lagged"
            BY <3>1
          <6> QED
            BY <4>1, <6>1, <6>2
        <5>2. Grammar(F2, k, now + 1) /\ F2[k + 1].f = "lagged"
          BY <4>0, <4>2, <4>3 DEF Written
        <5> QED
          BY <1>1, <2>3, <5>1, <5>2, AddLagged
      <4>5. Written(F2, k + 1, r, w, rd, pp, now + 1)
        BY <2>3, <2>6, <4>3, <4>4 DEF Written
      <4>6. Later(F2, k + 1, w, s2, now + 1)
        <5>1. lost > 0
          BY ONLY <1>51, <3>3
        <5>2. s2.missed
          BY <1>6, <5>1
        <5> QED
          BY <2>4, <4>2, <5>2 DEF Later, fr
      <4>7. Ahead(F2, k + 1, w, s2, rd, now + 1)
        <5>1. k + 1 \in Nat /\ Due(w, sv) <= k + 1 /\ \A i \in 1..Due(w, sv) : F2[i] = F[i]
          BY <2>3, <4>1
        <5>2. rd.kind = "query" => k + 1 = Due(w, sv)
          BY <2>6
        <5>3. rd.kind = "watch" => Later(F2, k + 1, w, s2, now + 1)
          BY <4>6
        <5> QED
          BY <2>42, <5>1, <5>2, <5>3
      <4>8. k + 1 \in Nat /\ Follows(F2, k + 1, r, w, s2, rd, pp, now + 1)
        BY <2>3, <4>5, <4>7 DEF Follows
      <4> QED
        BY <4>8
    <3> QED
      BY <3>2, <3>3
  <2> QED
    BY <2>5, <2>6
<1> QED
  BY <1>8, <1>9 DEF OneStream

LEMMA OfferIs ==
    ASSUME NEW q
    PROVE  /\ E!Offered(server, q) = [d \in Clients |-> E!Offered(server, q)[d]]
           /\ \A d \in Clients : E!Offered(server, q)[d] =
                 IF Receives(server[d], client[d])
                 THEN [server[d] EXCEPT !.unread = Held(server[d].unread, q),
                                        !.missed = @ \/ Lost(server[d].unread, q) > 0]
                 ELSE server[d]
BY DEF E!Offered, E!Receiving, Receives, Held, Lost

\* What is kept of the workspace state when something is published.
LEMMA CachedIs ==
    ASSUME StreamInv, NEW now \in Nat
    PROVE  /\ \E s \in Snapshot(now) : E!Fresh(cached, now) = {s}
           /\ E!Receivers = {c \in Clients : Receives(server[c], client[c])}
           /\ E!Receivers # {} /\ now = world => E!Fresh(cached, now) = cached
           /\ E!Receivers # {} /\ now # world => E!Fresh(cached, now) # cached
<1>0. world \in Nat
  BY DEF StreamInv
<1>1. PICK v \in 0..world : cached = {} \/ \E s \in Snapshot(v) : cached = {s}
  BY <1>0 DEF StreamInv
<1>2. v \in Nat
  BY <1>0
<1>3. \E s \in Snapshot(now) : E!Fresh(cached, now) = {s}
  BY <1>1, <1>2, FreshIs
<1>4. E!Receivers = {c \in Clients : Receives(server[c], client[c])}
  BY DEF E!Receivers, E!Receiving, Receives
<1>5. ASSUME E!Receivers # {}
      PROVE  cached # {} /\ \E s \in Snapshot(world) : cached = {s}
  <2>1. PICK c \in Clients : Receives(server[c], client[c])
    BY <1>4, <1>5
  <2>2. PICK s \in Snapshot(world) : cached = {s}
    BY <2>1 DEF StreamInv
  <2> QED
    BY <2>2
<1>6. ASSUME E!Receivers # {}
      PROVE  /\ world = now => E!Fresh(cached, now) = cached
             /\ world # now => E!Fresh(cached, now) # cached
  <2>1. cached # {} /\ \E s \in Snapshot(world) : cached = {s}
    BY <1>5, <1>6
  <2> QED
    BY ONLY <1>0, <2>1, now \in Nat, FreshIs
<1> QED
  BY <1>3, <1>4, <1>6

LEMMA StreamChange ==
    ASSUME StreamInv, E!Change
    PROVE  StreamInv'
<1> DEFINE now == world + 1
<1>1. /\ world \in Nat /\ now \in Nat /\ world' = now /\ now # world
      /\ queue' = queue /\ pipe' = pipe /\ client' = client
  BY DEF E!Change, StreamInv
<1>2. PICK older \in {<<>>, <<E!Frame("event", 0, 0)>>} :
         server' = E!Offered(server, older \o E!Published(cached, now))
  BY DEF E!Change
<1>3. cached' = IF E!Receivers = {} THEN cached ELSE E!Fresh(cached, now)
  BY DEF E!Change
<1> DEFINE q == older \o E!Published(cached, now)
<1>4. /\ server' = [d \in Clients |-> server'[d]]
      /\ \A d \in Clients : server'[d] =
            IF Receives(server[d], client[d])
            THEN [server[d] EXCEPT !.unread = Held(server[d].unread, q),
                                   !.missed = @ \/ Lost(server[d].unread, q) > 0]
            ELSE server[d]
  BY <1>2, OfferIs
<1>5. PICK s \in Snapshot(now) : E!Fresh(cached, now) = {s}
  BY <1>1, CachedIs
<1>6. E!Receivers # {} => q = older \o E!Frames(s)
  <2>1. E!Receivers # {} => E!Fresh(cached, now) # cached
    BY <1>1, CachedIs
  <2>2. (CHOOSE x \in E!Fresh(cached, now) : TRUE) = s
    BY <1>5
  <2> QED
    BY <2>1, <2>2 DEF E!Published
<1>7. E!Receivers = {d \in Clients : Receives(server[d], client[d])}
  BY <1>1, CachedIs
<1> HIDE DEF q
<1>8. ASSUME NEW d \in Clients
      PROVE  /\ OneStream(server'[d], client[d], pipe[d], now)
             /\ Receives(server'[d], client[d]) => Receives(server[d], client[d])
  <2>0. OneStream(server[d], client[d], pipe[d], world)
    BY DEF StreamInv
  <2>1. CASE Receives(server[d], client[d])
    <3>1. q = older \o E!Frames(s)
      BY <1>6, <1>7, <2>1
    <3>2. server'[d] = [server[d] EXCEPT !.unread = Held(server[d].unread, q),
                                         !.missed = @ \/ Lost(server[d].unread, q) > 0]
      BY ONLY <1>4, <2>1, d \in Clients
    <3>3. s \in Snapshot(world + 1)
      BY <1>5
    <3>4. OneStream(server'[d], client[d], pipe[d], world + 1)
      BY ONLY <1>1, <1>2, <2>0, <2>1, <3>1, <3>2, <3>3, Offers
    <3> QED
      BY <2>1, <3>4
  <2>2. CASE ~Receives(server[d], client[d])
    <3>1. server'[d] = server[d]
      BY <1>4, <2>2
    <3> QED
      BY <1>1, <2>0, <2>2, <3>1, Passes
  <2> QED
    BY <2>1, <2>2
<1>9. /\ server' \in [Clients -> StreamServers] /\ client' \in [Clients -> Readers]
      /\ pipe' \in [Clients -> Tales] /\ queue' \in Seq(Clients) /\ world' \in Nat
  <2>1. \A d \in Clients : server'[d] \in StreamServers
    BY <1>8 DEF OneStream, Kept
  <2>2. [d \in Clients |-> server'[d]] \in [Clients -> StreamServers]
    BY <2>1
  <2> QED
    BY <1>1, <1>4, <2>2 DEF StreamInv
<1>10. cached' = {} \/ \E v \in 0..world' : \E x \in Snapshot(v) : cached' = {x}
  <2>1. CASE E!Receivers = {}
    <3>1. cached' = cached /\ 0..world \subseteq 0..world'
      BY <1>1, <1>3, <2>1
    <3>2. cached = {} \/ \E v \in 0..world : \E x \in Snapshot(v) : cached = {x}
      BY DEF StreamInv
    <3> QED
      BY <3>1, <3>2
  <2>2. CASE E!Receivers # {}
    <3>1. cached' = {s} /\ now \in 0..world'
      BY <1>1, <1>3, <1>5, <2>2
    <3> QED
      BY <1>5, <3>1
  <2> QED
    BY <2>1, <2>2
<1>11. ASSUME NEW c \in Clients, Receives(server'[c], client'[c])
       PROVE  \E x \in Snapshot(world') : cached' = {x}
  <2>1. Receives(server[c], client[c])
    BY <1>1, <1>8, <1>11
  <2>2. E!Receivers # {}
    BY <1>7, <2>1
  <2> QED
    BY <1>1, <1>3, <1>5, <2>2
<1>12. \A c \in Clients : OneStream(server'[c], client'[c], pipe'[c], world')
  BY <1>1, <1>8
<1> QED
  BY <1>9, <1>10, <1>11, <1>12 DEF StreamInv

LEMMA HeldNone ==
    ASSUME NEW u \in Seq(AnyFrame), Len(u) <= Capacity
    PROVE  Lost(u, <<>>) = 0 /\ Held(u, <<>>) = u
<1>0. Capacity \in Nat
  BY EdgesAssumption DEF E!EventStreamAssumption
<1>1. u \o <<>> = u
  OBVIOUS
<1>2. Lost(u, <<>>) = 0
  BY <1>0, <1>1 DEF Lost
<1>3. SubSeq(u, 1, Len(u)) = u
  OBVIOUS
<1> QED
  BY <1>1, <1>2, <1>3 DEF Held

LEMMA NothingNew ==
    ASSUME StreamInv
    PROVE  E!Offered(server, E!Published(cached, world)) = server
<1>1. E!Published(cached, world) = <<>>
  <2>1. E!Receivers # {} => E!Fresh(cached, world) = cached
    BY CachedIs DEF StreamInv
  <2> QED
    BY <2>1 DEF E!Published
<1>2. ASSUME NEW d \in Clients
      PROVE  E!Offered(server, <<>>)[d] = server[d]
  <2>1. server[d] \in StreamServers /\ Len(server[d].unread) <= Capacity
    BY DEF StreamInv, OneStream, Kept
  <2>2. server[d].unread \in Seq(AnyFrame) /\ server[d].missed \in BOOLEAN
    BY <2>1 DEF StreamServers, Tales
  <2>3. Held(server[d].unread, <<>>) = server[d].unread /\ Lost(server[d].unread, <<>>) = 0
    BY <2>1, <2>2, HeldNone
  <2>4. [server[d] EXCEPT !.unread = server[d].unread, !.missed = @ \/ 0 > 0] = server[d]
    <3>1. (server[d].missed \/ 0 > 0) = server[d].missed
      BY <2>2
    <3>2. [server[d] EXCEPT !.unread = server[d].unread, !.missed = server[d].missed] = server[d]
      BY ONLY <2>1 DEF StreamServers
    <3> QED
      BY <3>1, <3>2
  <2>5. CASE Receives(server[d], client[d])
    <3>1. E!Offered(server, <<>>)[d] =
             [server[d] EXCEPT !.unread = Held(server[d].unread, <<>>),
                               !.missed = @ \/ Lost(server[d].unread, <<>>) > 0]
      BY <2>5, OfferIs
    <3> QED
      BY ONLY <2>3, <2>4, <3>1
  <2>6. CASE ~Receives(server[d], client[d])
    BY <2>6, OfferIs
  <2> QED
    BY <2>5, <2>6
<1>3. E!Offered(server, <<>>) = [d \in Clients |-> server[d]]
  BY <1>2, OfferIs
<1> QED
  BY <1>1, <1>3 DEF StreamInv

\* The daemon's answer, and what it freezes for a stream.
LEMMA Answered ==
    ASSUME NEW now \in Nat, NEW sv, NEW rd, NEW pp, OneStream(sv, rd, pp, now), sv.at = "asked",
           NEW n, NEW q \in Tales, NEW s2, s2 = [sv EXCEPT !.at = "answered", !.todo = q],
           NEW ak, ak = E!Frame(IF rd.kind = "command" THEN "answer" ELSE "ack", 0, 0), n = 1 + Len(q),
           rd.kind = "command" => q = <<>>,
           rd.kind # "command" => \E s \in Snapshot(now) : q = E!Frames(s)
    PROVE  OneStream(s2, rd, pp, now)
<1>1. /\ Kept(sv, rd, pp, now) /\ sv \in StreamServers /\ rd \in Readers /\ pp \in Tales
      /\ sv.unread = <<>> /\ ~sv.missed /\ ~sv.inside
  BY DEF OneStream, Kept
<1>2. /\ s2 \in StreamServers /\ s2.at = "answered" /\ s2.todo = q /\ s2.unread = <<>>
      /\ ~s2.missed /\ ~s2.inside
  BY <1>1 DEF StreamServers
<1>3. rd.kind # "command" => q # <<>>
  <2>1. ASSUME rd.kind # "command"  PROVE  q # <<>>
    <3>1. PICK s \in Snapshot(now) : q = E!Frames(s)
      BY <2>1
    <3>2. Len(q) > 0
      BY <3>1, FramesAre
    <3> QED
      BY <3>2
  <2> QED
    BY <2>1
<1>4. Kept(s2, rd, pp, now)
  <2>1. Len(s2.unread) <= Capacity
    BY <1>1, <1>2 DEF Kept
  <2> QED
    BY <1>1, <1>2, <1>3, <2>1 DEF Kept, Receives
<1>5. ak \in AnyFrame /\ ak.f \in Plain /\ ak.f \notin {"event", "heartbeat"}
  BY DEF E!Frame, AnyFrame, FrameKinds, Plain
<1>6. ASSUME rd.at = "acked"
      PROVE  \E F \in Tapes, m, r, w \in Nat : Follows(F, m, r, w, s2, rd, pp, now)
  <2>1. PICK F0 \in Tapes, m \in Nat, r \in Nat, w \in Nat : Follows(F0, m, r, w, sv, rd, pp, now)
    BY <1>6 DEF OneStream
  <2>2. /\ m = 0 /\ w = 0 /\ r = 0
        /\ ReadUpTo(F0, 0, rd) /\ Piped(F0, 0, 0, pp)
    BY <2>1 DEF Follows, Written, Ahead, Piped
  <2>3. <<ak>> \in Seq(AnyFrame) /\ Len(<<ak>>) = 1 /\ <<ak>>[1] = ak
    BY <1>5
  <2>4. PICK F1 \in Tapes : Added(F1, 0, <<ak>>)
    BY <2>3, Extend
  <2>5. F1[1] = ak
    BY <2>3, <2>4 DEF Added
  <2>6. Settled(F1, 1, now)
    <3>1. Grammar(F1, 0, now) /\ ~Open(F1, 0)
      BY DEF Grammar, Open, Begins
    <3>2. 0 + 1 = 1 /\ \A i \in 1..0 : F1[i].f # "lagged"
      OBVIOUS
    <3> QED
      BY <1>5, <2>5, <3>1, <3>2, AddPlain DEF Settled
  <2>7. q \in Seq(AnyFrame) /\ Len(q) \in Nat
    BY DEF Tales
  <2>8. PICK F \in Tapes : (\A i \in 1..1 : F[i] = F1[i]) /\ Added(F, 1, q)
    BY <2>7, Extend
  <2>9. F[1] = ak /\ Settled(F, 1, now)
    <3>1. F[1] = F1[1]
      BY <2>8
    <3>2. Grammar(F, 1, now)
      <4>1. Grammar(F1, 1, now) /\ 1 \in Nat /\ 1 <= 1 /\ now <= now
        BY <2>6 DEF Settled
      <4> QED
        BY ONLY <2>8, <4>1, now \in Nat, F1 \in Tapes, F \in Tapes, GrammarSame
    <3>3. ~Open(F, 1)
      BY <2>6, <2>8, OpenSame DEF Settled
    <3>4. \A i \in 1..1 : F[i].f # "lagged"
      BY <2>6, <2>8 DEF Settled
    <3> QED
      BY <2>5, <3>1, <3>2, <3>3, <3>4 DEF Settled
  <2>10. n \in Nat /\ n = 1 + Len(q) /\ Due(0, s2) = n /\ Base(0, s2) = 1
    BY <1>2, <2>7 DEF Due, Base
  <2>11. Settled(F, n, now) /\ (rd.kind # "command" => Newest(F, n, 0, now))
    <3>1. CASE rd.kind = "command"
      <4>1. n = 1
        BY <2>10, <3>1
      <4> QED
        BY <2>9, <3>1, <4>1
    <3>2. CASE rd.kind # "command"
      <4>1. PICK s \in Snapshot(now) : q = E!Frames(s)
        BY <3>2
      <4>2. now \in 0..now /\ 0 \in 0..1
        OBVIOUS
      <4>3. Settled(F, 1, now) /\ Added(F, 1, E!Frames(s))
        BY <2>8, <2>9, <4>1
      <4>4. /\ Settled(F, 1 + Len(E!Frames(s)), now)
            /\ \A x \in 0..1 : Newest(F, 1 + Len(E!Frames(s)), x, now)
        BY ONLY <4>2, <4>3, F \in Tapes, 1 \in Nat, now \in Nat, s \in Snapshot(now), AddSnapshot
      <4> QED
        BY ONLY <2>10, <4>1, <4>2, <4>4
    <3> QED
      BY <3>1, <3>2
  <2>12. \A i \in 1..n : F[i].f \notin {"event", "heartbeat"}
    <3>1. ASSUME NEW i \in 1..Len(q)  PROVE  F[1 + i].f \notin {"event", "heartbeat"}
      <4>1. rd.kind # "command"
        BY <3>1
      <4>2. PICK s \in Snapshot(now) : q = E!Frames(s)
        BY <4>1
      <4>3. q[i].f \in {"begin", "chunk", "end", "error"}
        BY <4>2, FramesAre
      <4> QED
        BY <2>8, <4>3 DEF Added
    <3>2. ASSUME NEW i \in 1..n, i # 1  PROVE  F[i].f \notin {"event", "heartbeat"}
      <4>1. i - 1 \in 1..Len(q) /\ 1 + (i - 1) = i
        BY <2>7, <2>10, <3>2
      <4>2. F[1 + (i - 1)].f \notin {"event", "heartbeat"}
        BY <3>1, <4>1
      <4> QED
        BY <4>1, <4>2
    <3> QED
      BY <1>5, <2>9, <3>2
  <2>13. Written(F, n, 0, 0, rd, pp, now)
    <3>1. ReadUpTo(F, 0, rd)
      <4>1. \A i \in 1..0 : F[i] = F0[i]
        OBVIOUS
      <4> QED
        BY <2>2, <4>1, ReadSame
    <3>2. Piped(F, 0, 0, pp)
      BY <2>2 DEF Piped
    <3> QED
      BY <2>10, <2>11, <2>12, <3>1, <3>2 DEF Written, Settled
  <2>14. Ahead(F, n, 0, s2, rd, now)
    <3>1. n > 0 /\ (rd.kind = "command" => n = 1)
      BY <2>7, <2>10
    <3>2. \A i \in 1..Len(s2.todo) : s2.todo[i] = F[Base(0, s2) + i]
      BY <1>2, <2>8, <2>10 DEF Added
    <3>3. ~Open(F, Due(0, s2))
      BY <2>10, <2>11 DEF Settled
    <3>4. rd.kind = "watch" => Later(F, n, 0, s2, now)
      BY <1>2, <2>10, <2>11 DEF Later, Settled
    <3> QED
      BY <1>2, <2>9, <2>10, <3>1, <3>2, <3>3, <3>4 DEF Ahead, Receives
  <2> QED
    BY <2>10, <2>13, <2>14 DEF Follows
<1> QED
  BY <1>4, <1>6 DEF OneStream

LEMMA StreamHandle ==
    ASSUME StreamInv, E!Handle
    PROVE  StreamInv'
<1> DEFINE c == Head(queue)
<1>1. /\ c \in Clients /\ queue' \in Seq(Clients) /\ world \in Nat
      /\ world' = world /\ pipe' = pipe /\ client' = client
  BY DEF E!Handle, StreamInv
<1> HIDE DEF c
<1>2. OneStream(server[c], client[c], pipe[c], world) /\ server[c] \in StreamServers
  BY <1>1, KeptHere
<1>3. CASE client[c].kind = "command"
  <2> DEFINE sv == [server[c] EXCEPT !.at = "answered"]
  <2>1. /\ cached' = cached
        /\ server' = IF server[c].at = "asked" THEN [server EXCEPT ![c] = sv] ELSE server
    BY <1>3 DEF E!Handle, c
  <2>2. /\ client' = [client EXCEPT ![c] = client'[c]] /\ pipe' = [pipe EXCEPT ![c] = pipe'[c]]
        /\ client'[c] = client[c] /\ pipe'[c] = pipe[c]
    BY <1>1, KeptHere
  <2>3. ~Receives(sv, client[c]) /\ ~Receives(server[c], client[c])
    BY <1>3 DEF Receives
  <2>4. CASE server[c].at = "asked"
    <3>1. server[c].todo = <<>> /\ <<>> \in Tales
      BY <1>2, <2>4 DEF OneStream, Kept, Tales
    <3>2. sv = [server[c] EXCEPT !.at = "answered", !.todo = <<>>]
      BY <1>2, <3>1 DEF StreamServers
    <3>3. OneStream(sv, client[c], pipe[c], world)
      BY <1>1, <1>2, <1>3, <2>4, <3>1, <3>2, Answered
    <3> HIDE DEF sv
    <3>4. server' = [server EXCEPT ![c] = sv] /\ server'[c] = sv
      BY <1>1, <2>1, <2>4, KeptHere
    <3>5. server' = [server EXCEPT ![c] = server'[c]]
      BY <3>4
    <3>6. OneStream(server'[c], client'[c], pipe'[c], world)
      BY <2>2, <3>3, <3>4
    <3> QED
      BY <1>1, <2>1, <2>2, <2>3, <3>4, <3>5, <3>6, OneClient
  <2>5. CASE server[c].at # "asked"
    <3>1. server' = [server EXCEPT ![c] = server'[c]] /\ server'[c] = server[c]
      BY <1>1, <2>1, <2>5, KeptHere
    <3>2. OneStream(server'[c], client'[c], pipe'[c], world)
      BY <1>2, <2>2, <3>1
    <3> QED
      BY <1>1, <2>1, <2>2, <2>3, <3>1, <3>2, OneClient
  <2> QED
    BY <2>4, <2>5
<1>4. CASE client[c].kind # "command"
  <2>1. cached' = E!Fresh(cached, world)
    BY <1>4 DEF E!Handle, c
  <2>2. PICK s \in Snapshot(world) : cached' = {s}
    BY <1>1, <2>1, CachedIs
  <2> DEFINE q == E!Frames(s)
             sv == [server[c] EXCEPT !.at = "answered", !.todo = q]
  <2>3. server' = IF server[c].at = "asked"
                  THEN [server EXCEPT ![c].at = "answered", ![c].todo = q] ELSE server
    <3>1. (CHOOSE x \in cached' : TRUE) = s
      BY <2>2
    <3> QED
      BY <1>4, <3>1, NothingNew DEF E!Handle, c
  <2>4. CASE server[c].at = "asked"
    <3>1. server' = [server EXCEPT ![c] = sv]
      BY <2>3, <2>4
    <3>2. q \in Tales
      BY <1>1, FramesAre DEF Tales
    <3>3. OneStream(sv, client[c], pipe[c], world)
      <4>1. \E x \in Snapshot(world) : q = E!Frames(x)
        OBVIOUS
      <4> HIDE DEF q
      <4> QED
        BY <1>1, <1>2, <1>4, <2>4, <3>2, <4>1, Answered
    <3> HIDE DEF sv
    <3>4. ASSUME NEW d \in Clients
          PROVE  OneStream(server'[d], client'[d], pipe'[d], world')
      <4>1. CASE d = c
        BY <1>1, <3>1, <3>3, <4>1 DEF StreamInv
      <4>2. CASE d # c
        BY <1>1, <3>1, <4>2 DEF StreamInv
      <4> QED
        BY <4>1, <4>2
    <3>5. server' \in [Clients -> StreamServers]
      BY <1>1, <3>1, <3>3 DEF StreamInv, OneStream, Kept
    <3>6. cached' = {} \/ \E v \in 0..world' : \E x \in Snapshot(v) : cached' = {x}
      <4>1. world \in 0..world'
        BY <1>1
      <4> QED
        BY <2>2, <4>1
    <3> QED
      BY <1>1, <2>2, <3>4, <3>5, <3>6 DEF StreamInv
  <2>5. CASE server[c].at # "asked"
    <3>1. server' = server
      BY <2>3, <2>5
    <3>2. cached' = {} \/ \E v \in 0..world' : \E x \in Snapshot(v) : cached' = {x}
      <4>1. world \in 0..world'
        BY <1>1
      <4> QED
        BY <2>2, <4>1
    <3> QED
      BY <1>1, <2>2, <3>1, <3>2 DEF StreamInv
  <2> QED
    BY <2>4, <2>5
<1> QED
  BY <1>3, <1>4

LEMMA StreamInit == EdgesInit => StreamInv
<1> SUFFICES ASSUME EdgesInit PROVE StreamInv
  OBVIOUS
<1>1. /\ world = 0 /\ cached = {} /\ queue = <<>> /\ server = [c \in Clients |-> E!Unborn]
      /\ pipe = [c \in Clients |-> <<>>] /\ client = [c \in Clients |-> E!Nobody]
  BY DEF EdgesInit, E!Init
<1> DEFINE sv == E!Unborn
           rd == E!Nobody
<1>2. /\ sv \in StreamServers /\ sv.at = "none" /\ sv.unread = <<>> /\ ~sv.missed
      /\ sv.todo = <<>> /\ ~sv.inside
  <2>1. <<>> \in Tales
    BY DEF Tales
  <2> QED
    BY <2>1 DEF E!Unborn, StreamServers
<1>3. rd \in Readers /\ rd.kind = "none" /\ rd.at = "idle" /\ rd.rev = {} /\ rd.whole = {}
  <2>1. {} \in Revs /\ <<>> \in Gots /\ {} \in Wholes
    BY DEF Revs, Gots, Wholes
  <2> QED
    BY <2>1 DEF E!Nobody, Readers
<1> HIDE DEF sv, rd
<1>4. Capacity \in Nat
  BY EdgesAssumption DEF E!EventStreamAssumption
<1>5. Len(sv.unread) = 0 /\ <<>> \in Tales
  BY <1>2 DEF Tales
<1>6. ~Receives(sv, rd)
  BY <1>2 DEF Receives
<1>7. Kept(sv, rd, <<>>, 0)
  BY <1>2, <1>3, <1>4, <1>5, <1>6 DEF Kept, Doubles
<1>8. OneStream(sv, rd, <<>>, 0)
  BY <1>3, <1>7 DEF OneStream
<1>9. \A c \in Clients : server[c] = sv /\ client[c] = rd /\ pipe[c] = <<>>
  BY <1>1 DEF sv, rd
<1>10. /\ server \in [Clients -> StreamServers] /\ client \in [Clients -> Readers]
       /\ pipe \in [Clients -> Tales] /\ queue \in Seq(Clients) /\ world \in Nat
  BY <1>1, <1>2, <1>3, <1>5 DEF sv, rd
<1> QED
  BY <1>1, <1>6, <1>8, <1>9, <1>10 DEF StreamInv

LEMMA StreamStutter ==
    ASSUME StreamInv, UNCHANGED streamVars
    PROVE  StreamInv'
<1>1. UNCHANGED <<world, cached, queue, server, pipe, client>>
  BY DEF streamVars
<1> QED
  BY <1>1 DEF StreamInv

LEMMA StreamStep ==
    ASSUME StreamInv, E!Next
    PROVE  StreamInv'
<1>1. ASSUME NEW c \in Clients, E!Serve(c)  PROVE  StreamInv'
  BY <1>1, StreamAcknowledge, StreamStartup, StreamStream, StreamGivesUp DEF E!Serve
<1>2. ASSUME NEW c \in Clients, NEW kind \in {"watch", "query", "command"}, E!Connect(c, kind)
      PROVE  StreamInv'
  BY <1>2, StreamConnect
<1>3. ASSUME NEW c \in Clients,
             \/ E!Accept(c) \/ E!Ask(c) \/ E!AnswerTimeout(c) \/ E!Heartbeat(c)
             \/ E!Read(c) \/ E!EndOfFile(c) \/ E!Leave(c)
      PROVE  StreamInv'
  BY <1>3, StreamAccept, StreamAsk, StreamAnswerTimeout, StreamHeartbeat, StreamRead, StreamClientEnds
<1> QED
  BY <1>1, <1>2, <1>3, StreamChange, StreamHandle DEF E!Next

LEMMA StreamKept == StreamInv /\ [EdgesNext]_edgeVars => StreamInv'
<1> SUFFICES ASSUME StreamInv, [EdgesNext]_edgeVars PROVE StreamInv'
  OBVIOUS
<1>1. E!Next \/ UNCHANGED streamVars
  BY DEF EdgesNext, edgeVars
<1> QED
  BY <1>1, StreamStep, StreamStutter

\* A subscriber that is told of everything it is owed has read the whole tape.
LEMMA StreamIsSound == StreamInv => E!StreamSound
<1> SUFFICES ASSUME StreamInv PROVE E!StreamSound
  OBVIOUS
<1>1. ASSUME NEW c \in Clients
      PROVE  /\ client[c].at # "confused"
             /\ \A got \in client[c].whole : Len(got) = 2 /\ got[1] = got[2] /\ got[1] \in 0..world
  <2>1. client[c].at # "confused" /\ Doubles(client[c], world)
    BY KeptHere DEF OneStream, Kept
  <2> QED
    BY <2>1 DEF Doubles
<1>2. ASSUME NEW c \in Clients, client[c].kind = "watch", client[c].at = "acked",
             server[c].at = "stream", server[c].unread = <<>>, pipe[c] = <<>>
      PROVE  <<world, world>> \in client[c].whole
  <2>1. Kept(server[c], client[c], pipe[c], world) /\ world \in Nat
    BY KeptHere DEF OneStream
  <2>2. PICK F \in Tapes, n \in Nat, r \in Nat, w \in Nat :
               Follows(F, n, r, w, server[c], client[c], pipe[c], world)
    BY <1>2, KeptHere DEF OneStream
  <2>3. ~server[c].missed
    BY <1>2, <2>1 DEF Kept
  <2>4. Receives(server[c], client[c])
    BY <1>2 DEF Receives
  <2>5. server[c].todo = <<>> /\ Later(F, n, w, server[c], world)
    BY <1>2, <2>2, <2>4 DEF Follows, Ahead
  <2>6. Len(server[c].todo) = 0 /\ Len(server[c].unread) = 0 /\ Len(pipe[c]) = 0
    BY <1>2, <2>5
  <2>7. n = w /\ Newest(F, n, w, world)
    BY <1>2, <2>3, <2>5, <2>6 DEF Later, Due, Base
  <2>8. r = w /\ ReadUpTo(F, r, client[c])
    BY <2>2, <2>6 DEF Follows, Written, Piped
  <2>9. PICK b \in 1..n : /\ F[b].f = "begin" /\ b + 3 <= n /\ F[b + 1].val = world
                          /\ \A i \in (b + 1)..n : F[i].f # "begin"
    BY <2>7 DEF Newest
  <2>10. client[c].whole = {<<F[b + 1].val, F[b + 1].val>>}
    BY <2>7, <2>8, <2>9 DEF ReadUpTo
  <2> QED
    BY <2>9, <2>10
<1> QED
  BY <1>1, <1>2 DEF E!StreamSound, E!SnapshotsWhole, E!SubscribersCurrent

\* Every snapshot that a client of the pipe server has put together is one
\* state the daemon had, no stream of frames confuses its reader, and a
\* subscriber that has read all there is, and was not told of a loss, holds the
\* state of the moment: event_frames, the broadcast channel's lag and the
\* client's reader, for any number of clients, any capacity and any states that
\* cannot be framed.
THEOREM StreamSoundHolds == EdgesSpec => []StreamSound
<1>1. EdgesInit => StreamInv
  BY StreamInit
<1>2. StreamInv /\ [EdgesNext]_edgeVars => StreamInv'
  BY StreamKept
<1>3. StreamInv => StreamSound
  BY StreamIsSound DEF StreamSound
<1> QED
  BY <1>1, <1>2, <1>3, PTL DEF EdgesSpec
=============================================================================
