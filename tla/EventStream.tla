----------------------------- MODULE EventStream -----------------------------
(***************************************************************************)
(* The pipe server and its streams: commands that get one answer, queries  *)
(* of the workspace state, and subscribers that are told of every change.  *)
(* A snapshot of the workspace state is several frames; what the property  *)
(* asks is that a client can trust the snapshots it puts together.         *)
(*                                                                         *)
(* Revisions wrap at MaxRev, as u64 does; a snapshot that cannot be framed *)
(* stands for a record too long for a message.  Left out: the text of a    *)
(* command, and malformed or oversized requests, which are refused before  *)
(* anything is asked of the daemon.                                        *)
(***************************************************************************)
EXTENDS Naturals, FiniteSets, Sequences, SequencesExt

CONSTANTS
    Clients,
    MaxPermits,     \* Semaphore::new(32)
    Capacity,       \* frames a receiver may be behind: channel(256)
    PipeDepth,      \* frames the pipe holds for a client that does not read
    MaxRev,         \* u64::MAX
    TooLong,        \* states of the workspaces that cannot be framed
    MaxChanges

\* What the parameters have to be; assumed where the module is instantiated.
EventStreamAssumption ==
    /\ {MaxPermits, Capacity, PipeDepth, MaxRev, MaxChanges} \subseteq Nat \ {0}
    /\ TooLong \subseteq Nat

VARIABLES
    world,      \* what project_workspace_state would return
    cached,     \* WorkspaceIpcState.snapshot, a set of at most one
    queue,      \* requests on their way to the daemon's loop
    server,     \* handle_client of each client
    pipe,       \* frames written and not yet read
    client,     \* the command line at the other end
    permits

streamVars == <<world, cached, queue, server, pipe, client, permits>>

(***************************************************************************)
(* Frames.                                                                 *)
(***************************************************************************)
Frame(f, rev, val) == [f |-> f, rev |-> rev, val |-> val]
\* WorkspaceStateSnapshot::events; two chunks stand for any number.
Frames(s) ==
    IF s.val \in TooLong THEN <<Frame("error", 0, 0)>>
    ELSE <<Frame("begin", s.rev, 0), Frame("chunk", s.rev, s.val),
           Frame("chunk", s.rev, s.val), Frame("end", s.rev, 0)>>

Unborn == [at |-> "none", unread |-> <<>>, missed |-> FALSE, todo |-> <<>>, inside |-> FALSE]
\* A command's answer comes without a receiver of the broadcasts.
Receiving(c) == client[c].kind # "command" /\ server[c].at \in {"answered", "startup", "stream"}
Receivers == {c \in Clients : Receiving(c)}

\* publish_workspace_state_if_changed: the snapshot kept, and the frames sent.
NextRev(r) == IF r < MaxRev THEN r + 1 ELSE 0
Fresh(kept, now) ==
    IF \E s \in kept : s.val = now THEN kept
    ELSE {[rev |-> IF kept = {} THEN 0 ELSE NextRev((CHOOSE s \in kept : TRUE).rev), val |-> now]}
Published(kept, now) ==
    IF Receivers = {} \/ kept = Fresh(kept, now) THEN <<>>
    ELSE Frames(CHOOSE s \in Fresh(kept, now) : TRUE)

(***************************************************************************)
(* The daemon's loop.                                                      *)
(***************************************************************************)
\* Broadcasting: a receiver keeps the last Capacity events it has not taken,
\* and knows when one was dropped.
Offered(sv, frames) ==
    [c \in Clients |->
        IF ~Receiving(c) THEN sv[c]
        ELSE LET unread == sv[c].unread \o frames
                 over == IF Len(unread) > Capacity THEN Len(unread) - Capacity ELSE 0
             IN  [sv[c] EXCEPT !.unread = SubSeq(unread, over + 1, Len(unread)), !.missed = @ \/ over > 0]]

\* Any event may change the workspaces, and tell of it in the older way;
\* finish_daemon_event then publishes, if anybody listens.
Change ==
    /\ world < MaxChanges
    /\ world' = world + 1
    /\ \E older \in {<<>>, <<Frame("event", 0, 0)>>} :
         server' = Offered(server, older \o Published(cached, world + 1))
    /\ cached' = IF Receivers = {} THEN cached ELSE Fresh(cached, world + 1)
    /\ UNCHANGED <<queue, pipe, client, permits>>

\* handle_ipc_subscribe under one lock: publish, subscribe, take the frames.
\* Nobody may be waiting for the answer any more.
Handle ==
    /\ queue # <<>> /\ queue' = Tail(queue)
    /\ LET c == Head(queue)
           waits == server[c].at = "asked"
       IN  IF client[c].kind = "command"
           THEN /\ server' = IF waits THEN [server EXCEPT ![c].at = "answered"] ELSE server
                /\ UNCHANGED cached
           ELSE LET told == Offered(server, Published(cached, world))
                IN  /\ cached' = Fresh(cached, world)
                    /\ server' = IF waits
                                 THEN [told EXCEPT ![c].at = "answered",
                                                   ![c].todo = Frames(CHOOSE s \in cached' : TRUE)]
                                 ELSE told
    /\ UNCHANGED <<world, pipe, client, permits>>

(***************************************************************************)
(* handle_client.                                                          *)
(***************************************************************************)
Accept(c) ==
    /\ client[c].at = "connecting" /\ permits > 0
    /\ permits' = permits - 1
    /\ server' = [server EXCEPT ![c].at = "reading"]
    /\ client' = [client EXCEPT ![c].at = "acked"]
    /\ UNCHANGED <<world, cached, queue, pipe>>

Ask(c) ==
    /\ server[c].at = "reading" /\ client[c].at # "gone"
    /\ queue' = Append(queue, c)
    /\ server' = [server EXCEPT ![c].at = "asked"]
    /\ UNCHANGED <<world, cached, pipe, client, permits>>

\* The handler ends: a permit it still holds comes back, the pipe closes.
Holds(c) == server[c].at \in {"reading", "asked", "answered"} \/ (server[c].at = "startup" /\ client[c].kind = "query")
Ended(c) == /\ server' = [server EXCEPT ![c] = [Unborn EXCEPT !.at = "closed"]]
            /\ permits' = IF Holds(c) THEN permits + 1 ELSE permits
Writable(c) == Len(pipe[c]) < PipeDepth /\ client[c].at # "gone"
Writes(c, frame) == pipe' = [pipe EXCEPT ![c] = Append(@, frame)]

\* The answer does not come in time: an error, and the end.
AnswerTimeout(c) ==
    /\ server[c].at = "asked" /\ Ended(c)
    /\ IF Writable(c) THEN Writes(c, Frame("refused", 0, 0)) ELSE UNCHANGED pipe
    /\ UNCHANGED <<world, cached, queue, client>>

\* handle_subscribe: a stream gives its permit back before it starts.
\* (Variant: it keeps it.)
StreamsKeepPermit(kind) == FALSE
StreamsReturnPermit(kind) == kind = "watch"
Acknowledge(c) ==
    /\ server[c].at = "answered" /\ Writable(c)
    /\ IF client[c].kind = "command"
       THEN Writes(c, Frame("answer", 0, 0)) /\ Ended(c)
       ELSE /\ Writes(c, Frame("ack", 0, 0))
            /\ server' = [server EXCEPT ![c].at = "startup"]
            /\ permits' = IF StreamsReturnPermit(client[c].kind) THEN permits + 1 ELSE permits
    /\ UNCHANGED <<world, cached, queue, client>>

\* The frozen snapshot; an error frame, or for a query its end, is the last.
WriteStartup(c) ==
    /\ server[c].at = "startup" /\ Writable(c)
    /\ LET frame == Head(server[c].todo)
           rest == Tail(server[c].todo)
       IN  /\ Writes(c, frame)
           /\ IF frame.f = "error" \/ (rest = <<>> /\ client[c].kind = "query") THEN Ended(c)
              ELSE /\ server' = [server EXCEPT ![c].todo = rest, ![c].at = IF rest = <<>> THEN "stream" ELSE @]
                   /\ UNCHANGED permits
    /\ UNCHANGED <<world, cached, queue, client>>

\* One turn of the stream: the next event, or word that some were missed,
\* after which a stream of the workspace state closes.
GoesOn(frame) == frame.f \notin {"lagged", "error"}
Stream(c) ==
    /\ server[c].at = "stream" /\ server[c].unread # <<>> /\ Writable(c)
    /\ LET frame == IF server[c].missed THEN Frame("lagged", 0, 0) ELSE Head(server[c].unread)
       IN  /\ Writes(c, frame)
           /\ IF GoesOn(frame)
              THEN /\ server' = [server EXCEPT ![c].missed = FALSE,
                                               ![c].unread = IF server[c].missed THEN @ ELSE Tail(@),
                                               ![c].inside = frame.f = "begin" \/ (@ /\ frame.f # "end")]
                   /\ UNCHANGED permits
              ELSE Ended(c)
    /\ UNCHANGED <<world, cached, queue, client>>
\* (Variant: the keepalive comes whenever it is due.)
QuietAlways(c) == TRUE
Quiet(c) == ~server[c].inside
Heartbeat(c) ==
    /\ server[c].at = "stream" /\ Quiet(c) /\ pipe[c] = <<>> /\ client[c].at # "gone"
    /\ Writes(c, Frame("heartbeat", 0, 0))
    /\ UNCHANGED <<world, cached, queue, server, client, permits>>

\* A write that a full pipe holds up for too long, or that the client's end
\* refuses; a client that goes before it has asked.
GivesUp(c) ==
    /\ \/ server[c].at \in {"answered", "startup"} /\ ~Writable(c)
       \/ server[c].at = "stream" /\ ~Writable(c) /\ (server[c].unread # <<>> \/ Quiet(c))
       \/ server[c].at = "reading" /\ client[c].at = "gone"
    /\ Ended(c)
    /\ UNCHANGED <<world, cached, queue, pipe, client>>

(***************************************************************************)
(* The client: read_stream_ack, forward_event_frames.                      *)
(***************************************************************************)
Nobody == [kind |-> "none", at |-> "idle", rev |-> {}, got |-> <<>>, whole |-> {}]
Connect(c, kind) ==
    /\ client[c].at = "idle"
    /\ client' = [client EXCEPT ![c] = [Nobody EXCEPT !.kind = kind, !.at = "connecting"]]
    /\ UNCHANGED <<world, cached, queue, server, pipe, permits>>

\* What the reader makes of a frame: how far it is, or that it fails.
Reads(r, frame) ==
    CASE frame.f = "begin" /\ r.rev = {} -> [r EXCEPT !.rev = {frame.rev}, !.got = <<>>]
      [] frame.f = "chunk" /\ r.rev = {frame.rev} -> [r EXCEPT !.got = Append(@, frame.val)]
      [] frame.f = "end" /\ r.rev = {frame.rev} ->
           [r EXCEPT !.rev = {}, !.whole = {r.got}, !.got = <<>>,
                     !.at = IF r.kind = "query" THEN "done" ELSE @]
      [] frame.f \in {"event", "heartbeat"} /\ r.rev = {} /\ r.kind = "watch" -> r
      [] frame.f = "ack" -> r
      [] frame.f = "answer" -> [r EXCEPT !.at = "done"]
      [] frame.f \in {"lagged", "error", "refused"} -> [Nobody EXCEPT !.kind = r.kind, !.at = "told"]
      [] OTHER -> [r EXCEPT !.at = "confused"]
Read(c) ==
    /\ client[c].at = "acked" /\ pipe[c] # <<>>
    /\ pipe' = [pipe EXCEPT ![c] = Tail(@)]
    /\ client' = [client EXCEPT ![c] = Reads(@, Head(pipe[c]))]
    /\ UNCHANGED <<world, cached, queue, server, permits>>
\* The pipe is closed and empty.
EndOfFile(c) ==
    /\ client[c].at = "acked" /\ server[c].at = "closed" /\ pipe[c] = <<>>
    /\ client' = [client EXCEPT ![c] = [Nobody EXCEPT !.kind = client[c].kind, !.at = "told"]]
    /\ UNCHANGED <<world, cached, queue, server, pipe, permits>>
\* The process ends, by itself or not, and with it its end of the pipe.
Leave(c) ==
    /\ client[c].at \in {"connecting", "acked", "done", "told"}
    /\ client' = [client EXCEPT ![c] = [Nobody EXCEPT !.kind = client[c].kind, !.at = "gone"]]
    /\ pipe' = [pipe EXCEPT ![c] = <<>>]
    /\ UNCHANGED <<world, cached, queue, server, permits>>

Init ==
    /\ world = 0 /\ cached = {} /\ queue = <<>>
    /\ server = [c \in Clients |-> Unborn]
    /\ pipe = [c \in Clients |-> <<>>]
    /\ client = [c \in Clients |-> Nobody]
    /\ permits = MaxPermits

Serve(c) == Acknowledge(c) \/ WriteStartup(c) \/ Stream(c) \/ GivesUp(c)

Next ==
    \/ Change \/ Handle
    \/ \E c \in Clients :
         \/ Accept(c) \/ Ask(c) \/ AnswerTimeout(c) \/ Serve(c) \/ Heartbeat(c)
         \/ \E kind \in {"watch", "query", "command"} : Connect(c, kind)
         \/ Read(c) \/ EndOfFile(c) \/ Leave(c)

\* The daemon's loop and the handlers run; every wait of a handler is bounded.
\* A client may never read.
StreamSpec ==
    /\ Init /\ [][Next]_streamVars
    /\ WF_streamVars(Handle)
    /\ \A c \in Clients : WF_streamVars(Ask(c)) /\ WF_streamVars(Serve(c))

(***************************************************************************)
(* Properties.                                                             *)
(***************************************************************************)
\* Every snapshot a client has put together is one state the daemon had, and
\* no stream of frames ever confuses its reader.
SnapshotsWhole ==
    \A c \in Clients :
        /\ client[c].at # "confused"
        /\ \A got \in client[c].whole : Len(got) = 2 /\ got[1] = got[2] /\ got[1] \in 0..world

\* A subscriber that has read everything, and has not been told otherwise,
\* holds the state of the moment.
SubscribersCurrent ==
    \A c \in Clients :
        /\ client[c].kind = "watch" /\ client[c].at = "acked"
        /\ server[c].at = "stream" /\ server[c].unread = <<>> /\ pipe[c] = <<>>
        => <<world, world>> \in client[c].whole

StreamSound == SnapshotsWhole /\ SubscribersCurrent

\* However long subscribers stay, the server gets back to accepting.
ServerAccepts == []<>(permits > 0)
=============================================================================
