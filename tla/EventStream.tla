----------------------------- MODULE EventStream -----------------------------
(***************************************************************************)
(* The event stream of one conversation and who reads it: what             *)
(* ConnectionState.send writes to a socket and mirrors to Redis, what a    *)
(* reconnecting client gets back through `resume`                          *)
(* (alfred/api/websocket/connection.py, alfred/state/store.py).            *)
(*                                                                         *)
(* An event is the number of its msg_id.  A send is two steps: the frame   *)
(* goes out, then XADD is awaited; the receive loop and the pipeline task  *)
(* of a session send concurrently.  The client is one browser tab: it      *)
(* leaves a socket before it opens the next, and a resume is the first     *)
(* thing it sends.                                                         *)
(***************************************************************************)
EXTENDS Naturals, FiniteSetsExt, SequencesExt

CONSTANTS MaxSessions,  \* bound: sockets the client opens
          MaxEvents,    \* bound: messages sent, sentinels included
          MaxLen,       \* stream_maxlen
          MaxFaults     \* bound: Redis calls that fail

ASSUME StreamAssumption ==
    /\ MaxSessions \in Nat /\ MaxEvents \in Nat /\ MaxFaults \in Nat
    /\ MaxLen \in Nat \ {0}

VARIABLES sock,      \* each socket: none, live, gone (the client left), closed
          serving,   \* sessions whose receive loop runs
          listed,    \* the session in _connections, 0 for none
          door,      \* the takeover: shut, sentinel (awaited), landed
          old,       \* its old_conn, 0 for None
          stranded,  \* history: sessions whose successor did not find them
          running,   \* sessions with an active pipeline
          resumed,   \* sessions whose resume message has been handled
          at,        \* each sender: idle, storing, cancelled, reading, replaying
          ev,        \* the event a sender is storing, the anchor of a replay
          rest,      \* what a replay has left to send
          origin,    \* the session of each event made, 0 for a sentinel
          stream,    \* the Redis stream, the events of its entries
          wire,      \* frames under way to the client's current socket
          seen, first, last,    \* events the client got, the first, the latest
          excused,   \* history: events that a replay could not know of
          faults

server == <<serving, listed, door, old, stranded, running>>
sends  == <<at, ev, rest>>
client == <<seen, first, last>>
vars == <<sock, server, resumed, sends, origin, stream, wire, client,
          excused, faults>>

Sessions == 1..MaxSessions
Events   == 1..MaxEvents
Senders  == {"loop", "run"}
made     == Len(origin)
Current  == IF \E s \in Sessions : sock[s] # "none"
            THEN CHOOSE s \in Sessions : /\ sock[s] # "none"
                                         /\ \A t \in Sessions : t > s => sock[t] = "none"
            ELSE 0

Init ==
    /\ sock = [s \in Sessions |-> "none"]
    /\ serving = {} /\ listed = 0 /\ door = "shut" /\ old = 0 /\ stranded = {}
    /\ running = {} /\ resumed = {}
    /\ at = [s \in Sessions |-> [w \in Senders |-> "idle"]]
    /\ ev = [s \in Sessions |-> [w \in Senders |-> 0]]
    /\ rest = [s \in Sessions |-> <<>>]
    /\ origin = <<>>
    /\ stream = <<>>
    /\ wire = <<>>
    /\ seen = {} /\ first = 0 /\ last = 0
    /\ excused = {}
    /\ faults = 0

-----------------------------------------------------------------------------
(* The stream: push_event and get_events *)

\* XADD with maxlen: Redis trims whole nodes, so it may keep more than asked.
Push(e) ==
    LET full == Append(stream, e)
    IN  \E k \in 0..Max({0, Len(full) - MaxLen}) :
            stream' = SubSeq(full, k + 1, Len(full))

\* Events on their way into the stream.
InFlight ==
    { ev[x[1]][x[2]] : x \in { y \in Sessions \X Senders :
                                 at[y[1]][y[2]] \in {"storing", "cancelled"} } }

\* The events whose order in the stream a push of e leaves to chance.
Overlapping(e) == IF InFlight \subseteq {e} THEN {} ELSE InFlight \cup {e}

\* One entry too many is passed over.
EventsAfterNext(anchor) ==
    LET hits == { i \in DOMAIN stream : stream[i] = anchor }
    IN  IF hits = {} THEN stream ELSE SubSeq(stream, Min(hits) + 2, Len(stream))

\* The first entry after the event named, the whole window when there is none.
EventsAfter(anchor) ==
    LET hits == { i \in DOMAIN stream : stream[i] = anchor }
    IN  IF hits = {} THEN stream ELSE SubSeq(stream, Min(hits) + 1, Len(stream))

-----------------------------------------------------------------------------
(* ConnectionState.send *)

\* The frame goes to the transport; a client that has left never gets it.
Deliver(s, e) ==
    wire' = IF s = Current /\ sock[s] = "live" THEN Append(wire, e) ELSE wire

\* Who may send: the task while it runs, the loop to acknowledge a late answer.
MaySend(s, w) ==
    /\ at[s][w] = "idle"
    /\ s \in resumed
    /\ CASE w = "run" -> s \in running [] w = "loop" -> s \in serving

Write(s, w) ==
    /\ MaySend(s, w)
    /\ sock[s] \in {"live", "gone"}
    /\ made < MaxEvents
    /\ origin' = Append(origin, s)
    /\ Deliver(s, made + 1)
    /\ at' = [at EXCEPT ![s][w] = "storing"]
    /\ ev' = [ev EXCEPT ![s][w] = made + 1]
    /\ UNCHANGED <<sock, server, resumed, rest, stream, client, excused, faults>>

\* send_json raises on a socket known to be dead: nothing is stored and the
\* pipeline ends.
WriteFails(s) ==
    /\ MaySend(s, "run")
    /\ sock[s] \in {"gone", "closed"}
    /\ running' = running \ {s}
    /\ UNCHANGED <<sock, serving, listed, door, old, stranded, resumed, sends, origin, stream, wire, client,
                   excused, faults>>

\* The awaited push_event; its failure is swallowed.
Store(s, w) ==
    /\ at[s][w] \in {"storing", "cancelled"}
    /\ \/ /\ Push(ev[s][w])
          /\ excused' = excused \cup Overlapping(ev[s][w])
          /\ UNCHANGED faults
       \/ /\ faults < MaxFaults
          /\ faults' = faults + 1
          /\ UNCHANGED <<stream, excused>>
    /\ at' = [at EXCEPT ![s][w] = "idle"]
    /\ ev' = [ev EXCEPT ![s][w] = 0]
    /\ UNCHANGED <<sock, server, resumed, rest, origin, wire, client>>

\* A task cancelled inside push_event: the command may still reach Redis.
CancelledBeforeRedis(s, w) ==
    /\ at[s][w] = "cancelled"
    /\ at' = [at EXCEPT ![s][w] = "idle"]
    /\ ev' = [ev EXCEPT ![s][w] = 0]
    /\ UNCHANGED <<sock, server, resumed, rest, origin, stream, wire, client,
                   excused, faults>>

-----------------------------------------------------------------------------
(* The session: connect, evict the prior one, prompt, disconnect *)

CancelRun(s) ==
    /\ running' = running \ {s}
    /\ at' = IF s \in running /\ at[s]["run"] = "storing"
             THEN [at EXCEPT ![s]["run"] = "cancelled"] ELSE at

\* The prior entry is popped at once; one takeover at a time.
Connect(s) ==
    /\ s = Current + 1
    /\ door = "shut"
    /\ Current # 0 => sock[Current] # "live"
    /\ sock' = [sock EXCEPT ![s] = "live"]
    /\ wire' = <<>>
    /\ old' = listed
    /\ IF listed # 0
       THEN door' = "sentinel" /\ listed' = 0 /\ UNCHANGED <<serving, stranded>>
       ELSE /\ listed' = s
            /\ serving' = serving \cup {s}
            /\ stranded' = stranded \cup serving
            /\ UNCHANGED door
    /\ UNCHANGED <<running, resumed, sends, origin, stream, client, excused,
                   faults>>

\* run_evicted goes to the stream only, best effort, before the cancel.
PushSentinel ==
    /\ door = "sentinel"
    /\ door' = "landed"
    /\ \/ /\ made < MaxEvents
          /\ origin' = Append(origin, 0)
          /\ Push(made + 1)
          /\ excused' = excused \cup Overlapping(made + 1)
          /\ UNCHANGED faults
       \/ /\ faults < MaxFaults
          /\ faults' = faults + 1
          /\ UNCHANGED <<origin, stream, excused>>
    /\ UNCHANGED <<sock, serving, listed, old, stranded, running, resumed, sends, wire, client>>

\* Back from the sentinel: cancel the prior run, close its socket, install.
Evict ==
    /\ door = "landed"
    /\ door' = "shut"
    /\ sock' = [sock EXCEPT ![old] = "closed"]
    /\ CancelRun(old)
    /\ old' = 0
    /\ listed' = Current
    /\ serving' = serving \cup {Current}
    /\ UNCHANGED <<stranded, resumed, ev, rest, origin, stream, wire, client, excused,
                   faults>>

Prompt(s) ==
    /\ s \in serving \cap resumed
    /\ sock[s] = "live"
    /\ at[s]["loop"] = "idle"
    /\ s \notin running
    /\ at[s]["run"] = "idle"
    /\ running' = running \cup {s}
    /\ UNCHANGED <<sock, serving, listed, door, old, stranded, resumed, sends, origin, stream, wire, client,
                   excused, faults>>

RunEnds(s) ==
    /\ s \in running
    /\ at[s]["run"] = "idle"
    /\ running' = running \ {s}
    /\ UNCHANGED <<sock, serving, listed, door, old, stranded, resumed, sends, origin, stream, wire, client,
                   excused, faults>>

Leave(s) ==
    /\ sock[s] = "live"
    /\ sock' = [sock EXCEPT ![s] = "gone"]
    /\ wire' = <<>>
    /\ UNCHANGED <<server, resumed, sends, origin, stream, client, excused, faults>>

\* The loop's finally: the entry goes, whosever it is, and the run with it.
Cleanup(s) ==
    /\ s \in serving
    /\ sock[s] \in {"gone", "closed"}
    /\ at[s]["loop"] = "idle"
    /\ serving' = serving \ {s}
    /\ listed' = 0
    /\ sock' = [sock EXCEPT ![s] = "closed"]
    /\ CancelRun(s)
    /\ resumed' = resumed \ {s}
    /\ UNCHANGED <<door, old, stranded, ev, rest, origin, stream, wire, client, excused,
                   faults>>

-----------------------------------------------------------------------------
(* The resume handler *)

\* No anchor: nothing is replayed.
Resume(s) ==
    /\ s \in serving \ resumed
    /\ sock[s] = "live"
    /\ at[s]["loop"] = "idle"
    /\ resumed' = resumed \cup {s}
    /\ IF last = 0
       THEN UNCHANGED <<at, ev>>
       ELSE /\ at' = [at EXCEPT ![s]["loop"] = "reading"]
            /\ ev' = [ev EXCEPT ![s]["loop"] = last]
    /\ UNCHANGED <<sock, server, rest, origin, stream, wire, client, excused, faults>>

\* An empty replay is begun as well.
ReadStreamAnyway(s) ==
    /\ at[s]["loop"] = "reading"
    /\ rest' = [rest EXCEPT ![s] = EventsAfter(ev[s]["loop"])]
    /\ at' = [at EXCEPT ![s]["loop"] = "replaying"]
    /\ ev' = [ev EXCEPT ![s]["loop"] = 0]
    /\ UNCHANGED <<sock, server, resumed, origin, stream, wire, client, excused, faults>>

\* get_events: a failure ends the resume without a word to the client.
ReadStream(s) ==
    /\ at[s]["loop"] = "reading"
    /\ \/ LET found == EventsAfter(ev[s]["loop"])
          IN  /\ rest' = [rest EXCEPT ![s] = found]
              /\ at' = [at EXCEPT ![s]["loop"] = IF found = <<>> THEN "idle" ELSE "replaying"]
              /\ excused' = excused \cup InFlight
              /\ UNCHANGED faults
       \/ /\ faults < MaxFaults
          /\ faults' = faults + 1
          /\ at' = [at EXCEPT ![s]["loop"] = "idle"]
          /\ excused' = excused \cup InFlight \cup Range(EventsAfter(ev[s]["loop"]))
          /\ UNCHANGED rest
    /\ ev' = [ev EXCEPT ![s]["loop"] = 0]
    /\ UNCHANGED <<sock, server, resumed, origin, stream, wire, client>>

\* The replay goes through conn.send, which stores what it sends.
ReplayNextStored(s) ==
    /\ at[s]["loop"] = "replaying"
    /\ Deliver(s, Head(rest[s]))
    /\ Push(Head(rest[s]))
    /\ rest' = [rest EXCEPT ![s] = Tail(@)]
    /\ at' = [at EXCEPT ![s]["loop"] = IF rest'[s] = <<>> THEN "idle" ELSE "replaying"]
    /\ UNCHANGED <<sock, server, resumed, ev, origin, client, excused, faults>>

\* One entry over the raw socket; a send that fails ends the replay.
ReplayNext(s) ==
    /\ at[s]["loop"] = "replaying"
    /\ \/ /\ sock[s] # "closed"
          /\ Deliver(s, Head(rest[s]))
          /\ rest' = [rest EXCEPT ![s] = Tail(@)]
       \/ /\ sock[s] # "live"
          /\ rest' = [rest EXCEPT ![s] = <<>>]
          /\ UNCHANGED wire
    /\ at' = [at EXCEPT ![s]["loop"] = IF rest'[s] = <<>> THEN "idle" ELSE "replaying"]
    /\ UNCHANGED <<sock, server, resumed, ev, origin, stream, client, excused, faults>>

-----------------------------------------------------------------------------
(* The clients *)

Receive ==
    /\ wire # <<>>
    /\ wire' = Tail(wire)
    /\ seen' = seen \cup {Head(wire)}
    /\ last' = Head(wire)
    /\ first' = IF first = 0 THEN Head(wire) ELSE first
    /\ UNCHANGED <<sock, server, resumed, sends, origin, stream, excused, faults>>

Next ==
    \/ \E s \in Sessions :
         \/ Connect(s) \/ Prompt(s) \/ RunEnds(s) \/ Leave(s) \/ Cleanup(s)
         \/ Resume(s) \/ ReadStream(s) \/ ReplayNext(s) \/ WriteFails(s)
         \/ \E w \in Senders : Write(s, w) \/ Store(s, w) \/ CancelledBeforeRedis(s, w)
    \/ PushSentinel \/ Evict \/ Receive

Spec == Init /\ [][Next]_vars

-----------------------------------------------------------------------------
(* Properties *)

\* Types of the variables; the places a sender can be in (ConnectionState.send,
\* the resume branch) and what it holds there.
TypeOK ==
    /\ sock \in [Sessions -> {"none", "live", "gone", "closed"}]
    /\ serving \subseteq Sessions /\ running \subseteq Sessions
    /\ resumed \subseteq Sessions /\ stranded \subseteq Sessions
    /\ listed \in 0..MaxSessions /\ old \in 0..MaxSessions
    /\ door \in {"shut", "sentinel", "landed"}
    /\ at \in [Sessions -> [Senders -> {"idle", "storing", "cancelled", "reading", "replaying"}]]
    /\ ev \in [Sessions -> [Senders -> 0..MaxEvents]]
    /\ rest \in [Sessions -> Seq(Events)]
    /\ \A s \in Sessions : /\ at[s]["run"] \notin {"reading", "replaying"}
                           /\ at[s]["loop"] = "replaying" <=> rest[s] # <<>>
    /\ origin \in Seq(0..MaxSessions) /\ Len(origin) <= MaxEvents
    /\ stream \in Seq(Events)
    /\ wire \in Seq(Events)
    /\ seen \subseteq Events /\ excused \subseteq Events
    /\ first \in 0..MaxEvents /\ last \in 0..MaxEvents
    /\ faults \in 0..MaxFaults

\* Whatever the stream holds before the event a client would resume from, the
\* client has got since its first event: the resume branch may start after it.
\* Excused are messages stored while another was on its way into Redis, those on
\* their way when the stream was read, and what a failed read passed over; a
\* stranded session is the wrong pop of connection.py 822.
AnchorIsSafe ==
    \A i, j \in DOMAIN stream :
        (i < j /\ stream[j] = last /\ stream[i] > first)
            => \/ stream[i] \in seen \cup excused
               \/ origin[stream[i]] \in stranded

\* The stream is a log: a message is in it once (a replay does not push), and
\* after a message of a session comes none of an earlier one, but for one that
\* was under way (the takeover cancels the run and closes its socket).
StreamIsALog ==
    \A i, j \in DOMAIN stream : i < j =>
        /\ stream[i] # stream[j]
        /\ LET s == origin[stream[i]]
               t == origin[stream[j]]
           IN  (t \notin stranded \cup {0} /\ t < s) => stream[j] \in excused
=============================================================================
