-------------------------- MODULE EventStreamProofs --------------------------
(***************************************************************************)
(* Proofs about EventStream for any number of sockets, messages and        *)
(* failures, and any length of the stream: its types, that the stream is a *)
(* log of one session after the other, and that a resume may start after   *)
(* the event it names.                                                     *)
(***************************************************************************)
EXTENDS EventStream, TLAPS

-----------------------------------------------------------------------------
(* The inductive invariant *)

InTransit(s, w) == at[s][w] \in {"storing", "cancelled"}

\* A session that has been a conversation's, or has left a trace of its own.
Served(s) == \/ s \in serving \cup resumed \cup running
             \/ \E i \in DOMAIN origin : origin[i] = s

\* The client opens its sockets in order, and every session has had one.
Opened ==
    /\ \E c \in 0..MaxSessions : \A s \in Sessions : sock[s] # "none" <=> s <= c
    /\ \A s \in Sessions : Served(s) => sock[s] # "none"
    /\ listed # 0 => sock[listed] # "none"
    /\ door # "shut" => old # 0 /\ sock[old] # "none"

\* An open socket has a loop, or a takeover under way that will give it one.
OpenServed ==
    \A s \in Sessions :
        sock[s] \in {"live", "gone"} =>
            s \in serving \/ (door # "shut" /\ s = Current)

\* What a takeover would find is all there is to find.
Heir ==
    \A s \in serving :
        sock[s] # "closed" =>
            /\ listed # 0 => s \in stranded \cup {listed}
            /\ door # "shut" => s \in stranded \cup {old}

\* Once a session serves, those before it are closed, or stranded.
Retired ==
    \A s, t \in Sessions :
        (Served(s) /\ t < s) => t \in stranded \/ sock[t] = "closed"

\* Messages on their way are made, not stored yet, and each on one way.
Transit ==
    \A s \in Sessions, w \in Senders : InTransit(s, w) =>
        /\ ev[s][w] \in 1..made
        /\ origin[ev[s][w]] = s
        /\ \A i \in DOMAIN stream : stream[i] # ev[s][w]
        /\ \A t \in Sessions, v \in Senders :
             (InTransit(t, v) /\ <<t, v>> # <<s, w>>) => ev[t][v] # ev[s][w]

Stored == \A i \in DOMAIN stream : stream[i] \in 1..made

\* A message overtaken by one of a later session has met it under way.
Straggling ==
    \A s \in Sessions, w \in Senders :
        (InTransit(s, w) /\ s \notin stranded) =>
            \A i \in DOMAIN stream :
                origin[stream[i]] > s => ev[s][w] \in excused

IInv == /\ TypeOK /\ Opened /\ OpenServed /\ Heir /\ Retired
        /\ Transit /\ Stored /\ Straggling /\ StreamIsALog


-----------------------------------------------------------------------------
(* Pushing and reading the stream *)

\* Redis may trim a little late, but never below the length asked for: what is left
\* is the end of the stream, with the new entry last.
LEMMA PushEffect ==
    ASSUME StreamAssumption, stream \in Seq(Nat), NEW e \in Nat, Push(e)
    PROVE  /\ stream' \in Seq(Nat)
           /\ \E k \in 0..Len(stream) :
                /\ Len(stream') = Len(stream) + 1 - k
                /\ \A i \in DOMAIN stream' :
                     \/ i + k \in DOMAIN stream /\ stream'[i] = stream[i + k]
                     \/ i = Len(stream') /\ stream'[i] = e
<1> DEFINE full == Append(stream, e)
           over == Len(full) - MaxLen
<1>1. full \in Seq(Nat) /\ Len(full) = Len(stream) + 1
  OBVIOUS
<1>2. over \in Int /\ over <= Len(stream)
  BY <1>1 DEF StreamAssumption
<1>3. Max({0, over}) \in {0, over}
  <2>1. \E x \in {0, over} : \A y \in {0, over} : x >= y
    BY <1>2
  <2> QED
    BY <2>1 DEF Max
<1>4. PICK k \in 0..Max({0, over}) : stream' = SubSeq(full, k + 1, Len(full))
  BY DEF Push
<1>5. k \in 0..Len(stream)
  BY <1>2, <1>3
<1>6. /\ stream' \in Seq(Nat)
      /\ Len(stream') = Len(stream) + 1 - k
      /\ \A i \in 1..(Len(stream) + 1 - k) : stream'[i] = full[i + k]
  BY <1>1, <1>4, <1>5, SMTT(30)
<1>7. DOMAIN stream' = 1..(Len(stream) + 1 - k)
  BY <1>6
<1>8. \A j \in 1..Len(stream) : full[j] = stream[j]
  OBVIOUS
<1>9. full[Len(stream) + 1] = e
  OBVIOUS
<1> HIDE DEF full, over
<1>10. ASSUME NEW i \in DOMAIN stream'
       PROVE  \/ i + k \in DOMAIN stream /\ stream'[i] = stream[i + k]
              \/ i = Len(stream') /\ stream'[i] = e
  <2>1. i \in 1..(Len(stream) + 1 - k) /\ stream'[i] = full[i + k]
    BY <1>6, <1>7
  <2>2. CASE i + k = Len(stream) + 1
    <3>1. i = Len(stream')
      BY <2>1, <2>2, <1>5, <1>6
    <3>2. stream'[i] = e
      BY <2>1, <2>2, <1>9
    <3> QED
      BY <3>1, <3>2
  <2>3. CASE i + k # Len(stream) + 1
    <3>1. i + k \in 1..Len(stream)
      BY <2>1, <2>3, <1>5
    <3>2. stream'[i] = stream[i + k]
      BY <2>1, <3>1, <1>8
    <3> QED
      BY <3>1, <3>2
  <2> QED
    BY <2>2, <2>3
<1> QED
  BY <1>5, <1>6, <1>10

\* What a resume reads is a stretch of the stream, if no event is in it twice.
LEMMA ReadEffect ==
    ASSUME stream \in Seq(Events), NEW a,
           \A i, j \in DOMAIN stream : i < j => stream[i] # stream[j]
    PROVE  EventsAfter(a) \in Seq(Events)
<1> DEFINE hits == { i \in DOMAIN stream : stream[i] = a }
<1>1. CASE hits = {}
  BY <1>1 DEF EventsAfter
<1>2. CASE hits # {}
  <2>1. PICK h \in hits : TRUE
    BY <1>2
  <2>2. h \in 1..Len(stream) /\ \A i \in hits : i = h
    <3>1. ASSUME NEW i \in hits
          PROVE  i = h
      <4>1. i \in 1..Len(stream) /\ h \in 1..Len(stream) /\ stream[i] = stream[h]
        OBVIOUS
      <4> QED
        BY <4>1
    <3> QED
      BY <3>1
  <2>3. Min(hits) = h
    BY <2>1, <2>2 DEF Min
  <2>4. EventsAfter(a) = SubSeq(stream, h + 1, Len(stream))
    BY <1>2, <2>3 DEF EventsAfter
  <2> QED
    BY <2>2, <2>4
<1> QED
  BY <1>1, <1>2


-----------------------------------------------------------------------------
(* Types *)

\* The current session is the last whose socket was ever opened.
LEMMA CurrentIs ==
    ASSUME StreamAssumption, NEW c \in 0..MaxSessions,
           \A s \in Sessions : sock[s] # "none" <=> s <= c
    PROVE  Current = c
<1>1. CASE c = 0
  BY <1>1 DEF Current, Sessions, StreamAssumption
<1>2. CASE c # 0
  <2>1. c \in Sessions /\ sock[c] # "none"
    BY <1>2 DEF Sessions, StreamAssumption
  <2>2. \A t \in Sessions : t > c => sock[t] = "none"
    BY DEF Sessions, StreamAssumption
  <2>3. \A s \in Sessions :
          (sock[s] # "none" /\ \A t \in Sessions : t > s => sock[t] = "none") => s = c
    BY <2>1 DEF Sessions, StreamAssumption
  <2> QED
    BY <2>1, <2>2, <2>3 DEF Current
<1> QED
  BY <1>1, <1>2

\* TypeOK in four parts.
TypesOfSessions ==
    /\ sock \in [Sessions -> {"none", "live", "gone", "closed"}]
    /\ serving \subseteq Sessions /\ running \subseteq Sessions
    /\ resumed \subseteq Sessions /\ stranded \subseteq Sessions
    /\ listed \in 0..MaxSessions /\ old \in 0..MaxSessions
    /\ door \in {"shut", "sentinel", "landed"}

TypesOfPlaces ==
    /\ at \in [Sessions -> [Senders -> {"idle", "storing", "cancelled", "reading", "replaying"}]]
    /\ \A s \in Sessions : at[s]["run"] \notin {"reading", "replaying"}

TypesOfReplays ==
    /\ rest \in [Sessions -> Seq(Events)]
    /\ \A s \in Sessions : at[s]["loop"] = "replaying" <=> rest[s] # <<>>

TypesOfMessages ==
    /\ ev \in [Sessions -> [Senders -> 0..MaxEvents]]
    /\ origin \in Seq(0..MaxSessions) /\ Len(origin) <= MaxEvents
    /\ stream \in Seq(Events)

TypesOfClient ==
    /\ wire \in Seq(Events)
    /\ seen \subseteq Events /\ excused \subseteq Events
    /\ first \in 0..MaxEvents /\ last \in 0..MaxEvents
    /\ faults \in 0..MaxFaults

\* The types, in the parts that steps disturb.
LEMMA TypesSplit ==
    TypeOK <=> /\ TypesOfSessions /\ TypesOfPlaces /\ TypesOfReplays
               /\ TypesOfMessages /\ TypesOfClient
BY DEF TypeOK, TypesOfSessions, TypesOfPlaces, TypesOfReplays, TypesOfMessages, TypesOfClient

\* What is under way was made.
LEMMA InFlightMade ==
    ASSUME Transit, origin \in Seq(0..MaxSessions), Len(origin) <= MaxEvents, StreamAssumption
    PROVE  InFlight \subseteq Events
<1> SUFFICES ASSUME NEW e \in InFlight
             PROVE  e \in Events
  OBVIOUS
<1>1. PICK s \in Sessions, w \in Senders : InTransit(s, w) /\ e = ev[s][w]
  BY DEF InFlight, InTransit
<1> QED
  BY <1>1 DEF Transit, Events, made, StreamAssumption

\* A sequence is one of whatever its elements are in.
LEMMA ElementsOf ==
    ASSUME NEW S, NEW T, NEW q \in Seq(S), \A i \in DOMAIN q : q[i] \in T
    PROVE  q \in Seq(T)
<1>1. /\ q = [i \in 1..Len(q) |-> q[i]] /\ Len(q) \in Nat
      /\ DOMAIN q = 1..Len(q)
  OBVIOUS
<1> DEFINE n == Len(q)
<1>2. n \in Nat /\ q \in [1..n -> T]
  BY <1>1
<1> QED
  BY <1>2

\* An append and its trimming leave a sequence of events.
LEMMA PushTyped ==
    ASSUME StreamAssumption, stream \in Seq(Events), NEW e \in Events, Push(e)
    PROVE  stream' \in Seq(Events)
<1> USE DEF Events, StreamAssumption
<1>1. stream \in Seq(Nat) /\ e \in Nat
  OBVIOUS
<1>2. PICK k \in 0..Len(stream) :
        \A i \in DOMAIN stream' :
             \/ i + k \in DOMAIN stream /\ stream'[i] = stream[i + k]
             \/ i = Len(stream') /\ stream'[i] = e
  BY <1>1, PushEffect
<1>3. stream' \in Seq(Nat)
  BY <1>1, PushEffect
<1>4. \A i \in DOMAIN stream' : stream'[i] \in Events
  BY <1>2
<1> QED
  BY <1>3, <1>4, ElementsOf

\* Every step keeps the types.
LEMMA TypesStep == IInv /\ [Next]_vars => TypeOK'
<1> DEFINE Typed == /\ TypesOfSessions /\ TypesOfPlaces /\ TypesOfReplays
                    /\ TypesOfMessages /\ TypesOfClient
<1>00. TypeOK' <=> Typed'
  BY TypesSplit, PTL
<1> SUFFICES ASSUME IInv, [Next]_vars
             PROVE  Typed'
  BY <1>00
<1> USE StreamAssumption DEF StreamAssumption, Sessions, Events, Senders
<1>0. Typed
  BY TypesSplit DEF IInv
<1>1. ASSUME NEW s \in Sessions, Connect(s)
      PROVE  Typed'
  <2>1. TypesOfSessions'
    <3>1. sock' \in [Sessions -> {"none", "live", "gone", "closed"}]
      BY <1>0, <1>1 DEF Connect, TypesOfSessions
    <3>2. /\ listed' \in {0, s} /\ old' = listed /\ door' \in {door, "sentinel"}
          /\ serving' \in {serving, serving \cup {s}}
          /\ stranded' \in {stranded, stranded \cup serving}
          /\ running' = running /\ resumed' = resumed
      BY <1>1 DEF Connect
    <3> QED
      BY <1>0, <3>1, <3>2 DEF TypesOfSessions
  <2>2. TypesOfPlaces'
    BY <1>0, <1>1 DEF Connect, TypesOfPlaces, sends
  <2>3. TypesOfReplays'
    BY <1>0, <1>1 DEF Connect, TypesOfReplays, sends, TypesOfPlaces
  <2>4. TypesOfMessages'
    BY <1>0, <1>1 DEF Connect, TypesOfMessages, sends, made
  <2>5. TypesOfClient'
    BY <1>0, <1>1 DEF Connect, TypesOfClient, client
  <2> QED
    BY <2>1, <2>2, <2>3, <2>4, <2>5
<1>2. ASSUME NEW s \in Sessions, Prompt(s)
      PROVE  Typed'
  <2>1. TypesOfSessions'
    BY <1>0, <1>2 DEF Prompt, TypesOfSessions, server
  <2>2. TypesOfPlaces'
    BY <1>0, <1>2 DEF Prompt, TypesOfPlaces, sends
  <2>3. TypesOfReplays'
    BY <1>0, <1>2 DEF Prompt, TypesOfReplays, sends, TypesOfPlaces
  <2>4. TypesOfMessages'
    BY <1>0, <1>2 DEF Prompt, TypesOfMessages, sends, made
  <2>5. TypesOfClient'
    BY <1>0, <1>2 DEF Prompt, TypesOfClient, client
  <2> QED
    BY <2>1, <2>2, <2>3, <2>4, <2>5
<1>3. ASSUME NEW s \in Sessions, RunEnds(s)
      PROVE  Typed'
  <2>1. TypesOfSessions'
    BY <1>0, <1>3 DEF RunEnds, TypesOfSessions, server
  <2>2. TypesOfPlaces'
    BY <1>0, <1>3 DEF RunEnds, TypesOfPlaces, sends
  <2>3. TypesOfReplays'
    BY <1>0, <1>3 DEF RunEnds, TypesOfReplays, sends, TypesOfPlaces
  <2>4. TypesOfMessages'
    BY <1>0, <1>3 DEF RunEnds, TypesOfMessages, sends, made
  <2>5. TypesOfClient'
    BY <1>0, <1>3 DEF RunEnds, TypesOfClient, client
  <2> QED
    BY <2>1, <2>2, <2>3, <2>4, <2>5
<1>4. ASSUME NEW s \in Sessions, Leave(s)
      PROVE  Typed'
  <2>1. TypesOfSessions'
    BY <1>0, <1>4 DEF Leave, TypesOfSessions, server
  <2>2. TypesOfPlaces'
    BY <1>0, <1>4 DEF Leave, TypesOfPlaces, sends
  <2>3. TypesOfReplays'
    BY <1>0, <1>4 DEF Leave, TypesOfReplays, sends, TypesOfPlaces
  <2>4. TypesOfMessages'
    BY <1>0, <1>4 DEF Leave, TypesOfMessages, sends, made
  <2>5. TypesOfClient'
    BY <1>0, <1>4 DEF Leave, TypesOfClient, client
  <2> QED
    BY <2>1, <2>2, <2>3, <2>4, <2>5
<1>5. ASSUME NEW s \in Sessions, Cleanup(s)
      PROVE  Typed'
  <2>1. TypesOfSessions'
    BY <1>0, <1>5 DEF Cleanup, CancelRun, TypesOfSessions
  <2>2. TypesOfPlaces'
    BY <1>0, <1>5 DEF Cleanup, TypesOfPlaces, sends, CancelRun
  <2>3. TypesOfReplays'
    BY <1>0, <1>5 DEF Cleanup, TypesOfReplays, sends, TypesOfPlaces, CancelRun
  <2>4. TypesOfMessages'
    BY <1>0, <1>5 DEF Cleanup, TypesOfMessages, sends, made
  <2>5. TypesOfClient'
    BY <1>0, <1>5 DEF Cleanup, TypesOfClient, client
  <2> QED
    BY <2>1, <2>2, <2>3, <2>4, <2>5
<1>6. ASSUME NEW s \in Sessions, Resume(s)
      PROVE  Typed'
  <2>1. TypesOfSessions'
    BY <1>0, <1>6 DEF Resume, TypesOfSessions, server
  <2>2. TypesOfPlaces'
    BY <1>0, <1>6, SMTT(30) DEF Resume, TypesOfPlaces, sends
  <2>3. TypesOfReplays'
    BY <1>0, <1>6 DEF Resume, TypesOfReplays, sends, TypesOfPlaces
  <2>4. TypesOfMessages'
    <3>1. last \in 0..MaxEvents /\ "loop" \in Senders
      BY <1>0 DEF TypesOfClient
    <3>2. CASE ev' = [ev EXCEPT ![s]["loop"] = last]
      BY <1>0, <1>6, <3>1, <3>2 DEF Resume, TypesOfMessages
    <3>3. CASE ev' = ev
      BY <1>0, <1>6, <3>3 DEF Resume, TypesOfMessages
    <3> QED
      BY <1>6, <3>2, <3>3 DEF Resume
  <2>5. TypesOfClient'
    BY <1>0, <1>6 DEF Resume, TypesOfClient, client
  <2> QED
    BY <2>1, <2>2, <2>3, <2>4, <2>5
<1>7. ASSUME NEW s \in Sessions, ReadStream(s)
      PROVE  Typed'
  <2>1. TypesOfSessions'
    BY <1>0, <1>7 DEF ReadStream, TypesOfSessions, server
  <2>2. TypesOfPlaces'
    <3>1. \/ at' = [at EXCEPT ![s]["loop"] = "idle"]
          \/ at' = [at EXCEPT ![s]["loop"] = "replaying"]
      BY <1>7 DEF ReadStream
    <3> QED
      BY <1>0, <3>1 DEF TypesOfPlaces
  <2>3. TypesOfReplays'
    <3> DEFINE found == EventsAfter(ev[s]["loop"])
    <3>1. found \in Seq(Events)
      BY <1>0, ReadEffect DEF IInv, StreamIsALog, TypesOfMessages
    <3> HIDE DEF found
    <3>2. rest[s] = <<>>
      BY <1>0, <1>7 DEF ReadStream, TypesOfReplays
    <3>3. CASE /\ rest' = [rest EXCEPT ![s] = found]
               /\ at' = [at EXCEPT ![s]["loop"] = IF found = <<>> THEN "idle" ELSE "replaying"]
      BY <1>0, <3>1, <3>3 DEF TypesOfReplays, TypesOfPlaces
    <3>4. CASE rest' = rest /\ at' = [at EXCEPT ![s]["loop"] = "idle"]
      BY <1>0, <3>2, <3>4 DEF TypesOfReplays, TypesOfPlaces
    <3> QED
      BY <1>7, <3>3, <3>4 DEF ReadStream, found
  <2>4. TypesOfMessages'
    BY <1>0, <1>7 DEF ReadStream, TypesOfMessages, sends, made
  <2>5. TypesOfClient'
    <3>1. InFlight \subseteq Events
      BY <1>0, InFlightMade DEF IInv, TypesOfMessages
    <3>2. EventsAfter(ev[s]["loop"]) \in Seq(Events)
      BY <1>0, ReadEffect DEF IInv, StreamIsALog, TypesOfMessages
    <3>3. Range(EventsAfter(ev[s]["loop"])) \subseteq Events
      BY <3>2 DEF Range
    <3>4. excused' \subseteq Events
      BY <1>0, <1>7, <3>1, <3>3 DEF ReadStream, TypesOfClient
    <3>5. faults' \in 0..MaxFaults
      BY <1>0, <1>7 DEF ReadStream, TypesOfClient
    <3> QED
      BY <1>0, <1>7, <3>4, <3>5 DEF ReadStream, TypesOfClient, client
  <2> QED
    BY <2>1, <2>2, <2>3, <2>4, <2>5
<1>8. ASSUME NEW s \in Sessions, ReplayNext(s)
      PROVE  Typed'
  <2>1. TypesOfSessions'
    BY <1>0, <1>8 DEF ReplayNext, TypesOfSessions, server
  <2>2. TypesOfPlaces'
    BY <1>0, <1>8 DEF ReplayNext, TypesOfPlaces, sends
  <2>3. TypesOfReplays'
    <3> DEFINE q == rest[s]
    <3>1. q \in Seq(Events) /\ q # <<>>
      BY <1>0, <1>8 DEF ReplayNext, TypesOfReplays
    <3>2. \/ rest' = [rest EXCEPT ![s] = Tail(q)]
          \/ rest' = [rest EXCEPT ![s] = <<>>]
      BY <1>8 DEF ReplayNext
    <3> HIDE DEF q
    <3>3. Tail(q) \in Seq(Events) /\ <<>> \in Seq(Events)
      BY <3>1
    <3>4. \E left \in Seq(Events) : rest' = [rest EXCEPT ![s] = left]
      BY <3>2, <3>3, Zenon
    <3>5. PICK left \in Seq(Events) : rest' = [rest EXCEPT ![s] = left]
      BY <3>4
    <3>6. at' = [at EXCEPT ![s]["loop"] = IF rest'[s] = <<>> THEN "idle" ELSE "replaying"]
      BY <1>8 DEF ReplayNext
    <3>7. rest'[s] = left
      BY <1>0, <3>5 DEF TypesOfReplays
    <3> QED
      BY <1>0, <3>5, <3>6, <3>7 DEF TypesOfReplays, TypesOfPlaces
  <2>4. TypesOfMessages'
    BY <1>0, <1>8 DEF ReplayNext, TypesOfMessages, sends, made
  <2>5. TypesOfClient'
    <3>1. rest[s] \in Seq(Events) /\ rest[s] # <<>>
      BY <1>0, <1>8 DEF ReplayNext, TypesOfReplays
    <3>2. Append(wire, Head(rest[s])) \in Seq(Events)
      BY <1>0, <3>1 DEF TypesOfClient
    <3>3. wire' \in {wire, Append(wire, Head(rest[s]))}
      BY <1>8 DEF ReplayNext, Deliver
    <3>4. wire' \in Seq(Events)
      BY <1>0, <3>2, <3>3 DEF TypesOfClient
    <3> QED
      BY <1>0, <1>8, <3>4 DEF ReplayNext, TypesOfClient, client
  <2> QED
    BY <2>1, <2>2, <2>3, <2>4, <2>5
<1>9. ASSUME NEW s \in Sessions, WriteFails(s)
      PROVE  Typed'
  <2>1. TypesOfSessions'
    BY <1>0, <1>9 DEF WriteFails, TypesOfSessions, server
  <2>2. TypesOfPlaces'
    BY <1>0, <1>9 DEF WriteFails, TypesOfPlaces, sends
  <2>3. TypesOfReplays'
    BY <1>0, <1>9 DEF WriteFails, TypesOfReplays, sends, TypesOfPlaces
  <2>4. TypesOfMessages'
    BY <1>0, <1>9 DEF WriteFails, TypesOfMessages, sends, made
  <2>5. TypesOfClient'
    BY <1>0, <1>9 DEF WriteFails, TypesOfClient, client
  <2> QED
    BY <2>1, <2>2, <2>3, <2>4, <2>5
<1>10. ASSUME NEW s \in Sessions, NEW w \in Senders, Write(s, w)
      PROVE  Typed'
  <2>1. TypesOfSessions'
    BY <1>0, <1>10 DEF Write, TypesOfSessions, server
  <2>2. TypesOfPlaces'
    BY <1>0, <1>10 DEF Write, TypesOfPlaces, sends
  <2>3. TypesOfReplays'
    <3>1. at[s][w] = "idle" /\ at' = [at EXCEPT ![s][w] = "storing"] /\ rest' = rest
      BY <1>10 DEF Write, MaySend
    <3>2. \A t \in Sessions : at'[t]["loop"] = "replaying" <=> at[t]["loop"] = "replaying"
      BY <1>0, <3>1 DEF TypesOfPlaces
    <3> QED
      BY <1>0, <3>1, <3>2 DEF TypesOfReplays
  <2>4. TypesOfMessages'
    BY <1>0, <1>10 DEF Write, TypesOfMessages, sends, made
  <2>5. TypesOfClient'
    <3>1. made + 1 \in Events
      BY <1>0, <1>10 DEF Write, TypesOfMessages, made
    <3>2. wire' \in {wire, Append(wire, made + 1)}
      BY <1>10 DEF Write, Deliver
    <3>3. wire' \in Seq(Events)
      BY <1>0, <3>1, <3>2 DEF TypesOfClient
    <3> QED
      BY <1>0, <1>10, <3>3 DEF Write, TypesOfClient, client
  <2> QED
    BY <2>1, <2>2, <2>3, <2>4, <2>5
<1>11. ASSUME NEW s \in Sessions, NEW w \in Senders, Store(s, w)
      PROVE  Typed'
  <2>1. TypesOfSessions'
    BY <1>0, <1>11 DEF Store, TypesOfSessions, server
  <2>2. TypesOfPlaces'
    BY <1>0, <1>11 DEF Store, TypesOfPlaces, sends
  <2>3. TypesOfReplays'
    BY <1>0, <1>11 DEF Store, TypesOfReplays, sends, TypesOfPlaces
  <2>4. TypesOfMessages'
    <3>1. ev[s][w] \in Events
      BY <1>0, <1>11 DEF IInv, Store, Transit, InTransit, TypesOfMessages, made
    <3>2. stream' \in Seq(Events)
      BY <1>0, <1>11, <3>1, PushTyped DEF Store, TypesOfMessages
    <3>3. ev' = [ev EXCEPT ![s][w] = 0] /\ origin' = origin
      BY <1>11 DEF Store
    <3> QED
      BY <1>0, <3>2, <3>3, SMTT(30) DEF TypesOfMessages
  <2>5. TypesOfClient'
    <3>1. ev[s][w] \in Events
      BY <1>0, <1>11 DEF IInv, Store, Transit, InTransit, TypesOfMessages, made
    <3>2. Overlapping(ev[s][w]) \subseteq Events
      BY <1>0, <3>1, InFlightMade DEF IInv, TypesOfMessages, Overlapping
    <3>3. excused' \subseteq Events
      BY <1>0, <1>11, <3>2 DEF Store, TypesOfClient
    <3>4. faults' \in 0..MaxFaults
      BY <1>0, <1>11 DEF Store, TypesOfClient
    <3> QED
      BY <1>0, <1>11, <3>3, <3>4 DEF Store, TypesOfClient, client
  <2> QED
    BY <2>1, <2>2, <2>3, <2>4, <2>5
<1>12. ASSUME NEW s \in Sessions, NEW w \in Senders, CancelledBeforeRedis(s, w)
      PROVE  Typed'
  <2>1. TypesOfSessions'
    BY <1>0, <1>12 DEF CancelledBeforeRedis, TypesOfSessions, server
  <2>2. TypesOfPlaces'
    BY <1>0, <1>12 DEF CancelledBeforeRedis, TypesOfPlaces, sends
  <2>3. TypesOfReplays'
    BY <1>0, <1>12 DEF CancelledBeforeRedis, TypesOfReplays, sends, TypesOfPlaces
  <2>4. TypesOfMessages'
    BY <1>0, <1>12 DEF CancelledBeforeRedis, TypesOfMessages, sends, made
  <2>5. TypesOfClient'
    BY <1>0, <1>12 DEF CancelledBeforeRedis, TypesOfClient, client
  <2> QED
    BY <2>1, <2>2, <2>3, <2>4, <2>5
<1>13. ASSUME PushSentinel
      PROVE  Typed'
  <2>1. TypesOfSessions'
    BY <1>0, <1>13 DEF PushSentinel, TypesOfSessions, server
  <2>2. TypesOfPlaces'
    BY <1>0, <1>13 DEF PushSentinel, TypesOfPlaces, sends
  <2>3. TypesOfReplays'
    BY <1>0, <1>13 DEF PushSentinel, TypesOfReplays, sends, TypesOfPlaces
  <2>4. TypesOfMessages'
    <3>1. CASE origin' = origin /\ stream' = stream
      BY <1>0, <1>13, <3>1 DEF PushSentinel, TypesOfMessages, sends
    <3>2. CASE made < MaxEvents /\ origin' = Append(origin, 0) /\ Push(made + 1)
      <4>1. made + 1 \in Events
        BY <1>0, <3>2 DEF TypesOfMessages, made
      <4>2. stream' \in Seq(Events)
        BY <1>0, <3>2, <4>1, PushTyped DEF TypesOfMessages
      <4> QED
        BY <1>0, <1>13, <3>2, <4>2 DEF PushSentinel, TypesOfMessages, sends, made
    <3> QED
      BY <1>13, <3>1, <3>2 DEF PushSentinel
  <2>5. TypesOfClient'
    <3>1. CASE excused' = excused /\ faults' \in {faults, faults + 1}
      BY <1>0, <1>13, <3>1 DEF PushSentinel, TypesOfClient, client
    <3>2. CASE /\ made < MaxEvents
               /\ excused' = excused \cup Overlapping(made + 1) /\ faults' = faults
      <4>1. made + 1 \in Events
        BY <1>0, <3>2 DEF TypesOfMessages, made
      <4>2. Overlapping(made + 1) \subseteq Events
        BY <1>0, <4>1, InFlightMade DEF IInv, TypesOfMessages, Overlapping
      <4> QED
        BY <1>0, <1>13, <3>2, <4>2 DEF PushSentinel, TypesOfClient, client
    <3> QED
      BY <1>13, <3>1, <3>2 DEF PushSentinel
  <2> QED
    BY <2>1, <2>2, <2>3, <2>4, <2>5
<1>14. ASSUME Evict
      PROVE  Typed'
  <2>1. TypesOfSessions'
    <3>1. Current \in Sessions
      <4>1. PICK c \in 0..MaxSessions : \A t \in Sessions : sock[t] # "none" <=> t <= c
        BY DEF IInv, Opened
      <4>2. Current = c
        BY <4>1, CurrentIs
      <4>3. c # 0
        BY <1>0, <1>14, <4>1 DEF Evict, IInv, Opened, TypesOfSessions
      <4> QED
        BY <4>2, <4>3
    <3>2. old \in Sessions
      BY <1>0, <1>14 DEF Evict, IInv, Opened, TypesOfSessions
    <3>3. running' = running \ {old}
      BY <1>14 DEF Evict, CancelRun
    <3> QED
      BY <1>0, <1>14, <3>1, <3>2, <3>3 DEF Evict, TypesOfSessions
  <2>2. TypesOfPlaces'
    BY <1>0, <1>14 DEF Evict, TypesOfPlaces, sends, CancelRun
  <2>3. TypesOfReplays'
    BY <1>0, <1>14 DEF Evict, TypesOfReplays, sends, TypesOfPlaces, CancelRun
  <2>4. TypesOfMessages'
    BY <1>0, <1>14 DEF Evict, TypesOfMessages, sends, made
  <2>5. TypesOfClient'
    BY <1>0, <1>14 DEF Evict, TypesOfClient, client
  <2> QED
    BY <2>1, <2>2, <2>3, <2>4, <2>5
<1>15. ASSUME Receive
      PROVE  Typed'
  <2>1. TypesOfSessions'
    BY <1>0, <1>15 DEF Receive, TypesOfSessions, server
  <2>2. TypesOfPlaces'
    BY <1>0, <1>15 DEF Receive, TypesOfPlaces, sends
  <2>3. TypesOfReplays'
    BY <1>0, <1>15 DEF Receive, TypesOfReplays, sends, TypesOfPlaces
  <2>4. TypesOfMessages'
    BY <1>0, <1>15 DEF Receive, TypesOfMessages, sends, made
  <2>5. TypesOfClient'
    <3>1. Head(wire) \in Events /\ Tail(wire) \in Seq(Events)
      BY <1>0, <1>15 DEF Receive, TypesOfClient
    <3>2. first' \in {first, Head(wire)} /\ last' = Head(wire)
      BY <1>15 DEF Receive
    <3>3. wire' \in Seq(Events)
      BY <1>15, <3>1 DEF Receive
    <3>4. first' \in 0..MaxEvents /\ last' \in 0..MaxEvents
      BY <1>0, <3>1, <3>2 DEF TypesOfClient
    <3>5. seen' \subseteq Events
      BY <1>0, <1>15, <3>1 DEF Receive, TypesOfClient
    <3> QED
      BY <1>0, <1>15, <3>3, <3>4, <3>5 DEF Receive, TypesOfClient
  <2> QED
    BY <2>1, <2>2, <2>3, <2>4, <2>5
<1>16. CASE UNCHANGED vars
  BY <1>0, <1>16 DEF TypesOfSessions, TypesOfPlaces, TypesOfReplays, TypesOfMessages,
     TypesOfClient, vars, server, sends, client, made
<1> HIDE DEF Typed
<1> QED
  BY <1>1, <1>2, <1>3, <1>4, <1>5, <1>6, <1>7, <1>8, <1>9, <1>10, <1>11, <1>12, <1>13, <1>14, <1>15, <1>16 DEF Next

-----------------------------------------------------------------------------
(* The sessions *)

SessionInv == Opened /\ OpenServed /\ Heir /\ Retired

\* The current session stays while no socket is opened.
LEMMA SameCurrent ==
    ASSUME StreamAssumption, Opened,
           \A s \in Sessions : sock'[s] # "none" <=> sock[s] # "none"
    PROVE  /\ Current' = Current
           /\ \E c \in 0..MaxSessions : \A s \in Sessions : sock'[s] # "none" <=> s <= c
<1>1. PICK c \in 0..MaxSessions : \A s \in Sessions : sock[s] # "none" <=> s <= c
  BY DEF Opened
<1>2. Current = c
  BY <1>1, CurrentIs
<1>3. \A s \in Sessions : sock'[s] # "none" <=> s <= c
  BY <1>1
<1>4. Current' = c
  <2>1. CASE c = 0
    BY <2>1, <1>3 DEF Current, Sessions, StreamAssumption
  <2>2. CASE c # 0
    <3>1. c \in Sessions /\ sock'[c] # "none" /\ \A t \in Sessions : t > c => sock'[t] = "none"
      BY <2>2, <1>3 DEF Sessions, StreamAssumption
    <3>2. \A s \in Sessions :
            (sock'[s] # "none" /\ \A t \in Sessions : t > s => sock'[t] = "none") => s = c
      BY <3>1, <1>3 DEF Sessions, StreamAssumption
    <3> QED
      BY <3>1, <3>2 DEF Current
  <2> QED
    BY <2>1, <2>2
<1> QED
  BY <1>2, <1>3, <1>4

\* Steps that open, close, list and serve nothing.
LEMMA QuietStep ==
    ASSUME SessionInv, UNCHANGED <<sock, serving, listed, old, stranded>>,
           door' = "shut" <=> door = "shut",
           \A s \in Sessions : Served(s)' => Served(s)
    PROVE  SessionInv'
<1>1. Current' = Current
  BY DEF Current
<1>2. Opened'
  BY DEF SessionInv, Opened
<1>3. OpenServed'
  BY <1>1 DEF SessionInv, OpenServed
<1>4. Heir'
  BY DEF SessionInv, Heir
<1>5. Retired'
  BY DEF SessionInv, Retired
<1> QED
  BY <1>2, <1>3, <1>4, <1>5 DEF SessionInv

\* Only the session that moves can come to be served.
LEMMA ServedKept ==
    ASSUME NEW s, serving' \subseteq serving \cup {s} /\ resumed' \subseteq resumed \cup {s},
           running' \subseteq running \cup {s},
           origin' = origin \/ origin' = Append(origin, s) \/ origin' = Append(origin, 0),
           origin \in Seq(Nat), s \in Nat
    PROVE  \A t \in Sessions : Served(t)' => Served(t) \/ t = s
<1> SUFFICES ASSUME NEW t \in Sessions, Served(t)', t # s
             PROVE  Served(t)
  OBVIOUS
<1>1. CASE t \in serving' \cup resumed' \cup running'
  BY <1>1 DEF Served
<1>2. ASSUME NEW i \in DOMAIN origin', origin'[i] = t
      PROVE  Served(t)
  <2>1. t # 0
    BY DEF Sessions
  <2>2. i \in DOMAIN origin /\ origin[i] = t
    BY <1>2, <2>1
  <2> QED
    BY <2>2 DEF Served
<1> QED
  BY <1>1, <1>2 DEF Served

\* Every step keeps what is known of the sessions.
LEMMA SessionStep == IInv /\ [Next]_vars => SessionInv'
<1> SUFFICES ASSUME IInv, [Next]_vars
             PROVE  SessionInv'
  OBVIOUS
<1> USE StreamAssumption
<1>0. SessionInv /\ origin \in Seq(Nat) /\ TypesOfSessions
  BY TypesSplit DEF IInv, SessionInv, TypesOfMessages, StreamAssumption
<1>1. ASSUME NEW s \in Sessions, Connect(s)
      PROVE  SessionInv'
  <2>1. PICK c \in 0..MaxSessions : \A t \in Sessions : sock[t] # "none" <=> t <= c
    BY <1>0 DEF SessionInv, Opened
  <2>2. s = c + 1 /\ c \in Nat
    <3>1. Current = c
      BY <2>1, CurrentIs
    <3> QED
      BY <1>1, <3>1 DEF Connect, StreamAssumption
  <2>3. /\ sock[s] = "none" /\ sock'[s] = "live"
        /\ \A t \in Sessions : t # s => sock'[t] = sock[t]
    BY <1>0, <1>1, <2>1, <2>2 DEF Connect, TypesOfSessions, Sessions
  <2>4. \A t \in Sessions : sock'[t] # "none" <=> t <= s
    BY <2>1, <2>2, <2>3 DEF Sessions
  <2>5. /\ door = "shut" /\ old' = listed /\ resumed' = resumed
        /\ running' = running /\ origin' = origin
    BY <1>1 DEF Connect, server
  <2>6. ~Served(s)
    BY <1>0, <2>3 DEF SessionInv, Opened
  <2>7. \A t \in Sessions : Served(t)' => Served(t) \/ t = s
    BY <1>0, <1>1, ServedKept DEF Connect, Sessions
  <2>8. Current' = s
    <3>1. s # 0 /\ \A t \in Sessions : t > s => sock'[t] = "none"
      BY <2>2, <2>4 DEF Sessions
    <3>2. \A r \in Sessions :
            (sock'[r] # "none" /\ \A t \in Sessions : t > r => sock'[t] = "none") => r = s
      BY <2>3, <2>4, <3>1 DEF Sessions
    <3> QED
      BY <2>3, <3>1, <3>2 DEF Current
  <2>9. Opened'
    <3>1. s \in 0..MaxSessions
      BY DEF Sessions, StreamAssumption
    <3>2. \A t \in Sessions : Served(t)' => sock'[t] # "none"
      BY <1>0, <2>3, <2>7 DEF SessionInv, Opened
    <3>3. listed' # 0 => sock'[listed'] # "none"
      BY <1>0, <1>1, <2>3 DEF Connect, SessionInv, Opened
    <3>4. door' # "shut" => old' # 0 /\ sock'[old'] # "none"
      BY <1>0, <1>1, <2>3, <2>5 DEF Connect, SessionInv, Opened, TypesOfSessions, Sessions
    <3> QED
      BY <2>4, <3>1, <3>2, <3>3, <3>4 DEF Opened
  <2>10. OpenServed'
    BY <1>0, <1>1, <2>3, <2>5, <2>8 DEF Connect, SessionInv, OpenServed
  <2>11. Heir'
    <3>1. CASE listed = 0
      BY <1>1, <2>5, <3>1 DEF Connect, Heir
    <3>2. CASE listed # 0
      BY <1>0, <1>1, <2>3, <2>5, <2>6, <3>2 DEF Connect, SessionInv, Heir, Served, TypesOfSessions
    <3> QED
      BY <3>1, <3>2
  <2>12. Retired'
    <3> SUFFICES ASSUME NEW r \in Sessions, NEW t \in Sessions, Served(r)', t < r
                 PROVE  t \in stranded' \/ sock'[t] = "closed"
      BY DEF Retired
    <3>1. stranded \subseteq stranded'
      BY <1>1 DEF Connect
    <3>2. CASE Served(r)
      <4>1. t # s
        BY <1>0, <2>1, <2>2, <3>2 DEF SessionInv, Opened, Sessions
      <4> QED
        BY <1>0, <2>3, <3>1, <3>2, <4>1 DEF SessionInv, Retired
    <3>3. CASE ~Served(r)
      <4>1. r = s
        BY <2>7, <3>3
      <4>2. listed = 0
        BY <1>1, <2>6, <4>1 DEF Connect, Served
      <4>3. sock[t] # "none" /\ t # s
        BY <2>1, <2>2, <4>1 DEF Sessions
      <4>4. t \in serving \/ sock[t] = "closed"
        BY <1>0, <2>5, <4>3 DEF SessionInv, OpenServed, TypesOfSessions
      <4> QED
        BY <1>1, <2>3, <4>2, <4>3, <4>4 DEF Connect
    <3> QED
      BY <3>2, <3>3
  <2> QED
    BY <2>9, <2>10, <2>11, <2>12 DEF SessionInv
<1>2. ASSUME Evict
      PROVE  SessionInv'
  <2>1. old \in Sessions /\ sock[old] # "none" /\ door # "shut" /\ door' = "shut"
    BY <1>0, <1>2 DEF Evict, SessionInv, Opened, TypesOfSessions, Sessions
  <2>2. sock'[old] = "closed" /\ \A t \in Sessions : t # old => sock'[t] = sock[t]
    BY <1>0, <1>2, <2>1 DEF Evict, TypesOfSessions
  <2>3. /\ Current' = Current
        /\ \E c \in 0..MaxSessions : \A s \in Sessions : sock'[s] # "none" <=> s <= c
    BY <1>0, <2>1, <2>2, SameCurrent DEF SessionInv
  <2>4. PICK c \in 0..MaxSessions : \A s \in Sessions : sock[s] # "none" <=> s <= c
    BY <1>0 DEF SessionInv, Opened
  <2>5. Current = c /\ c \in Sessions
    BY <2>1, <2>4, CurrentIs DEF Sessions, StreamAssumption
  <2>6. /\ listed' = Current /\ serving' = serving \cup {Current} /\ stranded' = stranded
        /\ resumed' = resumed /\ running' = running \ {old} /\ origin' = origin
    BY <1>2 DEF Evict, CancelRun
  <2>7. \A t \in Sessions : Served(t)' => Served(t) \/ t = Current
    <3>1. Current \in Nat
      BY <2>5 DEF Sessions
    <3> HIDE DEF Current
    <3> QED
      BY <1>0, <2>6, <3>1, ServedKept
  <2>8. Opened'
    <3>1. \A t \in Sessions : Served(t)' => sock'[t] # "none"
      BY <1>0, <2>1, <2>2, <2>4, <2>5, <2>7 DEF SessionInv, Opened, Sessions
    <3>2. sock'[listed'] # "none"
      BY <2>1, <2>2, <2>4, <2>5, <2>6 DEF Sessions
    <3> QED
      BY <2>1, <2>3, <3>1, <3>2 DEF Opened
  <2>9. OpenServed'
    BY <1>0, <2>1, <2>2, <2>5, <2>6 DEF SessionInv, OpenServed
  <2>10. Heir'
    BY <1>0, <2>1, <2>2, <2>6 DEF SessionInv, Heir, TypesOfSessions
  <2>11. Retired'
    <3> SUFFICES ASSUME NEW r \in Sessions, NEW t \in Sessions, Served(r)', t < r
                 PROVE  t \in stranded' \/ sock'[t] = "closed"
      BY DEF Retired
    <3>1. CASE t = old
      BY <2>2, <3>1
    <3>2. CASE t # old /\ Served(r)
      BY <1>0, <2>2, <2>6, <3>2 DEF SessionInv, Retired
    <3>3. CASE t # old /\ ~Served(r)
      <4>1. r = Current
        BY <2>7, <3>3
      <4>2. sock[t] # "none" /\ t # Current
        BY <2>4, <2>5, <4>1 DEF Sessions
      <4>3. t \in serving \/ sock[t] = "closed"
        BY <1>0, <4>2 DEF SessionInv, OpenServed, TypesOfSessions
      <4> QED
        BY <1>0, <2>1, <2>2, <2>6, <3>3, <4>3 DEF SessionInv, Heir
    <3> QED
      BY <3>1, <3>2, <3>3
  <2> QED
    BY <2>8, <2>9, <2>10, <2>11 DEF SessionInv
<1>3. ASSUME NEW s \in Sessions, Leave(s) \/ Cleanup(s)
      PROVE  SessionInv'
  <2>1. /\ sock[s] \notin {"none", "closed"} \/ Cleanup(s)
        /\ sock[s] # "none" /\ sock'[s] \in {"gone", "closed"}
        /\ \A t \in Sessions : t # s => sock'[t] = sock[t]
    BY <1>0, <1>3 DEF Leave, Cleanup, TypesOfSessions
  <2>2. /\ listed' \in {listed, 0} /\ serving' \in {serving, serving \ {s}}
        /\ stranded' = stranded /\ door' = door /\ old' = old
        /\ resumed' \subseteq resumed /\ running' \subseteq running /\ origin' = origin
    BY <1>3 DEF Leave, Cleanup, CancelRun, server
  <2>3. /\ Current' = Current
        /\ \E c \in 0..MaxSessions : \A t \in Sessions : sock'[t] # "none" <=> t <= c
    BY <1>0, <2>1, SameCurrent DEF SessionInv
  <2>4. \A t \in Sessions : Served(t)' => Served(t)
    BY <2>2 DEF Served
  <2>5. \A t \in Sessions : sock'[t] # "none" <=> sock[t] # "none"
    BY <2>1
  <2>6. \A t \in Sessions : sock[t] = "closed" => sock'[t] = "closed"
    <3>1. CASE Leave(s)
      BY <2>1, <3>1 DEF Leave
    <3>2. CASE Cleanup(s)
      BY <1>0, <2>1, <3>2 DEF Cleanup, TypesOfSessions
    <3> QED
      BY <1>3, <3>1, <3>2
  <2>7. Opened'
    <3>1. \A t \in Sessions : Served(t)' => sock'[t] # "none"
      BY <1>0, <2>4, <2>5 DEF SessionInv, Opened
    <3>2. listed' # 0 => sock'[listed'] # "none"
      BY <1>0, <2>2, <2>5 DEF SessionInv, Opened, TypesOfSessions, Sessions
    <3>3. door' # "shut" => old' # 0 /\ sock'[old'] # "none"
      BY <1>0, <2>2, <2>5 DEF SessionInv, Opened, TypesOfSessions, Sessions
    <3> QED
      BY <2>3, <3>1, <3>2, <3>3 DEF Opened
  <2>8. OpenServed'
    <3>1. CASE Leave(s)
      BY <1>0, <2>1, <2>2, <2>3, <3>1 DEF Leave, server, SessionInv, OpenServed
    <3>2. CASE Cleanup(s)
      BY <1>0, <2>1, <2>2, <2>3, <3>2 DEF Cleanup, SessionInv, OpenServed, TypesOfSessions
    <3> QED
      BY <1>3, <3>1, <3>2
  <2>9. Heir'
    BY <1>0, <2>2, <2>6 DEF SessionInv, Heir, TypesOfSessions
  <2>10. Retired'
    BY <1>0, <2>2, <2>4, <2>6 DEF SessionInv, Retired
  <2> QED
    BY <2>7, <2>8, <2>9, <2>10 DEF SessionInv
<1>4. ASSUME NEW s \in Sessions, NEW w \in Senders, Write(s, w)
      PROVE  SessionInv'
  <2>1. Served(s) /\ s \in Nat
    BY <1>4 DEF Write, MaySend, Served, Sessions
  <2>2. /\ UNCHANGED <<sock, serving, listed, old, stranded, door, running, resumed>>
        /\ origin' = Append(origin, s)
    BY <1>4 DEF Write, server
  <2>3. \A t \in Sessions : Served(t)' => Served(t)
    BY <1>0, <2>1, <2>2, ServedKept
  <2> QED
    BY <1>0, <2>2, <2>3, QuietStep
<1>5. ASSUME PushSentinel
      PROVE  SessionInv'
  <2>1. /\ UNCHANGED <<sock, serving, listed, old, stranded, running, resumed>>
        /\ door # "shut" /\ door' # "shut"
        /\ origin' = origin \/ origin' = Append(origin, 0)
    BY <1>5 DEF PushSentinel
  <2>2. \A t \in Sessions : Served(t)' => Served(t) \/ t = 0
    BY <1>0, <2>1, ServedKept
  <2>3. \A t \in Sessions : Served(t)' => Served(t)
    BY <2>2 DEF Sessions
  <2> QED
    BY <1>0, <2>1, <2>3, QuietStep
<1>6. ASSUME NEW s \in Sessions, Prompt(s) \/ RunEnds(s) \/ WriteFails(s) \/ Resume(s)
      PROVE  SessionInv'
  <2>1. /\ UNCHANGED <<sock, serving, listed, old, stranded, door, origin>>
        /\ running' \subseteq running \cup serving
        /\ resumed' \subseteq resumed \cup serving
    BY <1>6 DEF Prompt, RunEnds, WriteFails, Resume, server
  <2>2. \A t \in Sessions : Served(t)' => Served(t)
    BY <2>1 DEF Served
  <2> QED
    BY <1>0, <2>1, <2>2, QuietStep
<1>7. CASE UNCHANGED <<sock, server, resumed, origin>>
  BY <1>0, <1>7, QuietStep DEF server, Served
<1>8. ASSUME NEW s \in Sessions, ReadStream(s) \/ ReplayNext(s)
      PROVE  SessionInv'
  BY <1>7, <1>8 DEF ReadStream, ReplayNext
<1>9. ASSUME NEW s \in Sessions, NEW w \in Senders, Store(s, w) \/ CancelledBeforeRedis(s, w)
      PROVE  SessionInv'
  BY <1>7, <1>9 DEF Store, CancelledBeforeRedis
<1>10. CASE Receive
  BY <1>7, <1>10 DEF Receive
<1>11. CASE UNCHANGED vars
  BY <1>7, <1>11 DEF vars
<1> QED
  BY <1>1, <1>2, <1>3, <1>4, <1>5, <1>6, <1>8, <1>9, <1>10, <1>11 DEF Next

-----------------------------------------------------------------------------
(* The messages *)

MessageInv == Transit /\ Stored /\ Straggling /\ StreamIsALog

\* Steps that make no message and store none.
LEMMA SilentStep ==
    ASSUME MessageInv, UNCHANGED <<origin, stream>>,
           stranded \subseteq stranded', excused \subseteq excused',
           \A s \in Sessions, w \in Senders :
               InTransit(s, w)' => InTransit(s, w) /\ ev'[s][w] = ev[s][w]
    PROVE  MessageInv'
<1>1. made' = made
  BY DEF made
<1>2. Transit'
  <2> SUFFICES ASSUME NEW s \in Sessions, NEW w \in Senders, InTransit(s, w)'
               PROVE  /\ ev'[s][w] \in 1..made'
                      /\ origin'[ev'[s][w]] = s
                      /\ \A i \in DOMAIN stream' : stream'[i] # ev'[s][w]
                      /\ \A t \in Sessions, v \in Senders :
                           (InTransit(t, v)' /\ <<t, v>> # <<s, w>>) => ev'[t][v] # ev'[s][w]
    BY DEF Transit
  <2> QED
    BY <1>1 DEF MessageInv, Transit
<1>3. Stored'
  BY <1>1 DEF MessageInv, Stored
<1>4. Straggling'
  <2> SUFFICES ASSUME NEW s \in Sessions, NEW w \in Senders, InTransit(s, w)', s \notin stranded',
                      NEW i \in DOMAIN stream', origin'[stream'[i]] > s
               PROVE  ev'[s][w] \in excused'
    BY DEF Straggling
  <2> QED
    BY DEF MessageInv, Straggling
<1>5. StreamIsALog'
  BY DEF MessageInv, StreamIsALog
<1> QED
  BY <1>2, <1>3, <1>4, <1>5 DEF MessageInv

\* The stream grows by a message that was under way, or by a sentinel.
LEMMA StoringStep ==
    ASSUME StreamAssumption, MessageInv, origin \in Seq(Nat), stream \in Seq(Nat),
           NEW e \in Nat, Push(e),
           origin' \in Seq(Nat), e \in 1..made', made <= made',
           \A i \in 1..made : origin'[i] = origin[i],
           \A i \in DOMAIN stream : stream[i] # e,
           stranded' = stranded, excused' = excused \cup Overlapping(e),
           \A s \in Sessions, w \in Senders : InTransit(s, w)' =>
               InTransit(s, w) /\ ev'[s][w] = ev[s][w] /\ ev[s][w] # e,
           \/ origin'[e] = 0
           \/ \E s \in Sessions, w \in Senders :
                InTransit(s, w) /\ ev[s][w] = e /\ origin'[e] = s
    PROVE  MessageInv'
<1>1. PICK k \in 0..Len(stream) :
        /\ Len(stream') = Len(stream) + 1 - k
        /\ \A i \in DOMAIN stream' :
             \/ i + k \in DOMAIN stream /\ stream'[i] = stream[i + k]
             \/ i = Len(stream') /\ stream'[i] = e
  BY PushEffect
<1>2. stream' \in Seq(Nat) /\ made \in Nat /\ made' \in Nat
  BY PushEffect, SMTT(30) DEF made
<1>3. DOMAIN stream' = 1..Len(stream') /\ DOMAIN stream = 1..Len(stream)
  BY <1>2
<1>4. \A i \in DOMAIN stream' : stream'[i] = e \/ \E j \in DOMAIN stream : stream'[i] = stream[j]
  BY <1>1
<1>5. \A i, j \in DOMAIN stream' : i < j =>
        /\ i + k \in DOMAIN stream /\ stream'[i] = stream[i + k]
        /\ \/ stream'[j] = e
           \/ j + k \in DOMAIN stream /\ stream'[j] = stream[j + k]
  BY <1>1, <1>3, SMTT(30)
<1>6. \A i \in DOMAIN stream : stream[i] \in 1..made /\ origin'[stream[i]] = origin[stream[i]]
  BY DEF MessageInv, Stored
<1>7. \A s \in Sessions, w \in Senders : InTransit(s, w) =>
        ev[s][w] \in InFlight
  <2> SUFFICES ASSUME NEW s \in Sessions, NEW w \in Senders, InTransit(s, w)
               PROVE  ev[s][w] \in InFlight
    OBVIOUS
  <2> DEFINE y == <<s, w>>
  <2>1. y \in Sessions \X Senders /\ y[1] = s /\ y[2] = w
    OBVIOUS
  <2> QED
    BY <2>1, ZenonT(30) DEF InTransit, InFlight
<1>8. Transit'
  <2> SUFFICES ASSUME NEW s \in Sessions, NEW w \in Senders, InTransit(s, w)'
               PROVE  /\ ev'[s][w] \in 1..made'
                      /\ origin'[ev'[s][w]] = s
                      /\ \A i \in DOMAIN stream' : stream'[i] # ev'[s][w]
                      /\ \A t \in Sessions, v \in Senders :
                           (InTransit(t, v)' /\ <<t, v>> # <<s, w>>) => ev'[t][v] # ev'[s][w]
    BY DEF Transit
  <2>1. InTransit(s, w) /\ ev'[s][w] = ev[s][w] /\ ev[s][w] # e
    OBVIOUS
  <2>2. ev[s][w] \in 1..made /\ origin[ev[s][w]] = s
    BY <2>1 DEF MessageInv, Transit
  <2>3. ev[s][w] \in 1..made' /\ origin'[ev[s][w]] = s
    BY <1>2, <2>2, SMTT(30)
  <2>4. \A i \in DOMAIN stream' : stream'[i] # ev[s][w]
    <3>1. \A i \in DOMAIN stream : stream[i] # ev[s][w]
      BY <2>1 DEF MessageInv, Transit
    <3> QED
      BY <1>4, <2>1, <3>1
  <2>5. \A t \in Sessions, v \in Senders :
          (InTransit(t, v)' /\ <<t, v>> # <<s, w>>) => ev'[t][v] # ev'[s][w]
    BY <2>1 DEF MessageInv, Transit
  <2> QED
    BY <2>1, <2>3, <2>4, <2>5
<1>9. Stored'
  <2>1. \A x \in 1..made : x \in 1..made'
    BY <1>2
  <2> QED
    BY <1>4, <1>6, <2>1 DEF Stored
<1>10. Straggling'
  <2> SUFFICES ASSUME NEW t \in Sessions, NEW v \in Senders, InTransit(t, v)', t \notin stranded',
                      NEW i \in DOMAIN stream', origin'[stream'[i]] > t
               PROVE  ev'[t][v] \in excused'
    BY DEF Straggling
  <2>1. InTransit(t, v) /\ ev'[t][v] = ev[t][v] /\ ev[t][v] # e
    OBVIOUS
  <2>2. CASE stream'[i] = e
    <3>1. ev[t][v] \in InFlight
      BY <1>7, <2>1
    <3> QED
      BY <2>1, <3>1 DEF Overlapping
  <2>3. CASE \E j \in DOMAIN stream : stream'[i] = stream[j]
    BY <1>6, <2>1, <2>3 DEF MessageInv, Straggling
  <2> QED
    BY <1>4, <2>2, <2>3
<1>11. StreamIsALog'
  <2> SUFFICES ASSUME NEW i \in DOMAIN stream', NEW j \in DOMAIN stream', i < j
               PROVE  /\ stream'[i] # stream'[j]
                      /\ (/\ origin'[stream'[j]] \notin stranded' \cup {0}
                          /\ origin'[stream'[j]] < origin'[stream'[i]])
                            => stream'[j] \in excused'
    BY DEF StreamIsALog
  <2>1. i + k \in DOMAIN stream /\ stream'[i] = stream[i + k]
    BY <1>5
  <2>2. CASE stream'[j] = e
    <3>1. stream'[i] # e
      BY <2>1
    <3>2. ASSUME origin'[e] \notin stranded \cup {0}, origin'[e] < origin'[stream'[i]]
          PROVE  e \in excused'
      <4>1. PICK s \in Sessions, w \in Senders :
              InTransit(s, w) /\ ev[s][w] = e /\ origin'[e] = s
        BY <3>2
      <4>2. origin[stream[i + k]] > s
        <5>1. origin[stream[i + k]] \in Nat
          <6>1. stream[i + k] \in DOMAIN origin
            BY <2>1, <1>6 DEF made
          <6> QED
            BY <6>1, SMTT(30)
        <5> QED
          BY <1>6, <2>1, <3>2, <4>1, <5>1, SMTT(30) DEF Sessions
      <4> QED
        BY <2>1, <3>2, <4>1, <4>2 DEF MessageInv, Straggling
    <3> QED
      BY <2>2, <3>1, <3>2
  <2>3. CASE j + k \in DOMAIN stream /\ stream'[j] = stream[j + k]
    <3> DEFINE a == i + k
               b == j + k
    <3>1. a < b
      BY <1>3
    <3>2. a \in DOMAIN stream /\ b \in DOMAIN stream /\ stream'[i] = stream[a] /\ stream'[j] = stream[b]
      BY <2>1, <2>3
    <3> HIDE DEF a, b
    <3>3. origin'[stream[a]] = origin[stream[a]] /\ origin'[stream[b]] = origin[stream[b]]
      BY <1>6, <3>2
    <3> QED
      BY <3>1, <3>2, <3>3 DEF MessageInv, StreamIsALog
  <2> QED
    BY <1>5, <2>2, <2>3
<1> QED
  BY <1>8, <1>9, <1>10, <1>11 DEF MessageInv

\* Every step keeps what is known of the messages on their way.
LEMMA MessageStep == IInv /\ [Next]_vars => MessageInv'
<1> SUFFICES ASSUME IInv, [Next]_vars
             PROVE  MessageInv'
  OBVIOUS
<1> USE StreamAssumption
<1>0. /\ MessageInv /\ SessionInv
      /\ TypesOfSessions /\ TypesOfPlaces /\ TypesOfMessages /\ TypesOfClient
      /\ origin \in Seq(Nat) /\ stream \in Seq(Nat)
  BY TypesSplit DEF IInv, MessageInv, SessionInv, TypesOfMessages, StreamAssumption, Events
<1> USE DEF InTransit
<1>1. ASSUME NEW s \in Sessions, NEW w \in Senders, Write(s, w)
      PROVE  MessageInv'
  <2> DEFINE e == made + 1
  <2>1. /\ origin' = Append(origin, s) /\ e \in Nat /\ made' = e /\ made \in Nat
        /\ UNCHANGED <<stream, excused, stranded, sock>>
    BY <1>0, <1>1 DEF Write, server, made
  <2>2. \A i \in 1..made : origin'[i] = origin[i]
    BY <1>0, <2>1 DEF made
  <2>3. origin'[e] = s
    BY <1>0, <2>1 DEF made
  <2>4. /\ at[s][w] = "idle" /\ at'[s][w] = "storing" /\ ev'[s][w] = e
        /\ \A t \in Sessions, v \in Senders :
             <<t, v>> # <<s, w>> => at'[t][v] = at[t][v] /\ ev'[t][v] = ev[t][v]
    BY <1>0, <1>1 DEF Write, MaySend, TypesOfPlaces, TypesOfMessages
  <2> HIDE DEF e
  <2>5. \A i \in DOMAIN stream : /\ stream[i] \in 1..made /\ stream[i] # e
                                 /\ origin'[stream[i]] = origin[stream[i]]
    <3>1. e \notin 1..made
      BY <2>1 DEF e
    <3> QED
      BY <1>0, <2>2, <3>1 DEF MessageInv, Stored
  <2>6. Transit'
    <3> SUFFICES ASSUME NEW t \in Sessions, NEW v \in Senders, InTransit(t, v)'
                 PROVE  /\ ev'[t][v] \in 1..made'
                        /\ origin'[ev'[t][v]] = t
                        /\ \A i \in DOMAIN stream' : stream'[i] # ev'[t][v]
                        /\ \A r \in Sessions, x \in Senders :
                             (InTransit(r, x)' /\ <<r, x>> # <<t, v>>) => ev'[r][x] # ev'[t][v]
      BY DEF Transit
    <3>1. \A r \in Sessions, x \in Senders :
            (InTransit(r, x)' /\ <<r, x>> # <<s, w>>) =>
                InTransit(r, x) /\ ev'[r][x] = ev[r][x] /\ ev[r][x] \in 1..made /\ ev[r][x] # e
      <4>1. e \notin 1..made
        BY <2>1 DEF e
      <4> QED
        BY <1>0, <2>4, <4>1 DEF MessageInv, Transit
    <3>2. CASE <<t, v>> = <<s, w>>
      <4>1. t = s /\ v = w
        BY <3>2
      <4>2. e \in 1..made'
        BY <2>1 DEF e
      <4>3. \A r \in Sessions, x \in Senders :
              (InTransit(r, x)' /\ <<r, x>> # <<s, w>>) => ev'[r][x] # e
        BY <3>1
      <4> QED
        BY <2>1, <2>3, <2>4, <2>5, <4>1, <4>2, <4>3
    <3>3. CASE <<t, v>> # <<s, w>>
      <4>1. InTransit(t, v) /\ ev'[t][v] = ev[t][v] /\ ev[t][v] \in 1..made /\ ev[t][v] # e
        BY <3>1, <3>3
      <4>2. ev[t][v] \in 1..made' /\ origin'[ev[t][v]] = t
        <5>1. made <= made'
          BY <2>1 DEF e
        <5>2. origin[ev[t][v]] = t
          BY <1>0, <4>1 DEF MessageInv, Transit
        <5>3. origin'[ev[t][v]] = t
          BY <2>2, <4>1, <5>2
        <5>4. \A x \in 1..made : x \in 1..made'
          <6>1. made' \in Nat
            BY <2>1
          <6> QED
            BY <2>1, <5>1, <6>1
        <5> QED
          BY <4>1, <5>3, <5>4
      <4>3. \A i \in DOMAIN stream : stream[i] # ev[t][v]
        BY <1>0, <4>1 DEF MessageInv, Transit
      <4>4. ASSUME NEW r \in Sessions, NEW x \in Senders, InTransit(r, x)', <<r, x>> # <<t, v>>
            PROVE  ev'[r][x] # ev'[t][v]
        <5>1. CASE <<r, x>> = <<s, w>>
          BY <2>4, <4>1, <5>1
        <5>2. CASE <<r, x>> # <<s, w>>
          BY <1>0, <3>1, <4>1, <4>4, <5>2 DEF MessageInv, Transit
        <5> QED
          BY <5>1, <5>2
      <4> QED
        BY <2>1, <4>1, <4>2, <4>3, <4>4
    <3> QED
      BY <3>2, <3>3
  <2>7. Stored'
    BY <2>1, <2>5 DEF Stored, e
  <2>8. Straggling'
    <3> SUFFICES ASSUME NEW t \in Sessions, NEW v \in Senders, InTransit(t, v)', t \notin stranded',
                        NEW i \in DOMAIN stream', origin'[stream'[i]] > t
                 PROVE  ev'[t][v] \in excused'
      BY DEF Straggling
    <3>1. i \in DOMAIN stream /\ origin[stream[i]] > t
      BY <2>1, <2>5
    <3>2. CASE <<t, v>> # <<s, w>>
      BY <1>0, <2>1, <2>4, <3>1, <3>2 DEF MessageInv, Straggling
    <3>3. CASE <<t, v>> = <<s, w>>
      <4> DEFINE r == origin[stream[i]]
      <4>1. r \in Sessions /\ Served(r)
        <5>1. stream[i] \in DOMAIN origin
          BY <1>0, <2>5, <3>1 DEF made
        <5>2. r \in 0..MaxSessions
          BY <1>0, <5>1, SMTT(30) DEF TypesOfMessages
        <5>3. r \in Sessions
          BY <3>1, <5>2 DEF Sessions, StreamAssumption
        <5> QED
          BY <5>1, <5>3 DEF Served
      <4>2. s < r
        BY <3>1, <3>3, <4>1 DEF Sessions
      <4>3. s \in stranded \/ sock[s] = "closed"
        BY <1>0, <4>1, <4>2 DEF SessionInv, Retired
      <4> QED
        BY <1>1, <2>1, <3>3, <4>3 DEF Write
    <3> QED
      BY <3>2, <3>3
  <2>9. StreamIsALog'
    BY <1>0, <2>1, <2>5, ZenonT(30) DEF MessageInv, StreamIsALog
  <2> QED
    BY <2>6, <2>7, <2>8, <2>9 DEF MessageInv
<1>2. ASSUME NEW s \in Sessions, NEW w \in Senders, Store(s, w)
      PROVE  MessageInv'
  <2> DEFINE e == ev[s][w]
  <2>1. /\ InTransit(s, w) /\ at'[s][w] = "idle"
        /\ \A t \in Sessions, v \in Senders :
             <<t, v>> # <<s, w>> => at'[t][v] = at[t][v] /\ ev'[t][v] = ev[t][v]
    BY <1>0, <1>2 DEF Store, TypesOfPlaces, TypesOfMessages
  <2>2. /\ e \in 1..made /\ origin[e] = s
        /\ \A i \in DOMAIN stream : stream[i] # e
        /\ \A t \in Sessions, v \in Senders :
             (InTransit(t, v) /\ <<t, v>> # <<s, w>>) => ev[t][v] # e
    BY <1>0, <2>1 DEF MessageInv, Transit
  <2>3. \A t \in Sessions, v \in Senders : InTransit(t, v)' =>
          InTransit(t, v) /\ ev'[t][v] = ev[t][v] /\ ev[t][v] # e
    BY <2>1, <2>2
  <2>4. CASE Push(e) /\ excused' = excused \cup Overlapping(e)
    <3>1. /\ e \in Nat /\ stranded' = stranded /\ origin' = origin /\ made' = made
          /\ made \in Nat
      BY <1>0, <1>2, <2>2 DEF Store, server, made
    <3>2. \E t \in Sessions, v \in Senders :
            InTransit(t, v) /\ ev[t][v] = e /\ origin'[e] = t
      BY <2>1, <2>2, <3>1
    <3>3. \A i \in 1..made : origin'[i] = origin[i]
      BY <3>1
    <3>4. e \in 1..made' /\ made <= made' /\ origin' \in Seq(Nat)
      BY <1>0, <2>2, <3>1
    <3> HIDE DEF e
    <3> QED
      BY <1>0, <2>2, <2>3, <2>4, <3>1, <3>2, <3>3, <3>4, StoringStep
  <2>5. CASE stream' = stream /\ excused' = excused
    BY <1>0, <1>2, <2>3, <2>5, SilentStep DEF Store, server
  <2> QED
    BY <1>2, <2>4, <2>5 DEF Store
<1>3. ASSUME PushSentinel
      PROVE  MessageInv'
  <2>1. stranded' = stranded /\ at' = at /\ ev' = ev
    BY <1>3 DEF PushSentinel, sends
  <2>2. CASE made < MaxEvents /\ origin' = Append(origin, 0) /\ Push(made + 1)
             /\ excused' = excused \cup Overlapping(made + 1)
    <3> DEFINE e == made + 1
    <3>1. /\ made \in Nat /\ made' = e /\ origin' \in Seq(Nat) /\ origin'[e] = 0
          /\ \A i \in 1..made : origin'[i] = origin[i]
      BY <1>0, <2>2 DEF made
    <3>2. e \in Nat /\ e \in 1..made' /\ made <= made' /\ e \notin 1..made
      BY <3>1
    <3> HIDE DEF e
    <3>3. \A i \in DOMAIN stream : stream[i] # e
      BY <1>0, <3>2 DEF MessageInv, Stored
    <3>4. \A t \in Sessions, v \in Senders : InTransit(t, v)' =>
            InTransit(t, v) /\ ev'[t][v] = ev[t][v] /\ ev[t][v] # e
      BY <1>0, <2>1, <3>2 DEF MessageInv, Transit
    <3>5. Push(e) /\ excused' = excused \cup Overlapping(e)
      BY <2>2 DEF e
    <3> QED
      BY <1>0, <2>1, <3>1, <3>2, <3>3, <3>4, <3>5, StoringStep
  <2>3. CASE UNCHANGED <<origin, stream, excused>>
    BY <1>0, <2>1, <2>3, SilentStep
  <2> QED
    BY <1>3, <2>2, <2>3 DEF PushSentinel
<1>4. CASE /\ UNCHANGED <<origin, stream, at, ev>>
           /\ stranded \subseteq stranded' /\ excused \subseteq excused'
  BY <1>0, <1>4, SilentStep
<1>5. ASSUME NEW s \in Sessions,
             \/ Connect(s) \/ Prompt(s) \/ RunEnds(s) \/ Leave(s) \/ WriteFails(s)
      PROVE  MessageInv'
  BY <1>4, <1>5 DEF Connect, Prompt, RunEnds, Leave, WriteFails, sends, server
<1>6. ASSUME NEW s \in Sessions, CancelRun(s),
             UNCHANGED <<origin, stream, ev, excused, stranded>>
      PROVE  MessageInv'
  <2>1. \A t \in Sessions, v \in Senders :
          at'[t][v] = at[t][v] \/ (at[t][v] = "storing" /\ at'[t][v] = "cancelled")
    BY <1>0, <1>6 DEF CancelRun, TypesOfPlaces
  <2>2. \A t \in Sessions, v \in Senders :
          InTransit(t, v)' => InTransit(t, v) /\ ev'[t][v] = ev[t][v]
    BY <1>6, <2>1
  <2> QED
    BY <1>0, <1>6, <2>2, SilentStep
<1>7. ASSUME Evict
      PROVE  MessageInv'
  <2>1. old \in Sessions
    BY <1>0, <1>7 DEF Evict, SessionInv, Opened, TypesOfSessions, Sessions
  <2> QED
    BY <1>6, <1>7, <2>1 DEF Evict
<1>8. ASSUME NEW s \in Sessions, Cleanup(s)
      PROVE  MessageInv'
  BY <1>6, <1>8 DEF Cleanup
<1>9. ASSUME NEW s \in Sessions, Resume(s) \/ ReadStream(s) \/ ReplayNext(s)
      PROVE  MessageInv'
  <2>1. /\ UNCHANGED <<origin, stream, stranded>> /\ excused \subseteq excused'
        /\ at[s]["loop"] \in {"idle", "reading", "replaying"}
        /\ \E to \in {"idle", "reading", "replaying"} :
             at' = at \/ at' = [at EXCEPT ![s]["loop"] = to]
        /\ \E a : ev' = ev \/ ev' = [ev EXCEPT ![s]["loop"] = a]
    BY <1>9 DEF Resume, ReadStream, ReplayNext, server
  <2>2. \A t \in Sessions, v \in Senders : <<t, v>> # <<s, "loop">> =>
          at'[t][v] = at[t][v] /\ ev'[t][v] = ev[t][v]
    BY <1>0, <2>1 DEF TypesOfPlaces, TypesOfMessages
  <2>3. at'[s]["loop"] \in {"idle", "reading", "replaying"}
    BY <1>0, <2>1 DEF TypesOfPlaces, Senders
  <2>4. \A t \in Sessions, v \in Senders :
          InTransit(t, v)' => InTransit(t, v) /\ ev'[t][v] = ev[t][v]
    BY <2>2, <2>3
  <2> QED
    BY <1>0, <2>1, <2>4, SilentStep
<1>10. ASSUME NEW s \in Sessions, NEW w \in Senders, CancelledBeforeRedis(s, w)
       PROVE  MessageInv'
  <2>1. /\ UNCHANGED <<origin, stream, stranded, excused>>
        /\ \A t \in Sessions, v \in Senders :
             InTransit(t, v)' => InTransit(t, v) /\ ev'[t][v] = ev[t][v]
    BY <1>0, <1>10 DEF CancelledBeforeRedis, server, TypesOfPlaces, TypesOfMessages
  <2> QED
    BY <1>0, <2>1, SilentStep
<1>11. CASE Receive
  BY <1>4, <1>11 DEF Receive, sends, server
<1>12. CASE UNCHANGED vars
  BY <1>4, <1>12 DEF vars, sends, server
<1> QED
  BY <1>1, <1>2, <1>3, <1>5, <1>7, <1>8, <1>9, <1>10, <1>11, <1>12 DEF Next

-----------------------------------------------------------------------------
(* Resuming: what the client has, will get, and can do without *)

\* The client is connected and its resume has read the stream.
Listening(s) == sock[s] = "live" /\ s \in resumed /\ at[s]["loop"] # "reading"

\* The client's first event, got or under way; what came before is not owed to it.
FirstDue == IF first # 0 THEN first ELSE IF wire # <<>> THEN wire[1] ELSE made + 1

Owed(a) == a > FirstDue /\ a \notin seen \cup excused /\ origin[a] \notin stranded

InStream(a)  == \E i \in DOMAIN stream : stream[i] = a
Before(a, b) == \E i, j \in DOMAIN stream : i < j /\ stream[i] = a /\ stream[j] = b
Under(b)     == \E s \in Sessions, w \in Senders : InTransit(s, w) /\ ev[s][w] = b

\* In the stream before b, or before the place b will have.
Ahead(a, b) == Before(a, b) \/ (InStream(a) /\ Under(b))

OnWire(a)    == \E n \in DOMAIN wire : wire[n] = a
InRest(s, a) == \E n \in DOMAIN rest[s] : rest[s][n] = a

\* Nothing owed to the client is ahead of an event it has got, nor of one it will
\* get but for those it gets earlier.
LastInOrder ==
    \A a \in Nat : Owed(a) => ~Ahead(a, last)
WireInOrder ==
    \A n \in DOMAIN wire, a \in Nat :
        (Owed(a) /\ Ahead(a, wire[n])) => \E m \in 1..(n - 1) : wire[m] = a
RestInOrder ==
    \A s \in Sessions : sock[s] = "live" =>
        \A n \in DOMAIN rest[s], a \in Nat :
            (Owed(a) /\ Ahead(a, rest[s][n])) =>
                OnWire(a) \/ \E m \in 1..(n - 1) : rest[s][m] = a
InOrder == LastInOrder /\ WireInOrder /\ RestInOrder

\* To a client that listens everything owed is on its way.
CaughtUp ==
    \A s \in Sessions : Listening(s) =>
        \A a \in Nat : (Owed(a) /\ InStream(a)) => OnWire(a) \/ InRest(s, a)

\* It hears its own session's messages before they are stored,
Heard ==
    \A s \in Sessions, w \in Senders :
        (InTransit(s, w) /\ sock[s] = "live") => ev[s][w] \in seen \/ OnWire(ev[s][w])

\* and is not owed what other sessions have still under way.
NotOwed ==
    \A s, t \in Sessions, w \in Senders :
        (Listening(s) /\ t # s /\ InTransit(t, w)) =>
            t \in stranded \/ ev[t][w] \in excused \/ ev[t][w] < FirstDue
Reached == CaughtUp /\ Heard /\ NotOwed

\* One tab: the latest socket alone can be open, and frames are on their way only
\* once it listens.
OneTab ==
    /\ \A s, t \in Sessions : (sock[s] = "live" /\ sock[t] # "none") => t <= s
    /\ wire # <<>> => \E s \in Sessions : Listening(s)

\* A resume goes alone, before any prompt, from the last event the client has.
ResumeAlone ==
    \A s \in Sessions :
        /\ at[s]["loop"] \in {"reading", "replaying"} =>
              s \in serving \cap resumed /\ s \notin running /\ at[s]["run"] = "idle"
        /\ s \in serving \ resumed => s \notin running /\ at[s]["run"] = "idle"
        /\ (at[s]["loop"] = "reading" /\ sock[s] = "live") => ev[s]["loop"] = last

\* A session waiting for its takeover has done nothing yet.
AtTheDoor == door # "shut" => ~Served(Current)

TabInv == OneTab /\ ResumeAlone /\ AtTheDoor

\* What is on its way has been made, and what the client has it remembers.
Known ==
    /\ \A n \in DOMAIN wire : wire[n] \in 1..made
    /\ \A s \in Sessions : \A n \in DOMAIN rest[s] : rest[s][n] \in 1..made
    /\ first \in 0..made /\ last \in 0..made /\ seen \subseteq 1..made
    /\ first = 0 <=> last = 0
    /\ last # 0 => last \in seen
    /\ \A s \in Sessions : at[s]["loop"] \in {"reading", "replaying"} => first # 0

ReplayInv == TabInv /\ Known /\ InOrder /\ Reached

-----------------------------------------------------------------------------
(* The tab and what is on its way: preservation *)

\* The client has one tab: a live socket is the current one's.
LEMMA LiveIsCurrent ==
    ASSUME StreamAssumption, Opened, OneTab, NEW s \in Sessions, sock[s] = "live"
    PROVE  s = Current
<1>1. PICK c \in 0..MaxSessions : \A t \in Sessions : sock[t] # "none" <=> t <= c
  BY DEF Opened
<1>2. c \in Sessions /\ sock[c] # "none" /\ s <= c
  BY <1>1 DEF Sessions, StreamAssumption
<1>3. c <= s
  BY <1>2 DEF OneTab
<1>4. s = c
  BY <1>2, <1>3 DEF Sessions
<1> QED
  BY <1>1, <1>4, CurrentIs

\* Who is connected hears nothing before it has resumed.
LEMMA SilentBefore ==
    ASSUME OneTab, NEW s \in Sessions, sock[s] = "live", ~Listening(s)
    PROVE  wire = <<>>
<1> SUFFICES ASSUME wire # <<>>
             PROVE  FALSE
  OBVIOUS
<1>1. PICK t \in Sessions : Listening(t)
  BY DEF OneTab
<1>2. t = s
  BY <1>1 DEF OneTab, Listening, Sessions
<1> QED
  BY <1>1, <1>2

\* Who sends has resumed, and is not in the middle of it.
LEMMA SenderListens ==
    ASSUME ResumeAlone, TypesOfReplays, NEW s \in Sessions, NEW w \in Senders, MaySend(s, w)
    PROVE  at[s]["loop"] \notin {"reading", "replaying"} /\ s \in resumed /\ rest[s] = <<>>
BY DEF ResumeAlone, MaySend, Senders, TypesOfReplays

\* While the client waits at the door nothing of the next session has begun.
LEMMA DoorKept ==
    ASSUME StreamAssumption, AtTheDoor, Opened, TypesOfSessions,
           \A s \in Sessions : sock'[s] # "none" <=> sock[s] # "none",
           door' # "shut" => door # "shut",
           \A s \in Sessions : Served(s)' => Served(s)
    PROVE  AtTheDoor'
<1> SUFFICES ASSUME door' # "shut"
             PROVE  ~Served(Current)'
  BY DEF AtTheDoor
<1>1. PICK c \in 0..MaxSessions : \A s \in Sessions : sock[s] # "none" <=> s <= c
  BY DEF Opened
<1>2. old \in Sessions /\ sock[old] # "none"
  BY DEF Opened, TypesOfSessions, Sessions
<1>3. Current \in Sessions
  <2>1. c \in Sessions
    BY <1>1, <1>2 DEF Sessions
  <2>2. Current = c
    BY <1>1, CurrentIs
  <2> QED
    BY <2>1, <2>2
<1>4. Current' = Current
  BY SameCurrent
<1>5. ~Served(Current)
  BY DEF AtTheDoor
<1> QED
  BY <1>3, <1>4, <1>5 DEF Served

\* Every step keeps the client with one tab and what it heard.
LEMMA TabStep == IInv /\ IInv' /\ ReplayInv /\ [Next]_vars => TabInv'
<1> SUFFICES ASSUME IInv, IInv', ReplayInv, [Next]_vars
             PROVE  TabInv'
  OBVIOUS
<1> USE StreamAssumption
<1>0. /\ TypesOfSessions /\ TypesOfPlaces /\ TypesOfReplays /\ TypesOfMessages
      /\ TypesOfClient /\ Opened /\ Transit
  BY TypesSplit DEF IInv
<1>a. OneTab /\ ResumeAlone /\ AtTheDoor /\ Known
  BY DEF ReplayInv, TabInv
<1>1. ASSUME NEW s \in Sessions, Connect(s)
      PROVE  TabInv'
  <2>1. PICK c \in 0..MaxSessions : \A t \in Sessions : sock[t] # "none" <=> t <= c
    BY <1>0 DEF Opened
  <2>2. s = c + 1 /\ c \in Nat
    <3>1. Current = c
      BY <2>1, CurrentIs
    <3> QED
      BY <1>1, <3>1 DEF Connect, StreamAssumption
  <2>3. /\ sock[s] = "none" /\ sock'[s] = "live"
        /\ \A t \in Sessions : t # s => sock'[t] = sock[t]
    BY <1>0, <1>1, <2>1, <2>2 DEF Connect, TypesOfSessions, Sessions
  <2>4. \A t \in Sessions : t # s => sock[t] # "live"
    <3> SUFFICES ASSUME NEW t \in Sessions, sock[t] = "live"
                 PROVE  FALSE
      BY <2>3
    <3>1. t = Current /\ Current # 0
      BY <1>0, <1>a, LiveIsCurrent DEF Sessions
    <3> QED
      BY <1>1, <3>1 DEF Connect
  <2>5. ~Served(s)
    BY <1>0, <2>3 DEF Opened
  <2>6. /\ running' = running /\ resumed' = resumed /\ at' = at /\ ev' = ev /\ rest' = rest
        /\ last' = last /\ wire' = <<>> /\ origin' = origin
        /\ serving' \subseteq serving \cup {s} /\ serving \subseteq serving'
    BY <1>1 DEF Connect, sends, client
  <2>7. at[s]["run"] = "idle" /\ at[s]["loop"] \notin {"reading", "replaying"}
    <3>1. at[s]["loop"] \notin {"reading", "replaying"}
      BY <1>a, <2>5 DEF ResumeAlone, Served
    <3>2. ~InTransit(s, "run")
      <4> SUFFICES ASSUME InTransit(s, "run")
                   PROVE  FALSE
        OBVIOUS
      <4>1. ev[s]["run"] \in DOMAIN origin /\ origin[ev[s]["run"]] = s
        BY <1>0 DEF Transit, Senders, made, TypesOfMessages
      <4> QED
        BY <2>5, <4>1 DEF Served
    <3> QED
      BY <1>0, <3>1, <3>2 DEF TypesOfPlaces, InTransit, Senders
  <2>8. OneTab'
    BY <1>0, <2>1, <2>2, <2>3, <2>4, <2>6 DEF OneTab, Sessions
  <2>9. ResumeAlone'
    <3> SUFFICES ASSUME NEW t \in Sessions
                 PROVE  /\ at'[t]["loop"] \in {"reading", "replaying"} =>
                             t \in serving' \cap resumed' /\ t \notin running' /\ at'[t]["run"] = "idle"
                        /\ t \in serving' \ resumed' => t \notin running' /\ at'[t]["run"] = "idle"
                        /\ (at'[t]["loop"] = "reading" /\ sock'[t] = "live") => ev'[t]["loop"] = last'
      BY DEF ResumeAlone
    <3>1. CASE t = s
      BY <2>5, <2>6, <2>7, <3>1 DEF Served
    <3>2. CASE t # s
      BY <1>a, <2>3, <2>6, <3>2 DEF ResumeAlone
    <3> QED
      BY <3>1, <3>2
  <2>10. AtTheDoor'
    <3> SUFFICES ASSUME door' # "shut"
                 PROVE  ~Served(Current)'
      BY DEF AtTheDoor
    <3>1. PICK d \in 0..MaxSessions : \A t \in Sessions : sock'[t] # "none" <=> t <= d
      BY DEF IInv, Opened
    <3>2. d = s
      BY <2>1, <2>2, <2>3, <3>1 DEF Sessions, StreamAssumption
    <3>3. \A t \in Sessions : sock'[t] # "none" /\ (\A r \in Sessions : r > t => sock'[r] = "none") => t = s
      BY <3>1, <3>2 DEF Sessions
    <3>4. Current' = s
      BY <3>1, <3>2, <3>3 DEF Current, Sessions
    <3>5. serving' = serving
      BY <1>1 DEF Connect
    <3> QED
      BY <2>5, <2>6, <3>4, <3>5 DEF Served
  <2> QED
    BY <2>8, <2>9, <2>10 DEF TabInv
<1>b. \A s, t \in Sessions : (Listening(s) /\ sock[t] # "none") => t <= s
  BY <1>a DEF OneTab, Listening
<1>2. ASSUME Evict
      PROVE  TabInv'
  <2>1. old \in Sessions /\ sock[old] # "none" /\ door # "shut" /\ door' = "shut"
    BY <1>0, <1>2 DEF Evict, Opened, TypesOfSessions, Sessions
  <2>2. sock'[old] = "closed" /\ \A t \in Sessions : t # old => sock'[t] = sock[t]
    BY <1>0, <1>2, <2>1 DEF Evict, TypesOfSessions
  <2>3. PICK c \in 0..MaxSessions : \A t \in Sessions : sock[t] # "none" <=> t <= c
    BY <1>0 DEF Opened
  <2>4. Current = c /\ c \in Sessions /\ sock[c] # "none"
    BY <2>1, <2>3, CurrentIs DEF Sessions, StreamAssumption
  <2>5. ~Served(c)
    BY <1>a, <2>1, <2>4 DEF AtTheDoor
  <2>6. /\ serving' = serving \cup {c} /\ resumed' = resumed /\ running' = running \ {old}
        /\ ev' = ev /\ rest' = rest /\ wire' = wire /\ last' = last
        /\ \A t \in Sessions, w \in Senders :
             at'[t][w] = at[t][w] \/ (at[t][w] = "storing" /\ at'[t][w] = "cancelled")
    BY <1>0, <1>2, <2>4 DEF Evict, CancelRun, client, TypesOfPlaces
  <2>7. at[c]["run"] = "idle"
    <3> SUFFICES ASSUME InTransit(c, "run")
                 PROVE  FALSE
      BY <1>0, <2>4 DEF TypesOfPlaces, InTransit, Senders
    <3>1. ev[c]["run"] \in DOMAIN origin /\ origin[ev[c]["run"]] = c
      BY <1>0, <2>4 DEF Transit, Senders, made, TypesOfMessages
    <3> QED
      BY <2>5, <3>1 DEF Served
  <2>8. ~Listening(old)
    <3> SUFFICES ASSUME Listening(old)
                 PROVE  FALSE
      OBVIOUS
    <3>1. c <= old /\ old <= c
      BY <1>b, <2>1, <2>3, <2>4
    <3>2. old = c
      BY <2>1, <2>4, <3>1 DEF Sessions
    <3> QED
      BY <2>5, <3>2 DEF Listening, Served
  <2>9. OneTab'
    <3>1. \A t \in Sessions : Listening(t) => Listening(t)'
      BY <2>2, <2>6, <2>8 DEF Listening, Senders
    <3> QED
      BY <1>a, <2>1, <2>2, <2>6, <3>1 DEF OneTab
  <2>10. ResumeAlone'
    <3> SUFFICES ASSUME NEW t \in Sessions
                 PROVE  /\ at'[t]["loop"] \in {"reading", "replaying"} =>
                             t \in serving' \cap resumed' /\ t \notin running' /\ at'[t]["run"] = "idle"
                        /\ t \in serving' \ resumed' => t \notin running' /\ at'[t]["run"] = "idle"
                        /\ (at'[t]["loop"] = "reading" /\ sock'[t] = "live") => ev'[t]["loop"] = last'
      BY DEF ResumeAlone
    <3>1. /\ at[t]["run"] = "idle" => at'[t]["run"] = "idle"
          /\ at'[t]["loop"] \in {"reading", "replaying"} => at'[t]["loop"] = at[t]["loop"]
      BY <2>6 DEF Senders
    <3>2. CASE t = c
      BY <1>a, <2>2, <2>5, <2>6, <2>7, <3>1, <3>2 DEF Served, ResumeAlone
    <3>3. CASE t # c
      BY <1>a, <2>2, <2>6, <3>1, <3>3 DEF ResumeAlone
    <3> QED
      BY <3>2, <3>3
  <2>11. AtTheDoor'
    BY <2>1 DEF AtTheDoor
  <2> QED
    BY <2>9, <2>10, <2>11 DEF TabInv
<1>3. ASSUME NEW s \in Sessions, Leave(s) \/ Cleanup(s)
      PROVE  TabInv'
  <2>1. /\ sock[s] # "none" /\ sock'[s] \in {"gone", "closed"}
        /\ \A t \in Sessions : t # s => sock'[t] = sock[t]
    BY <1>0, <1>3 DEF Leave, Cleanup, TypesOfSessions
  <2>2. /\ door' = door /\ ev' = ev /\ rest' = rest /\ last' = last /\ origin' = origin
        /\ running' \subseteq running
        /\ \/ serving' = serving /\ resumed' = resumed
           \/ serving' = serving \ {s} /\ resumed' = resumed \ {s} /\ at[s]["loop"] = "idle"
        /\ wire' = <<>> \/ (wire' = wire /\ sock[s] # "live")
        /\ \A t \in Sessions, w \in Senders :
             at'[t][w] = at[t][w] \/ (at[t][w] = "storing" /\ at'[t][w] = "cancelled")
    BY <1>0, <1>3 DEF Leave, Cleanup, CancelRun, client, server, sends, TypesOfPlaces
  <2>3. \A t \in Sessions : sock'[t] # "none" <=> sock[t] # "none"
    BY <2>1
  <2>4. OneTab'
    <3>1. \A t \in Sessions : (Listening(t) /\ t # s) => Listening(t)'
      BY <2>1, <2>2 DEF Listening, Senders
    <3> QED
      BY <1>a, <2>1, <2>2, <3>1 DEF OneTab, Listening
  <2>5. ResumeAlone'
    <3> SUFFICES ASSUME NEW t \in Sessions
                 PROVE  /\ at'[t]["loop"] \in {"reading", "replaying"} =>
                             t \in serving' \cap resumed' /\ t \notin running' /\ at'[t]["run"] = "idle"
                        /\ t \in serving' \ resumed' => t \notin running' /\ at'[t]["run"] = "idle"
                        /\ (at'[t]["loop"] = "reading" /\ sock'[t] = "live") => ev'[t]["loop"] = last'
      BY DEF ResumeAlone
    <3>1. /\ at[t]["run"] = "idle" => at'[t]["run"] = "idle"
          /\ at'[t]["loop"] \in {"reading", "replaying"} => at'[t]["loop"] = at[t]["loop"]
      BY <2>2 DEF Senders
    <3>2. at'[t]["loop"] \in {"reading", "replaying"} => (t \in serving <=> t \in serving') /\ (t \in resumed <=> t \in resumed')
      BY <2>2, <3>1
    <3> QED
      BY <1>a, <2>1, <2>2, <3>1, <3>2 DEF ResumeAlone
  <2>6. AtTheDoor'
    <3>1. \A t \in Sessions : Served(t)' => Served(t)
      BY <2>2 DEF Served
    <3> QED
      BY <1>0, <1>a, <2>2, <2>3, <3>1, DoorKept
  <2> QED
    BY <2>4, <2>5, <2>6 DEF TabInv
<1>4. ASSUME NEW s \in Sessions, Prompt(s) \/ RunEnds(s) \/ WriteFails(s)
      PROVE  TabInv'
  <2>1. /\ UNCHANGED <<sock, serving, resumed, door, at, ev, wire, last, origin>>
        /\ \/ running' = running \cup {s} /\ s \in serving \cap resumed /\ at[s]["loop"] = "idle"
           \/ running' \subseteq running
    BY <1>4 DEF Prompt, RunEnds, WriteFails, sends, client
  <2>2. OneTab'
    BY <1>a, <2>1 DEF OneTab, Listening
  <2>3. ResumeAlone'
    BY <1>a, <2>1 DEF ResumeAlone
  <2>4. AtTheDoor'
    <3>1. \A t \in Sessions : Served(t)' => Served(t)
      BY <2>1 DEF Served
    <3> QED
      BY <1>0, <1>a, <2>1, <3>1, DoorKept
  <2> QED
    BY <2>2, <2>3, <2>4 DEF TabInv
\* Steps in which one sender moves.
<1>5. ASSUME NEW s \in Sessions, NEW w \in Senders,
             UNCHANGED <<sock, serving, running, door, last>>,
             \A t \in Sessions, v \in Senders :
                 <<t, v>> # <<s, w>> => at'[t][v] = at[t][v] /\ ev'[t][v] = ev[t][v],
             resumed' = resumed \/ (resumed' = resumed \cup {s} /\ s \in serving),
             w = "run" => at'[s]["run"] = "idle" \/ (s \in resumed /\ at[s]["loop"] \notin {"reading", "replaying"}),
             w = "loop" => /\ at'[s]["loop"] \in {"reading", "replaying"} =>
                                /\ s \in serving \cap resumed'
                                /\ s \in resumed => at[s]["loop"] \in {"reading", "replaying"}
                           /\ (at'[s]["loop"] = "reading" /\ sock[s] = "live") => ev'[s]["loop"] = last
      PROVE  ResumeAlone'
  <2> SUFFICES ASSUME NEW t \in Sessions
               PROVE  /\ at'[t]["loop"] \in {"reading", "replaying"} =>
                           t \in serving' \cap resumed' /\ t \notin running' /\ at'[t]["run"] = "idle"
                      /\ t \in serving' \ resumed' => t \notin running' /\ at'[t]["run"] = "idle"
                      /\ (at'[t]["loop"] = "reading" /\ sock'[t] = "live") => ev'[t]["loop"] = last'
    BY DEF ResumeAlone
  <2>1. CASE t # s
    BY <1>a, <1>5, <2>1 DEF ResumeAlone, Senders
  <2>2. CASE t = s /\ w = "run"
    BY <1>a, <1>5, <2>2 DEF ResumeAlone, Senders
  <2>3. CASE t = s /\ w = "loop"
    BY <1>a, <1>5, <2>3 DEF ResumeAlone, Senders
  <2> QED
    BY <2>1, <2>2, <2>3 DEF Senders
<1>6. ASSUME NEW s \in Sessions, Resume(s)
      PROVE  TabInv'
  <2>1. /\ UNCHANGED <<sock, serving, running, door, last, origin, wire>>
        /\ sock[s] = "live" /\ s \in serving \ resumed /\ resumed' = resumed \cup {s}
        /\ at[s]["loop"] = "idle"
    BY <1>6 DEF Resume, server, client
  <2>2. /\ \A t \in Sessions, v \in Senders :
             <<t, v>> # <<s, "loop">> => at'[t][v] = at[t][v] /\ ev'[t][v] = ev[t][v]
        /\ \/ at'[s]["loop"] = "idle"
           \/ at'[s]["loop"] = "reading" /\ ev'[s]["loop"] = last
    BY <1>0, <1>6 DEF Resume, TypesOfPlaces, TypesOfMessages, Senders
  <2>3. wire = <<>>
    BY <1>a, <2>1, SilentBefore DEF Listening
  <2>4. OneTab'
    BY <1>a, <2>1, <2>3 DEF OneTab
  <2>5. ResumeAlone'
    BY <1>5, <2>1, <2>2 DEF Senders
  <2>6. AtTheDoor'
    <3>1. \A t \in Sessions : Served(t)' => Served(t)
      BY <2>1 DEF Served
    <3> QED
      BY <1>0, <1>a, <2>1, <3>1, DoorKept
  <2> QED
    BY <2>4, <2>5, <2>6 DEF TabInv
<1>7. ASSUME NEW s \in Sessions, ReadStream(s) \/ ReplayNext(s)
      PROVE  TabInv'
  <2>1. /\ UNCHANGED <<sock, serving, running, resumed, door, last, origin>>
        /\ at[s]["loop"] \in {"reading", "replaying"}
    BY <1>7 DEF ReadStream, ReplayNext, server, client
  <2>2. /\ \A t \in Sessions, v \in Senders :
             <<t, v>> # <<s, "loop">> => at'[t][v] = at[t][v] /\ ev'[t][v] = ev[t][v]
        /\ at'[s]["loop"] \in {"idle", "replaying"}
    BY <1>0, <1>7 DEF ReadStream, ReplayNext, TypesOfPlaces, TypesOfMessages, Senders
  <2>3. s \in serving \cap resumed
    BY <1>a, <2>1 DEF ResumeAlone
  <2>4. OneTab'
    <3>1. \A t \in Sessions : Listening(t) => Listening(t)'
      BY <2>1, <2>2 DEF Listening, Senders
    <3>2. wire' = wire \/ Listening(s)
      <4>1. CASE ReadStream(s)
        BY <4>1 DEF ReadStream
      <4>2. CASE ReplayNext(s)
        BY <2>1, <2>3, <4>2 DEF ReplayNext, Deliver, Listening
      <4> QED
        BY <1>7, <4>1, <4>2
    <3> QED
      BY <1>a, <2>1, <3>1, <3>2 DEF OneTab
  <2>5. ResumeAlone'
    BY <1>5, <2>1, <2>2, <2>3 DEF Senders
  <2>6. AtTheDoor'
    <3>1. \A t \in Sessions : Served(t)' => Served(t)
      BY <2>1 DEF Served
    <3> QED
      BY <1>0, <1>a, <2>1, <3>1, DoorKept
  <2> QED
    BY <2>4, <2>5, <2>6 DEF TabInv
<1>8. ASSUME NEW s \in Sessions, NEW w \in Senders, Write(s, w)
      PROVE  TabInv'
  <2>1. /\ UNCHANGED <<sock, serving, running, resumed, door, last>>
        /\ origin' = Append(origin, s)
    BY <1>8 DEF Write, server, client
  <2>2. /\ at[s]["loop"] \notin {"reading", "replaying"} /\ s \in resumed
        /\ at[s][w] = "idle" /\ at'[s][w] = "storing"
        /\ \A t \in Sessions, v \in Senders :
             <<t, v>> # <<s, w>> => at'[t][v] = at[t][v] /\ ev'[t][v] = ev[t][v]
    BY <1>0, <1>8, <1>a, SenderListens DEF Write, MaySend, TypesOfPlaces, TypesOfMessages
  <2>3. OneTab'
    <3>1. \A t \in Sessions : Listening(t) => Listening(t)'
      BY <2>1, <2>2 DEF Listening, Senders
    <3>2. wire' = wire \/ Listening(s)
      BY <1>8, <2>2 DEF Write, Deliver, Listening
    <3> QED
      BY <1>a, <2>1, <3>1, <3>2 DEF OneTab
  <2>4. ResumeAlone'
    BY <1>5, <2>1, <2>2 DEF Senders
  <2>5. AtTheDoor'
    <3>1. Served(s) /\ s \in Nat /\ origin \in Seq(Nat)
      BY <1>0, <2>2 DEF Served, Sessions, TypesOfMessages, StreamAssumption
    <3>2. \A t \in Sessions : Served(t)' => Served(t)
      BY <2>1, <3>1, ServedKept
    <3> QED
      BY <1>0, <1>a, <2>1, <3>2, DoorKept
  <2> QED
    BY <2>3, <2>4, <2>5 DEF TabInv
<1>9. ASSUME NEW s \in Sessions, NEW w \in Senders, Store(s, w) \/ CancelledBeforeRedis(s, w)
      PROVE  TabInv'
  <2>1. /\ UNCHANGED <<sock, serving, running, resumed, door, last, origin, wire>>
        /\ InTransit(s, w) /\ at'[s][w] = "idle"
        /\ \A t \in Sessions, v \in Senders :
             <<t, v>> # <<s, w>> => at'[t][v] = at[t][v] /\ ev'[t][v] = ev[t][v]
    BY <1>0, <1>9 DEF Store, CancelledBeforeRedis, InTransit, server, client, TypesOfPlaces, TypesOfMessages
  <2>2. OneTab'
    <3>1. \A t \in Sessions : Listening(t) => Listening(t)'
      BY <2>1 DEF Listening, Senders
    <3> QED
      BY <1>a, <2>1, <3>1 DEF OneTab
  <2>3. ResumeAlone'
    BY <1>5, <2>1 DEF Senders
  <2>4. AtTheDoor'
    <3>1. \A t \in Sessions : Served(t)' => Served(t)
      BY <2>1 DEF Served
    <3> QED
      BY <1>0, <1>a, <2>1, <3>1, DoorKept
  <2> QED
    BY <2>2, <2>3, <2>4 DEF TabInv
<1>10. ASSUME PushSentinel
       PROVE  TabInv'
  <2>1. /\ UNCHANGED <<sock, serving, running, resumed, last, wire, at, ev>>
        /\ door # "shut" /\ (origin' = origin \/ origin' = Append(origin, 0))
    BY <1>10 DEF PushSentinel, sends, client
  <2>2. OneTab' /\ ResumeAlone'
    BY <1>a, <2>1 DEF OneTab, ResumeAlone, Listening
  <2>3. AtTheDoor'
    <3>1. origin \in Seq(Nat)
      BY <1>0 DEF TypesOfMessages, StreamAssumption
    <3>2. \A t \in Sessions : Served(t)' => Served(t) \/ t = 0
      BY <2>1, <3>1, ServedKept
    <3>3. \A t \in Sessions : Served(t)' => Served(t)
      BY <3>2 DEF Sessions
    <3> QED
      BY <1>0, <1>a, <2>1, <3>3, DoorKept
  <2> QED
    BY <2>2, <2>3 DEF TabInv
<1>11. ASSUME Receive
       PROVE  TabInv'
  <2>1. UNCHANGED <<sock, serving, running, resumed, door, at, ev, origin>> /\ wire # <<>>
    BY <1>11 DEF Receive, server, sends
  <2>2. OneTab'
    BY <1>a, <2>1 DEF OneTab, Listening
  <2>3. ResumeAlone'
    <3>1. \A s \in Sessions : ~(at[s]["loop"] = "reading" /\ sock[s] = "live")
      BY <1>a, <2>1, SilentBefore DEF Listening
    <3> QED
      BY <1>a, <2>1, <3>1 DEF ResumeAlone
  <2>4. AtTheDoor'
    <3>1. \A t \in Sessions : Served(t)' => Served(t)
      BY <2>1 DEF Served
    <3> QED
      BY <1>0, <1>a, <2>1, <3>1, DoorKept
  <2> QED
    BY <2>2, <2>3, <2>4 DEF TabInv
<1>12. CASE UNCHANGED vars
  <2>1. UNCHANGED <<sock, serving, running, resumed, door, at, ev, origin, wire, last>>
    BY <1>12 DEF vars, server, sends, client
  <2>2. \A t \in Sessions : Served(t)' => Served(t)
    BY <2>1 DEF Served
  <2>3. AtTheDoor'
    BY <1>0, <1>a, <2>1, <2>2, DoorKept
  <2> QED
    BY <1>a, <2>1, <2>3 DEF TabInv, OneTab, ResumeAlone, Listening
<1> QED
  BY <1>1, <1>2, <1>3, <1>4, <1>6, <1>7, <1>8, <1>9, <1>10, <1>11, <1>12 DEF Next

\* A replay is a suffix of the stream, from after the anchor if it is there.
LEMMA ReadWhere ==
    ASSUME stream \in Seq(Nat), NEW a,
           \A i, j \in DOMAIN stream : i < j => stream[i] # stream[j]
    PROVE  \E j \in 0..Len(stream) :
               /\ EventsAfter(a) \in Seq(Nat)
               /\ Len(EventsAfter(a)) = Len(stream) - j
               /\ \A n \in 1..(Len(stream) - j) : EventsAfter(a)[n] = stream[j + n]
               /\ j # 0 => stream[j] = a
<1> DEFINE hits == { i \in DOMAIN stream : stream[i] = a }
<1>1. CASE hits = {}
  <2>1. EventsAfter(a) = stream
    BY <1>1 DEF EventsAfter
  <2>2. 0 \in 0..Len(stream)
    OBVIOUS
  <2> QED
    BY <2>1, <2>2
<1>2. CASE hits # {}
  <2>1. PICK h \in hits : TRUE
    BY <1>2
  <2>2. ASSUME NEW i \in hits
        PROVE  i = h
    <3>1. i \in 1..Len(stream) /\ h \in 1..Len(stream) /\ stream[i] = stream[h]
      OBVIOUS
    <3> QED
      BY <3>1
  <2>3. Min(hits) = h
    BY <2>1, <2>2 DEF Min
  <2>4. EventsAfter(a) = SubSeq(stream, h + 1, Len(stream))
    BY <1>2, <2>3 DEF EventsAfter
  <2>5. h \in 1..Len(stream) /\ stream[h] = a
    OBVIOUS
  <2> HIDE DEF hits
  <2> DEFINE t == SubSeq(stream, h + 1, Len(stream))
  <2>6. t \in Seq(Nat) /\ Len(t) = Len(stream) - h
    BY <2>5
  <2>7. \A n \in 1..(Len(stream) - h) : t[n] = stream[h + n]
    BY <2>5
  <2>8. EventsAfter(a) = t
    BY <2>4
  <2> HIDE DEF t
  <2>9. h \in 0..Len(stream)
    BY <2>5
  <2> WITNESS h \in 0..Len(stream)
  <2> QED
    BY <2>5, <2>6, <2>7, <2>8
<1> QED
  BY <1>1, <1>2

\* Every step keeps what the client knows and the log's order.
LEMMA KnownStep == IInv /\ ReplayInv /\ [Next]_vars => Known'
<1> SUFFICES ASSUME IInv, ReplayInv, [Next]_vars
             PROVE  Known'
  OBVIOUS
<1> USE StreamAssumption
<1>0. /\ TypesOfSessions /\ TypesOfPlaces /\ TypesOfReplays /\ TypesOfMessages
      /\ TypesOfClient /\ Transit /\ Stored /\ StreamIsALog /\ Known /\ ResumeAlone
      /\ made \in Nat
  BY TypesSplit DEF IInv, ReplayInv, TabInv, TypesOfMessages, made
\* Steps in which nothing is heard.
<1>1. ASSUME UNCHANGED <<client>>, made' \in Nat, made <= made',
             wire' \in {wire, <<>>} \cup { Append(wire, x) : x \in 1..made' },
             \A s \in Sessions : \A n \in DOMAIN rest'[s] : rest'[s][n] \in 1..made,
             \A s \in Sessions : at'[s]["loop"] \in {"reading", "replaying"} =>
                                    at[s]["loop"] \in {"reading", "replaying"} \/ last # 0
      PROVE  Known'
  <2>1. \A x \in 0..made : x \in 0..made' /\ (x # 0 => x \in 1..made')
    BY <1>0, <1>1
  <2>2. \A n \in DOMAIN wire' : wire'[n] \in 1..made'
    <3>1. wire \in Seq(Events)
      BY <1>0 DEF TypesOfClient
    <3>2. \A n \in DOMAIN wire : wire[n] \in 1..made'
      BY <1>0, <2>1 DEF Known
    <3>3. ASSUME NEW x \in 1..made', wire' = Append(wire, x)
          PROVE  \A n \in DOMAIN wire' : wire'[n] \in 1..made'
      BY <3>1, <3>2, <3>3
    <3> QED
      BY <1>1, <3>2, <3>3
  <2>3. \A s \in Sessions : \A n \in DOMAIN rest'[s] : rest'[s][n] \in 1..made'
    BY <1>1, <2>1
  <2>4. first' \in 0..made' /\ last' \in 0..made' /\ seen' \subseteq 1..made'
    BY <1>0, <1>1, <2>1 DEF Known, client
  <2>5. \A s \in Sessions : at'[s]["loop"] \in {"reading", "replaying"} => first' # 0
    BY <1>0, <1>1 DEF Known, client
  <2> QED
    BY <1>0, <1>1, <2>2, <2>3, <2>4, <2>5 DEF Known, client
<1>2. ASSUME UNCHANGED <<client, rest>>, made' = made, wire' = wire \/ wire' = <<>>,
             \A s \in Sessions : at'[s]["loop"] \in {"reading", "replaying"} =>
                                    at[s]["loop"] \in {"reading", "replaying"} \/ last # 0
      PROVE  Known'
  BY <1>0, <1>1, <1>2 DEF Known
<1>3. ASSUME NEW s \in Sessions,
             Connect(s) \/ Prompt(s) \/ RunEnds(s) \/ WriteFails(s) \/ Leave(s)
      PROVE  Known'
  <2>1. /\ client' = client /\ rest' = rest /\ made' = made /\ at' = at
        /\ wire' = wire \/ wire' = <<>>
    BY <1>3 DEF Connect, Prompt, RunEnds, WriteFails, Leave, sends, made
  <2> QED
    BY <1>2, <2>1
<1>4. ASSUME NEW s \in Sessions, CancelRun(s), UNCHANGED <<client, rest, wire, origin>>
      PROVE  Known'
  <2>1. \A t \in Sessions : at'[t]["loop"] \in {"reading", "replaying"} => at'[t]["loop"] = at[t]["loop"]
    BY <1>0, <1>4 DEF CancelRun, TypesOfPlaces, Senders
  <2> QED
    BY <1>2, <1>4, <2>1 DEF made
<1>5. ASSUME Evict
      PROVE  Known'
  <2>1. old \in Sessions
    BY <1>0, <1>5 DEF Evict, IInv, Opened, TypesOfSessions, Sessions
  <2> QED
    BY <1>4, <1>5, <2>1 DEF Evict
<1>6. ASSUME NEW s \in Sessions, Cleanup(s)
      PROVE  Known'
  BY <1>4, <1>6 DEF Cleanup
<1>7. ASSUME NEW s \in Sessions, Resume(s)
      PROVE  Known'
  <2>1. /\ client' = client /\ rest' = rest /\ made' = made /\ wire' = wire
        /\ at' = at \/ last # 0
    BY <1>7 DEF Resume, made
  <2> QED
    BY <1>2, <2>1
<1>8. ASSUME NEW s \in Sessions, ReadStream(s)
      PROVE  Known'
  <2> DEFINE found == EventsAfter(ev[s]["loop"])
  <2>1. stream \in Seq(Nat)
    BY <1>0 DEF TypesOfMessages, Events, StreamAssumption
  <2>2. \A n \in DOMAIN found : found[n] \in 1..made
    <3>1. PICK j \in 0..Len(stream) :
             /\ found \in Seq(Nat)
             /\ Len(found) = Len(stream) - j
             /\ \A n \in 1..(Len(stream) - j) : found[n] = stream[j + n]
      BY <1>0, <2>1, ReadWhere DEF StreamIsALog
    <3> HIDE DEF found
    <3>2. ASSUME NEW n \in DOMAIN found
          PROVE  found[n] \in 1..made
      <4>a. DOMAIN found = 1..Len(found)
        BY <3>1
      <4>b. Len(stream) \in Nat
        BY <2>1
      <4>1. n \in 1..(Len(stream) - j) /\ j + n \in 1..Len(stream)
        <5> DEFINE m == Len(stream)
        <5>1. n \in 1..(m - j) /\ m \in Nat /\ j \in 0..m
          BY <3>1, <4>a, <4>b
        <5> HIDE DEF m
        <5>2. n \in 1..(m - j) /\ j + n \in 1..m
          BY <5>1
        <5> QED
          BY <5>2 DEF m
      <4>2. stream[j + n] \in 1..made
        BY <1>0, <2>1, <4>1 DEF Stored
      <4> QED
        BY <3>1, <4>1, <4>2
    <3> QED
      BY <3>2
  <2>3. /\ client' = client /\ made' = made /\ wire' = wire
        /\ rest' = rest \/ rest' = [rest EXCEPT ![s] = found]
        /\ at[s]["loop"] = "reading"
    BY <1>8 DEF ReadStream, made
  <2>4. \A t \in Sessions : \A n \in DOMAIN rest'[t] : rest'[t][n] \in 1..made
    <3> HIDE DEF found
    <3> QED
      BY <1>0, <2>2, <2>3 DEF Known, TypesOfReplays
  <2>5. \A t \in Sessions : t # s => at'[t]["loop"] = at[t]["loop"]
    BY <1>0, <1>8 DEF ReadStream, TypesOfPlaces, Senders
  <2> HIDE DEF found
  <2> QED
    BY <1>0, <1>1, <2>3, <2>4, <2>5
<1>9. ASSUME NEW s \in Sessions, ReplayNext(s)
      PROVE  Known'
  <2>1. rest[s] \in Seq(Events) /\ rest[s] # <<>> /\ at[s]["loop"] = "replaying"
    BY <1>0, <1>9 DEF ReplayNext, TypesOfReplays
  <2>2. Head(rest[s]) \in 1..made
    <3>1. 1 \in DOMAIN rest[s] /\ Head(rest[s]) = rest[s][1]
      BY <2>1
    <3> QED
      BY <1>0, <3>1 DEF Known
  <2>3. /\ client' = client /\ made' = made
        /\ wire' = wire \/ wire' = Append(wire, Head(rest[s]))
        /\ rest' = [rest EXCEPT ![s] = Tail(rest[s])] \/ rest' = [rest EXCEPT ![s] = <<>>]
    BY <1>9 DEF ReplayNext, Deliver, made
  <2>4. \A n \in DOMAIN Tail(rest[s]) : Tail(rest[s])[n] \in 1..made
    <3> DEFINE q == rest[s]
    <3>1. \A n \in 1..Len(q) : q[n] \in 1..made
      BY <1>0, <2>1 DEF Known
    <3>2. q \in Seq(Events) /\ q # <<>>
      BY <2>1
    <3> HIDE DEF q
    <3>3. \A n \in 1..Len(Tail(q)) : Tail(q)[n] \in 1..made
      BY <3>1, <3>2
    <3>4. Tail(q) \in Seq(Events)
      BY <3>2
    <3> QED
      BY <3>3, <3>4 DEF q
  <2>5. \A t \in Sessions : \A n \in DOMAIN rest'[t] : rest'[t][n] \in 1..made
    <3> DEFINE q == Tail(rest[s])
    <3>1. \A n \in DOMAIN q : q[n] \in 1..made
      BY <2>4
    <3>2. rest' = [rest EXCEPT ![s] = q] \/ rest' = [rest EXCEPT ![s] = <<>>]
      BY <2>3
    <3> HIDE DEF q
    <3> QED
      BY <1>0, <3>1, <3>2 DEF Known, TypesOfReplays
  <2>6. \A t \in Sessions : t # s => at'[t]["loop"] = at[t]["loop"]
    BY <1>0, <1>9 DEF ReplayNext, TypesOfPlaces, Senders
  <2> QED
    BY <1>0, <1>1, <2>1, <2>2, <2>3, <2>5, <2>6
<1>10. ASSUME NEW s \in Sessions, NEW w \in Senders, Write(s, w)
       PROVE  Known'
  <2>1. /\ client' = client /\ rest' = rest /\ made' = made + 1
        /\ wire' = wire \/ wire' = Append(wire, made + 1)
    BY <1>0, <1>10 DEF Write, Deliver, made, TypesOfMessages
  <2>2. \A t \in Sessions : at'[t]["loop"] \in {"reading", "replaying"} => at'[t]["loop"] = at[t]["loop"]
    BY <1>0, <1>10 DEF Write, TypesOfPlaces, Senders
  <2>3. made + 1 \in 1..made' /\ made' \in Nat /\ made <= made'
    BY <1>0, <2>1
  <2>4. \A t \in Sessions : \A n \in DOMAIN rest'[t] : rest'[t][n] \in 1..made
    BY <1>0, <2>1 DEF Known
  <2> QED
    BY <1>1, <2>1, <2>2, <2>3, <2>4
<1>11. ASSUME NEW s \in Sessions, NEW w \in Senders, Store(s, w) \/ CancelledBeforeRedis(s, w)
       PROVE  Known'
  <2>1. client' = client /\ rest' = rest /\ made' = made /\ wire' = wire
    BY <1>11 DEF Store, CancelledBeforeRedis, made
  <2>2. \A t \in Sessions : at'[t]["loop"] \in {"reading", "replaying"} => at'[t]["loop"] = at[t]["loop"]
    BY <1>0, <1>11 DEF Store, CancelledBeforeRedis, TypesOfPlaces, Senders
  <2> QED
    BY <1>2, <2>1, <2>2
<1>12. ASSUME PushSentinel
       PROVE  Known'
  <2>1. /\ client' = client /\ rest' = rest /\ wire' = wire /\ at' = at
        /\ made' = made \/ made' = made + 1
    BY <1>0, <1>12 DEF PushSentinel, sends, made, TypesOfMessages
  <2>2. made' \in Nat /\ made <= made'
    BY <1>0, <2>1
  <2>3. \A t \in Sessions : \A n \in DOMAIN rest'[t] : rest'[t][n] \in 1..made
    BY <1>0, <2>1 DEF Known
  <2> QED
    BY <1>1, <2>1, <2>2, <2>3
<1>13. ASSUME Receive
       PROVE  Known'
  <2>1. /\ wire \in Seq(Events) /\ wire # <<>>
        /\ wire' = Tail(wire) /\ rest' = rest /\ made' = made /\ at' = at
        /\ seen' = seen \cup {Head(wire)} /\ last' = Head(wire)
        /\ first' = IF first = 0 THEN Head(wire) ELSE first
    BY <1>0, <1>13 DEF Receive, sends, made, TypesOfClient
  <2>2. Head(wire) \in 1..made
    <3>1. 1 \in DOMAIN wire /\ Head(wire) = wire[1]
      BY <2>1
    <3> QED
      BY <1>0, <3>1 DEF Known
  <2>3. \A n \in DOMAIN wire' : wire'[n] \in 1..made
    <3>1. \A n \in DOMAIN wire' : n + 1 \in DOMAIN wire /\ wire'[n] = wire[n + 1]
      BY <2>1
    <3> QED
      BY <1>0, <3>1 DEF Known
  <2>4. Head(wire) # 0 /\ first' # 0 /\ first' \in 0..made /\ last' \in 0..made
    BY <1>0, <2>1, <2>2 DEF Known
  <2>5. seen' \subseteq 1..made /\ last' \in seen'
    BY <1>0, <2>1, <2>2 DEF Known
  <2>6. \A s \in Sessions : \A n \in DOMAIN rest'[s] : rest'[s][n] \in 1..made'
    BY <1>0, <2>1 DEF Known
  <2> QED
    BY <2>1, <2>3, <2>4, <2>5, <2>6 DEF Known
<1>14. CASE UNCHANGED vars
  <2>1. client' = client /\ rest' = rest /\ made' = made /\ wire' = wire /\ at' = at
    BY <1>14 DEF vars, sends, made
  <2> QED
    BY <1>2, <2>1
<1> QED
  BY <1>3, <1>5, <1>6, <1>7, <1>8, <1>9, <1>10, <1>11, <1>12, <1>13, <1>14 DEF Next

-----------------------------------------------------------------------------
(* What is owed and what is on its way: preservation *)

\* The order after a step, with the events named before it.
LEMMA OrderAfter ==
    ASSUME \A a \in Nat : \A b : (b = last' /\ Owed(a)') => ~Ahead(a, b)',
           \A n \in DOMAIN wire', a \in Nat : \A b :
               (b = wire'[n] /\ Owed(a)' /\ Ahead(a, b)') => \E m \in 1..(n - 1) : wire'[m] = a,
           \A s \in Sessions : sock'[s] = "live" => \A n \in DOMAIN rest'[s] : \A a \in Nat : \A b :
               (b = rest'[s][n] /\ Owed(a)' /\ Ahead(a, b)') =>
                   OnWire(a)' \/ \E m \in 1..(n - 1) : rest'[s][m] = a
    PROVE  InOrder'
<1>1. LastInOrder'
  <2> SUFFICES ASSUME NEW a \in Nat, Owed(a)', Ahead(a, last)'
               PROVE  FALSE
    BY DEF LastInOrder
  <2>1. PICK b : b = last'
    OBVIOUS
  <2>2. Ahead(a, b)'
    BY <2>1 DEF Ahead, Before, InStream, Under
  <2> QED
    BY <2>1, <2>2
<1>2. WireInOrder'
  <2> SUFFICES ASSUME NEW n \in DOMAIN wire', NEW a \in Nat, Owed(a)', Ahead(a, wire[n])'
               PROVE  \E m \in 1..(n - 1) : wire'[m] = a
    BY DEF WireInOrder
  <2>1. PICK b : b = wire'[n]
    OBVIOUS
  <2>2. Ahead(a, b)'
    BY <2>1 DEF Ahead, Before, InStream, Under
  <2> QED
    BY <2>1, <2>2
<1>3. RestInOrder'
  <2> SUFFICES ASSUME NEW s \in Sessions, sock'[s] = "live", NEW n \in DOMAIN rest'[s],
                      NEW a \in Nat, Owed(a)', Ahead(a, rest[s][n])'
               PROVE  OnWire(a)' \/ \E m \in 1..(n - 1) : rest'[s][m] = a
    BY DEF RestInOrder
  <2>1. PICK b : b = rest'[s][n]
    OBVIOUS
  <2>2. Ahead(a, b)'
    BY <2>1 DEF Ahead, Before, InStream, Under
  <2> QED
    BY <2>1, <2>2
<1> QED
  BY <1>1, <1>2, <1>3 DEF InOrder

\* Steps that bring no new pair of events into order for the client.
LEMMA OrderKept ==
    ASSUME InOrder, Known, wire' = wire, last' = last, made \in Nat,
           \A s \in Sessions : sock'[s] = "live" => sock[s] = "live" /\ rest'[s] = rest[s],
           \A a \in Nat, b \in 0..made :
               (Owed(a)' /\ Ahead(a, b)') => Owed(a) /\ Ahead(a, b)
    PROVE  InOrder'
<1>1. ASSUME NEW a \in Nat, NEW b, b = last', Owed(a)', Ahead(a, b)'
      PROVE  FALSE
  <2>1. b = last /\ b \in 0..made
    BY <1>1 DEF Known
  <2>2. Owed(a) /\ Ahead(a, b)
    BY <1>1, <2>1
  <2> QED
    BY <2>1, <2>2 DEF InOrder, LastInOrder
<1>2. ASSUME NEW n \in DOMAIN wire', NEW a \in Nat, NEW b,
             b = wire'[n], Owed(a)', Ahead(a, b)'
      PROVE  \E m \in 1..(n - 1) : wire'[m] = a
  <2>1. n \in DOMAIN wire /\ b = wire[n] /\ b \in 0..made
    BY <1>2 DEF Known
  <2>2. Owed(a) /\ Ahead(a, b)
    BY <1>2, <2>1
  <2> QED
    BY <2>1, <2>2 DEF InOrder, WireInOrder
<1>3. ASSUME NEW s \in Sessions, sock'[s] = "live", NEW n \in DOMAIN rest'[s], NEW a \in Nat, NEW b,
             b = rest'[s][n], Owed(a)', Ahead(a, b)'
      PROVE  OnWire(a)' \/ \E m \in 1..(n - 1) : rest'[s][m] = a
  <2>1. sock[s] = "live" /\ rest'[s] = rest[s] /\ n \in DOMAIN rest[s] /\ b = rest[s][n]
    BY <1>3
  <2>2. b \in 0..made
    BY <2>1 DEF Known
  <2>3. Owed(a) /\ Ahead(a, b)
    BY <1>3, <2>2
  <2>4. OnWire(a) \/ \E m \in 1..(n - 1) : rest[s][m] = a
    BY <2>1, <2>3 DEF InOrder, RestInOrder
  <2> QED
    BY <2>1, <2>4 DEF OnWire
<1> QED
  BY <1>1, <1>2, <1>3, OrderAfter

\* Steps after which no more is owed, stored or under way.
LEMMA ReachKept ==
    ASSUME Reached, wire' = wire, seen' = seen, TypesOfMessages, FirstDue \in Nat, FirstDue' \in Nat,
           FirstDue <= FirstDue', excused \subseteq excused', stranded \subseteq stranded',
           \A s \in Sessions :
               /\ Listening(s)' => Listening(s) /\ rest'[s] = rest[s]
               /\ sock'[s] = "live" => sock[s] = "live",
           \A s \in Sessions, w \in Senders :
               InTransit(s, w)' => InTransit(s, w) /\ ev'[s][w] = ev[s][w],
           \A a \in Nat : (Owed(a)' /\ InStream(a)') => Owed(a) /\ InStream(a)
    PROVE  Reached'
<1>1. CaughtUp'
  <2> SUFFICES ASSUME NEW s \in Sessions, Listening(s)', NEW a \in Nat, Owed(a)', InStream(a)'
               PROVE  OnWire(a)' \/ InRest(s, a)'
    BY DEF CaughtUp
  <2>1. Listening(s) /\ rest'[s] = rest[s] /\ Owed(a) /\ InStream(a)
    OBVIOUS
  <2>2. OnWire(a) \/ InRest(s, a)
    BY <2>1 DEF Reached, CaughtUp
  <2> QED
    BY <2>1, <2>2 DEF OnWire, InRest
<1>2. Heard'
  BY DEF Reached, Heard, OnWire
<1>3. NotOwed'
  <2> SUFFICES ASSUME NEW s \in Sessions, NEW t \in Sessions, NEW w \in Senders,
                      Listening(s)', t # s, InTransit(t, w)'
               PROVE  t \in stranded' \/ ev'[t][w] \in excused' \/ ev'[t][w] < FirstDue'
    BY DEF NotOwed
  <2>1. Listening(s) /\ InTransit(t, w) /\ ev'[t][w] = ev[t][w] /\ ev[t][w] \in Nat
    BY DEF TypesOfMessages
  <2>2. t \in stranded \/ ev[t][w] \in excused \/ ev[t][w] < FirstDue
    BY <2>1 DEF Reached, NotOwed
  <2> QED
    BY <2>1, <2>2
<1> QED
  BY <1>1, <1>2, <1>3 DEF Reached

\* The first event a client is owed is one that was made.
LEMMA FirstDueIsMade ==
    ASSUME Known, origin \in Seq(Nat), wire \in Seq(Events)
    PROVE  /\ made \in Nat /\ FirstDue \in 1..(made + 1)
           /\ (first # 0 \/ wire # <<>>) => FirstDue \in 1..made
<1>1. made \in Nat
  BY DEF made
<1>2. CASE first # 0
  BY <1>1, <1>2 DEF FirstDue, Known
<1>3. CASE first = 0 /\ wire # <<>>
  <2>1. 1 \in DOMAIN wire
    BY <1>3
  <2> QED
    BY <1>1, <1>3, <2>1 DEF FirstDue, Known
<1>4. CASE first = 0 /\ wire = <<>>
  BY <1>1, <1>4 DEF FirstDue
<1> QED
  BY <1>1, <1>2, <1>3, <1>4

\* Less is owed when the first event is no earlier and more is got or excused.
LEMMA OwedLess ==
    ASSUME FirstDue \in Nat, FirstDue' \in Nat, FirstDue <= FirstDue',
           seen \subseteq seen', excused \subseteq excused', stranded \subseteq stranded',
           NEW a \in Nat, origin'[a] = origin[a], Owed(a)'
    PROVE  Owed(a)
BY DEF Owed

\* Steps that touch neither the stream nor what the client has and gets.
LEMMA RestingStep ==
    ASSUME StreamAssumption, IInv, ReplayInv,
           UNCHANGED <<stream, origin, wire, seen, first, last>>,
           excused \subseteq excused', stranded \subseteq stranded',
           \A s \in Sessions :
               /\ Listening(s)' => Listening(s)
               /\ sock'[s] = "live" => sock[s] = "live" /\ rest'[s] = rest[s],
           \A s \in Sessions, w \in Senders :
               InTransit(s, w)' => InTransit(s, w) /\ ev'[s][w] = ev[s][w]
    PROVE  InOrder' /\ Reached'
<1>0. /\ TypesOfMessages /\ Known /\ InOrder /\ Reached
      /\ made \in Nat /\ FirstDue \in Nat
  <2>1. TypesOfMessages /\ wire \in Seq(Events) /\ origin \in Seq(Nat)
    BY TypesSplit DEF IInv, TypesOfMessages, TypesOfClient, StreamAssumption
  <2>2. Known /\ InOrder /\ Reached
    BY DEF ReplayInv
  <2> QED
    BY <2>1, <2>2, FirstDueIsMade
<1>1. FirstDue' = FirstDue
  BY DEF FirstDue, made
<1>2. \A a \in Nat : Owed(a)' => Owed(a)
  BY <1>0, <1>1 DEF Owed
<1>3. \A a, b : Ahead(a, b)' => Ahead(a, b)
  BY DEF Ahead, Before, InStream, Under
<1>4. \A a : InStream(a)' => InStream(a)
  BY DEF InStream
<1>5. InOrder'
  BY <1>0, <1>2, <1>3, OrderKept
<1>6. \A s \in Sessions : /\ Listening(s)' => Listening(s) /\ rest'[s] = rest[s]
                          /\ sock'[s] = "live" => sock[s] = "live"
  BY DEF Listening
<1>7. Reached'
  BY <1>0, <1>1, <1>2, <1>4, <1>6, ReachKept
<1> QED
  BY <1>5, <1>7

\* Steps after which nobody listens.
LEMMA SilencedStep ==
    ASSUME StreamAssumption, IInv, ReplayInv,
           UNCHANGED <<stream, origin, excused, seen, first, last>>, wire' = <<>>,
           stranded \subseteq stranded',
           \A s \in Sessions :
               /\ ~Listening(s)'
               /\ sock'[s] = "live" => rest'[s] = <<>> /\ \A w \in Senders : ~InTransit(s, w)',
           \A s \in Sessions, w \in Senders :
               InTransit(s, w)' => InTransit(s, w) /\ ev'[s][w] = ev[s][w]
    PROVE  InOrder' /\ Reached'
<1>0. /\ Known /\ InOrder /\ made \in Nat
      /\ FirstDue \in 1..(made + 1) /\ ((first # 0 \/ wire # <<>>) => FirstDue \in 1..made)
  <2>1. wire \in Seq(Events) /\ origin \in Seq(Nat)
    BY TypesSplit DEF IInv, TypesOfMessages, TypesOfClient, StreamAssumption
  <2>2. Known /\ InOrder
    BY DEF ReplayInv
  <2> QED
    BY <2>1, <2>2, FirstDueIsMade
<1>1. FirstDue' \in Nat /\ FirstDue <= FirstDue'
  BY <1>0 DEF FirstDue, made, Known
<1>2. \A a \in Nat : Owed(a)' => Owed(a)
  BY <1>0, <1>1, OwedLess
<1>3. \A a, b : Ahead(a, b)' => Ahead(a, b)
  BY DEF Ahead, Before, InStream, Under
<1>4. ASSUME NEW a \in Nat, NEW b, b = last', Owed(a)', Ahead(a, b)'
      PROVE  FALSE
  BY <1>0, <1>2, <1>3, <1>4 DEF InOrder, LastInOrder
<1>5. DOMAIN wire' = {}
  OBVIOUS
<1>6. \A s \in Sessions : sock'[s] = "live" => DOMAIN rest'[s] = {}
  OBVIOUS
<1>7. InOrder'
  BY <1>4, <1>5, <1>6, OrderAfter
<1>8. Reached'
  BY DEF Reached, CaughtUp, Heard, NotOwed
<1> QED
  BY <1>7, <1>8

\* Steps that store nothing and deliver nothing keep what is owed in order.
LEMMA RestingActions ==
    ASSUME StreamAssumption, IInv, ReplayInv,
           \/ \E s \in Sessions : Prompt(s) \/ RunEnds(s) \/ WriteFails(s) \/ Cleanup(s)
           \/ \E s \in Sessions, w \in Senders :
                CancelledBeforeRedis(s, w) \/ (Store(s, w) /\ stream' = stream /\ excused' = excused)
           \/ PushSentinel /\ UNCHANGED <<origin, stream, excused>>
           \/ Evict
           \/ UNCHANGED vars
    PROVE  InOrder' /\ Reached'
<1>0. TypesOfSessions /\ TypesOfPlaces /\ TypesOfMessages /\ Opened /\ OneTab
  BY TypesSplit DEF IInv, ReplayInv, TabInv
<1> USE DEF InTransit, Listening
<1>1. ASSUME NEW s \in Sessions, Prompt(s) \/ RunEnds(s) \/ WriteFails(s)
      PROVE  InOrder' /\ Reached'
  <2>1. UNCHANGED <<stream, origin, wire, seen, first, last, excused, stranded, sock, at, ev, rest, resumed>>
    BY <1>1 DEF Prompt, RunEnds, WriteFails, sends, client
  <2> QED
    BY <2>1, RestingStep
<1>2. ASSUME NEW s \in Sessions, CancelRun(s),
             UNCHANGED <<stream, origin, wire, seen, first, last, excused, stranded, ev, rest>>,
             resumed' \subseteq resumed,
             \A t \in Sessions : sock'[t] = "live" => sock[t] = "live"
      PROVE  InOrder' /\ Reached'
  <2>1. \A t \in Sessions, v \in Senders :
          at'[t][v] = at[t][v] \/ (at[t][v] = "storing" /\ at'[t][v] = "cancelled")
    BY <1>0, <1>2 DEF CancelRun, TypesOfPlaces
  <2>2. \A t \in Sessions : at[t]["loop"] = "reading" => at'[t]["loop"] = "reading"
    BY <2>1 DEF Senders
  <2> QED
    BY <1>2, <2>1, <2>2, RestingStep
<1>3. ASSUME NEW s \in Sessions, Cleanup(s)
      PROVE  InOrder' /\ Reached'
  <2>1. \A t \in Sessions : sock'[t] = "live" => sock[t] = "live"
    BY <1>0, <1>3 DEF Cleanup, TypesOfSessions
  <2> QED
    BY <1>2, <1>3, <2>1 DEF Cleanup, client
<1>4. ASSUME Evict
      PROVE  InOrder' /\ Reached'
  <2>1. old \in Sessions
    BY <1>0, <1>4 DEF Evict, Opened, TypesOfSessions, Sessions
  <2>2. \A t \in Sessions : sock'[t] = "live" => sock[t] = "live"
    BY <1>0, <1>4 DEF Evict, TypesOfSessions
  <2> QED
    BY <1>2, <1>4, <2>1, <2>2 DEF Evict, client
<1>5. ASSUME NEW s \in Sessions, NEW w \in Senders,
             CancelledBeforeRedis(s, w) \/ (Store(s, w) /\ stream' = stream /\ excused' = excused)
      PROVE  InOrder' /\ Reached'
  <2>1. /\ UNCHANGED <<stream, origin, wire, seen, first, last, excused, stranded, sock, rest, resumed>>
        /\ at[s][w] \in {"storing", "cancelled"} /\ at'[s][w] = "idle"
        /\ \A t \in Sessions, v \in Senders :
             <<t, v>> # <<s, w>> => at'[t][v] = at[t][v] /\ ev'[t][v] = ev[t][v]
    BY <1>0, <1>5 DEF CancelledBeforeRedis, Store, server, client, TypesOfPlaces, TypesOfMessages
  <2>2. \A t \in Sessions : at[t]["loop"] = "reading" => at'[t]["loop"] = "reading"
    BY <2>1 DEF Senders
  <2>3. \A t \in Sessions, v \in Senders : InTransit(t, v)' => InTransit(t, v) /\ ev'[t][v] = ev[t][v]
    BY <2>1
  <2> QED
    BY <2>1, <2>2, <2>3, RestingStep
<1>6. ASSUME UNCHANGED <<stream, origin, wire, seen, first, last, excused, stranded, sock, at, ev, rest, resumed>>
      PROVE  InOrder' /\ Reached'
  BY <1>6, RestingStep
<1>7. CASE PushSentinel /\ UNCHANGED <<origin, stream, excused>>
  BY <1>6, <1>7 DEF PushSentinel, sends, client
<1>8. CASE UNCHANGED vars
  BY <1>6, <1>8 DEF vars, server, sends, client
<1> QED
  BY <1>1, <1>3, <1>4, <1>5, <1>7, <1>8

\* Leave and Connect: the frames under way are lost, and nobody listens.
LEMMA SilencedActions ==
    ASSUME StreamAssumption, IInv, ReplayInv, NEW s \in Sessions, Connect(s) \/ Leave(s)
    PROVE  InOrder' /\ Reached'
<1>0. /\ TypesOfSessions /\ TypesOfPlaces /\ TypesOfReplays /\ TypesOfMessages
      /\ Opened /\ OneTab /\ ResumeAlone /\ Transit
  BY TypesSplit DEF IInv, ReplayInv, TabInv
<1>1. /\ UNCHANGED <<stream, origin, excused, seen, first, last, at, ev, rest, resumed>>
      /\ wire' = <<>> /\ stranded \subseteq stranded'
  BY DEF Connect, Leave, sends, client, server
<1>2. \A t \in Sessions, w \in Senders :
        InTransit(t, w)' => InTransit(t, w) /\ ev'[t][w] = ev[t][w]
  BY <1>1 DEF InTransit
<1>3. CASE Leave(s)
  <2>1. \A t \in Sessions : sock'[t] # "live"
    <3> SUFFICES ASSUME NEW t \in Sessions, sock'[t] = "live"
                 PROVE  FALSE
      OBVIOUS
    <3>1. sock[s] = "live" /\ t # s /\ sock[t] = "live"
      BY <1>0, <1>3 DEF Leave, TypesOfSessions
    <3> QED
      BY <1>0, <3>1 DEF OneTab, Sessions
  <2> QED
    BY <1>1, <1>2, <2>1, SilencedStep DEF Listening
<1>4. CASE Connect(s)
  <2>1. PICK c \in 0..MaxSessions : \A t \in Sessions : sock[t] # "none" <=> t <= c
    BY <1>0 DEF Opened
  <2>2. s = c + 1 /\ c \in Nat
    <3>1. Current = c
      BY <2>1, CurrentIs
    <3> QED
      BY <1>4, <3>1 DEF Connect, StreamAssumption
  <2>3. sock[s] = "none" /\ \A t \in Sessions : t # s => sock'[t] = sock[t]
    BY <1>0, <1>4, <2>1, <2>2 DEF Connect, TypesOfSessions, Sessions
  <2>4. \A t \in Sessions : t # s => sock'[t] # "live"
    <3> SUFFICES ASSUME NEW t \in Sessions, sock[t] = "live"
                 PROVE  FALSE
      BY <2>3
    <3>1. t = Current /\ Current # 0
      BY <1>0, LiveIsCurrent DEF Sessions
    <3> QED
      BY <1>4, <3>1 DEF Connect
  <2>5. ~Served(s)
    BY <1>0, <2>3 DEF Opened
  <2>6. s \notin resumed /\ rest[s] = <<>>
    BY <1>0, <2>5 DEF Served, ResumeAlone, TypesOfReplays
  <2>7. \A w \in Senders : ~InTransit(s, w)
    <3> SUFFICES ASSUME NEW w \in Senders, InTransit(s, w)
                 PROVE  FALSE
      OBVIOUS
    <3>1. ev[s][w] \in DOMAIN origin /\ origin[ev[s][w]] = s
      BY <1>0 DEF Transit, made, TypesOfMessages
    <3> QED
      BY <2>5, <3>1 DEF Served
  <2>8. \A t \in Sessions : /\ ~Listening(t)'
                            /\ sock'[t] = "live" => rest'[t] = <<>> /\ \A w \in Senders : ~InTransit(t, w)'
    BY <1>1, <1>2, <2>4, <2>6, <2>7 DEF Listening
  <2> QED
    BY <1>1, <1>2, <2>8, SilencedStep
<1> QED
  BY <1>3, <1>4

\* A resume reads all that is owed and stored.
LEMMA ResumeKeeps ==
    ASSUME StreamAssumption, IInv, ReplayInv, NEW s \in Sessions, Resume(s)
    PROVE  InOrder' /\ Reached'
<1>0. /\ TypesOfPlaces /\ TypesOfMessages /\ Transit /\ Stored /\ Known /\ Reached /\ InOrder
      /\ OneTab /\ made \in Nat /\ FirstDue \in Nat /\ origin \in Seq(Nat)
  <2>1. wire \in Seq(Events) /\ origin \in Seq(Nat)
    BY TypesSplit DEF IInv, TypesOfMessages, TypesOfClient, StreamAssumption
  <2>2. Known
    BY DEF ReplayInv
  <2> QED
    BY <2>1, <2>2, TypesSplit, FirstDueIsMade DEF IInv, ReplayInv, TabInv
<1>1. /\ UNCHANGED <<sock, stranded, rest, origin, stream, wire, seen, first, last, excused>>
      /\ sock[s] = "live" /\ s \notin resumed /\ resumed' = resumed \cup {s}
      /\ at[s]["loop"] = "idle"
  BY DEF Resume, server, client
<1>2. /\ \A t \in Sessions, w \in Senders :
           <<t, w>> # <<s, "loop">> => at'[t][w] = at[t][w] /\ ev'[t][w] = ev[t][w]
      /\ IF last = 0 THEN at'[s]["loop"] = "idle" ELSE at'[s]["loop"] = "reading"
  BY <1>0 DEF Resume, TypesOfPlaces, TypesOfMessages, Senders
<1>3. \A t \in Sessions, w \in Senders :
        InTransit(t, w)' => InTransit(t, w) /\ ev'[t][w] = ev[t][w]
  BY <1>1, <1>2 DEF InTransit, Senders
<1>4. wire = <<>>
  BY <1>0, <1>1, SilentBefore DEF Listening
<1>5. FirstDue' = FirstDue
  BY <1>1 DEF FirstDue, made
<1>6. \A a \in Nat : Owed(a)' => Owed(a)
  BY <1>1, <1>5 DEF Owed
<1>7. \A a, b : Ahead(a, b)' => Ahead(a, b)
  BY <1>1, <1>3 DEF Ahead, Before, InStream, Under
<1>8. InOrder'
  BY <1>0, <1>1, <1>6, <1>7, OrderKept
<1>9. CASE last = 0
  <2>1. FirstDue = made + 1
    BY <1>0, <1>4, <1>9 DEF FirstDue, Known
  <2>2. CaughtUp'
    <3> SUFFICES ASSUME NEW a \in Nat, Owed(a)', InStream(a)'
                 PROVE  FALSE
      BY DEF CaughtUp
    <3>1. a > made + 1
      BY <1>5, <2>1 DEF Owed
    <3>2. a \in 1..made
      BY <1>0, <1>1 DEF InStream, Stored
    <3> QED
      BY <1>0, <3>1, <3>2
  <2>3. Heard'
    BY <1>0, <1>1, <1>3 DEF Heard, Reached, OnWire
  <2>4. NotOwed'
    <3> SUFFICES ASSUME NEW t \in Sessions, NEW w \in Senders, InTransit(t, w)'
                 PROVE  ev'[t][w] < FirstDue'
      BY DEF NotOwed
    <3>1. ev'[t][w] \in 1..made
      BY <1>0, <1>3 DEF Transit
    <3> QED
      BY <1>0, <1>5, <2>1, <3>1
  <2> QED
    BY <1>8, <2>2, <2>3, <2>4 DEF Reached
<1>10. CASE last # 0
  <2>1. \A t \in Sessions : Listening(t)' => Listening(t)
    BY <1>1, <1>2, <1>10 DEF Listening, Senders
  <2>2. \A t \in Sessions : /\ Listening(t)' => Listening(t) /\ rest'[t] = rest[t]
                            /\ sock'[t] = "live" => sock[t] = "live"
    BY <1>1, <2>1
  <2>3. \A a : InStream(a)' => InStream(a)
    BY <1>1 DEF InStream
  <2>4. Reached'
    BY <1>0, <1>1, <1>3, <1>5, <1>6, <2>2, <2>3, ReachKept
  <2> QED
    BY <1>8, <2>4
<1> QED
  BY <1>9, <1>10

\* The read takes all that is owed, and excuses what is still under way.
LEMMA ReadKeeps ==
    ASSUME StreamAssumption, IInv, ReplayInv, NEW s \in Sessions, ReadStream(s)
    PROVE  InOrder' /\ Reached'
<1> DEFINE found == EventsAfter(ev[s]["loop"])
<1>0. /\ TypesOfPlaces /\ TypesOfReplays /\ TypesOfMessages /\ Transit /\ Stored /\ StreamIsALog
      /\ Known /\ Reached /\ InOrder /\ OneTab /\ ResumeAlone
      /\ made \in Nat /\ FirstDue \in Nat /\ stream \in Seq(Nat)
  <2>1. wire \in Seq(Events) /\ origin \in Seq(Nat) /\ stream \in Seq(Nat)
    BY TypesSplit DEF IInv, TypesOfMessages, TypesOfClient, StreamAssumption, Events
  <2>2. Known
    BY DEF ReplayInv
  <2> QED
    BY <2>1, <2>2, TypesSplit, FirstDueIsMade DEF IInv, ReplayInv, TabInv
<1>1. /\ UNCHANGED <<sock, resumed, stranded, origin, stream, wire, seen, first, last>>
      /\ excused \subseteq excused' /\ at[s]["loop"] = "reading"
      /\ \/ /\ rest' = [rest EXCEPT ![s] = found]
            /\ InFlight \subseteq excused'
         \/ /\ rest' = rest
            /\ InFlight \subseteq excused' /\ Range(found) \subseteq excused'
  BY DEF ReadStream, server, client
<1>2. /\ \A t \in Sessions, w \in Senders :
           <<t, w>> # <<s, "loop">> => at'[t][w] = at[t][w] /\ ev'[t][w] = ev[t][w]
      /\ at'[s]["loop"] \in {"idle", "replaying"}
  BY <1>0 DEF ReadStream, TypesOfPlaces, TypesOfMessages, Senders
<1>3. \A t \in Sessions, w \in Senders :
        InTransit(t, w)' => InTransit(t, w) /\ ev'[t][w] = ev[t][w]
  BY <1>1, <1>2 DEF InTransit, Senders
<1>4. FirstDue' = FirstDue
  BY <1>1 DEF FirstDue, made
<1>5. \A a \in Nat : Owed(a)' => Owed(a)
  BY <1>1, <1>4 DEF Owed
<1>6. \A a, b : Ahead(a, b)' => Ahead(a, b)
  BY <1>1, <1>3 DEF Ahead, Before, InStream, Under
<1>7. \A t \in Sessions : t # s => /\ Listening(t)' => Listening(t)
                                   /\ rest'[t] = rest[t]
  BY <1>0, <1>1, <1>2 DEF Listening, TypesOfReplays, Senders
<1>8. rest[s] = <<>>
  BY <1>0, <1>1 DEF TypesOfReplays
<1>9. CASE sock[s] # "live"
  <2>1. \A t \in Sessions : sock'[t] = "live" => sock[t] = "live" /\ rest'[t] = rest[t]
    BY <1>1, <1>7, <1>9
  <2>2. \A t \in Sessions : /\ Listening(t)' => Listening(t) /\ rest'[t] = rest[t]
                            /\ sock'[t] = "live" => sock[t] = "live"
    BY <1>1, <1>7, <1>9 DEF Listening
  <2>3. \A a : InStream(a)' => InStream(a)
    BY <1>1 DEF InStream
  <2>4. InOrder'
    BY <1>0, <1>1, <1>5, <1>6, <2>1, OrderKept
  <2>5. Reached'
    BY <1>0, <1>1, <1>3, <1>4, <1>5, <2>2, <2>3, ReachKept
  <2> QED
    BY <2>4, <2>5
<1>10. CASE sock[s] = "live"
  <2>1. ev[s]["loop"] = last /\ last # 0 /\ last \in seen
    BY <1>0, <1>1, <1>10 DEF ResumeAlone, Known
  <2>2. PICK j \in 0..Len(stream) :
          /\ found \in Seq(Nat)
          /\ Len(found) = Len(stream) - j
          /\ \A n \in 1..(Len(stream) - j) : found[n] = stream[j + n]
          /\ j # 0 => stream[j] = last
    BY <1>0, <2>1, ReadWhere DEF StreamIsALog
  <2> HIDE DEF found
  <2>3. DOMAIN found = 1..(Len(stream) - j)
    BY <2>2
  <2>4. ASSUME NEW a \in Nat, Owed(a), NEW i \in DOMAIN stream, stream[i] = a
        PROVE  i > j
    <3> SUFFICES ASSUME i <= j
                 PROVE  FALSE
      BY <1>0
    <3>1. j \in DOMAIN stream /\ stream[j] = last
      BY <1>0, <2>2
    <3>2. CASE i = j
      BY <2>1, <2>4, <3>1, <3>2 DEF Owed
    <3>3. CASE i < j
      BY <1>0, <2>4, <3>1, <3>3 DEF InOrder, LastInOrder, Ahead, Before
    <3> QED
      BY <1>0, <3>2, <3>3
  <2>5. ASSUME NEW a \in Nat, Owed(a), NEW i \in DOMAIN stream, stream[i] = a
        PROVE  i - j \in DOMAIN found /\ found[i - j] = a
    <3>1. i > j
      BY <2>4, <2>5
    <3>2. i - j \in 1..(Len(stream) - j) /\ j + (i - j) = i
      BY <1>0, <3>1
    <3> QED
      BY <2>2, <2>3, <2>5, <3>2
  <2>6. \A t \in Sessions : sock'[t] = "live" => t = s
    BY <1>0, <1>1, <1>10 DEF OneTab, Sessions
  <2>7. rest'[s] = found \/ rest'[s] = <<>>
    BY <1>0, <1>1, <1>8 DEF TypesOfReplays
  <2>8. InOrder'
    <3>1. ASSUME NEW a \in Nat, NEW b, b = last', Owed(a)', Ahead(a, b)'
          PROVE  FALSE
      BY <1>0, <1>1, <1>5, <1>6, <3>1 DEF InOrder, LastInOrder
    <3>2. ASSUME NEW n \in DOMAIN wire', NEW a \in Nat, NEW b,
                 b = wire'[n], Owed(a)', Ahead(a, b)'
          PROVE  \E m \in 1..(n - 1) : wire'[m] = a
      <4>1. Owed(a) /\ Ahead(a, b) /\ n \in DOMAIN wire /\ b = wire[n]
        BY <1>1, <1>5, <1>6, <3>2
      <4> QED
        BY <1>0, <1>1, <4>1 DEF InOrder, WireInOrder
    <3>3. ASSUME NEW t \in Sessions, sock'[t] = "live", NEW n \in DOMAIN rest'[t], NEW a \in Nat, NEW b,
                 b = rest'[t][n], Owed(a)', Ahead(a, b)'
          PROVE  OnWire(a)' \/ \E m \in 1..(n - 1) : rest'[t][m] = a
      <4>1. t = s /\ rest'[s] = found /\ n \in 1..(Len(stream) - j) /\ b = stream[j + n]
        BY <2>2, <2>3, <2>6, <2>7, <3>3, SMTT(30)
      <4>2. j + n \in DOMAIN stream
        BY <1>0, <4>1
      <4>3. Owed(a) /\ Ahead(a, b)
        BY <1>5, <1>6, <3>3
      <4>4. ~Under(b)
        BY <1>0, <4>1, <4>2 DEF Under, Transit
      <4>5. PICK i, k \in DOMAIN stream : i < k /\ stream[i] = a /\ stream[k] = b
        BY <4>3, <4>4 DEF Ahead, Before
      <4>6. k = j + n
        BY <1>0, <4>1, <4>2, <4>5 DEF StreamIsALog
      <4>7. i - j \in DOMAIN found /\ found[i - j] = a
        BY <2>5, <4>3, <4>5
      <4>8. i - j \in 1..(n - 1)
        BY <1>0, <2>3, <4>1, <4>5, <4>6, <4>7
      <4> QED
        BY <4>1, <4>7, <4>8
    <3> QED
      BY <3>1, <3>2, <3>3, OrderAfter
  <2>9. CaughtUp'
    <3> SUFFICES ASSUME NEW t \in Sessions, Listening(t)', NEW a \in Nat, Owed(a)', InStream(a)'
                 PROVE  OnWire(a)' \/ InRest(t, a)'
      BY DEF CaughtUp
    <3>1. t = s
      BY <2>6 DEF Listening
    <3>2. PICK i \in DOMAIN stream : stream[i] = a
      BY <1>1 DEF InStream
    <3>3. i - j \in DOMAIN found /\ found[i - j] = a
      BY <1>5, <2>5, <3>2
    <3>4. CASE rest'[s] = found
      BY <3>1, <3>3, <3>4 DEF InRest
    <3>5. CASE Range(found) \subseteq excused'
      BY <3>3, <3>5 DEF Range, Owed
    <3>6. rest' = [rest EXCEPT ![s] = found] => rest'[s] = found
      BY <1>0 DEF TypesOfReplays
    <3> QED
      BY <1>1, <3>4, <3>5, <3>6
  <2>10. Heard'
    BY <1>0, <1>1, <1>3 DEF Heard, Reached, OnWire
  <2>11. NotOwed'
    <3> SUFFICES ASSUME NEW t \in Sessions, NEW w \in Senders, InTransit(t, w)'
                 PROVE  ev'[t][w] \in excused'
      BY DEF NotOwed
    <3>1. InTransit(t, w) /\ ev'[t][w] = ev[t][w]
      BY <1>3
    <3> DEFINE y == <<t, w>>
    <3>2. y \in Sessions \X Senders /\ y[1] = t /\ y[2] = w
      OBVIOUS
    <3>3. ev[t][w] \in InFlight
      BY <3>1, <3>2 DEF InTransit, InFlight
    <3> QED
      BY <1>1, <3>1, <3>3
  <2> QED
    BY <2>8, <2>9, <2>10, <2>11 DEF Reached
<1> QED
  BY <1>9, <1>10

\* A replay sends what it read in the stream's order.
LEMMA ReplayKeeps ==
    ASSUME StreamAssumption, IInv, ReplayInv, NEW s \in Sessions, ReplayNext(s)
    PROVE  InOrder' /\ Reached'
<1> DEFINE q == rest[s]
<1>0. /\ TypesOfSessions /\ TypesOfPlaces /\ TypesOfReplays /\ TypesOfMessages /\ TypesOfClient
      /\ Transit /\ Known /\ Reached /\ InOrder /\ OneTab /\ ResumeAlone /\ Opened
      /\ made \in Nat /\ FirstDue \in Nat
  <2>1. wire \in Seq(Events) /\ origin \in Seq(Nat)
    BY TypesSplit DEF IInv, TypesOfMessages, TypesOfClient, StreamAssumption
  <2>2. Known
    BY DEF ReplayInv
  <2> QED
    BY <2>1, <2>2, TypesSplit, FirstDueIsMade DEF IInv, ReplayInv, TabInv
<1>1. /\ UNCHANGED <<sock, resumed, stranded, origin, stream, seen, first, last, excused, ev>>
      /\ at[s]["loop"] = "replaying" /\ q \in Seq(Events) /\ q # <<>>
  BY <1>0 DEF ReplayNext, server, client, TypesOfReplays
<1>2. /\ \A t \in Sessions, w \in Senders : <<t, w>> # <<s, "loop">> => at'[t][w] = at[t][w]
      /\ at'[s]["loop"] \in {"idle", "replaying"}
      /\ \A t \in Sessions : t # s => rest'[t] = rest[t]
  BY <1>0 DEF ReplayNext, TypesOfPlaces, TypesOfReplays, Senders
<1>3. \A t \in Sessions, w \in Senders :
        InTransit(t, w)' => InTransit(t, w) /\ ev'[t][w] = ev[t][w]
  BY <1>1, <1>2 DEF InTransit, Senders
<1>4. \A a, b : Ahead(a, b)' => Ahead(a, b)
  BY <1>1, <1>3 DEF Ahead, Before, InStream, Under
<1>5. \A t \in Sessions : Listening(t)' => Listening(t)
  BY <1>1, <1>2 DEF Listening, Senders
<1>6. first # 0
  BY <1>0, <1>1 DEF Known
<1>7. FirstDue' = FirstDue
  BY <1>1, <1>6 DEF FirstDue
<1>8. \A a \in Nat : Owed(a)' => Owed(a)
  BY <1>1, <1>7 DEF Owed
<1>9. \A a : InStream(a)' => InStream(a)
  BY <1>1 DEF InStream
<1>10. CASE sock[s] # "live"
  <2>1. wire' = wire
    BY <1>10 DEF ReplayNext, Deliver
  <2>2. \A t \in Sessions : sock'[t] = "live" => sock[t] = "live" /\ rest'[t] = rest[t]
    BY <1>1, <1>2, <1>10
  <2>3. \A t \in Sessions : /\ Listening(t)' => Listening(t) /\ rest'[t] = rest[t]
                            /\ sock'[t] = "live" => sock[t] = "live"
    BY <1>5, <2>2 DEF Listening
  <2>4. InOrder'
    BY <1>0, <1>1, <1>4, <1>8, <2>1, <2>2, OrderKept
  <2>5. Reached'
    BY <1>0, <1>1, <1>3, <1>7, <1>8, <1>9, <2>1, <2>3, ReachKept
  <2> QED
    BY <2>4, <2>5
<1>11. CASE sock[s] = "live"
  <2>1. s = Current
    BY <1>0, <1>11, LiveIsCurrent
  <2>2. rest' = [rest EXCEPT ![s] = Tail(q)] /\ wire' = Append(wire, Head(q))
    BY <1>11, <2>1 DEF ReplayNext, Deliver
  <2>3. rest'[s] = Tail(q)
    BY <1>0, <2>2 DEF TypesOfReplays
  <2>4. /\ 1 \in DOMAIN q /\ Head(q) = q[1]
        /\ DOMAIN Tail(q) = 1..(Len(q) - 1)
        /\ \A n \in 1..(Len(q) - 1) : Tail(q)[n] = q[n + 1] /\ n + 1 \in DOMAIN q
    <3> HIDE DEF q
    <3> QED
      BY <1>1
  <2>5. /\ DOMAIN wire' = 1..(Len(wire) + 1) /\ DOMAIN wire = 1..Len(wire)
        /\ \A n \in 1..Len(wire) : wire'[n] = wire[n]
        /\ wire'[Len(wire) + 1] = q[1] /\ Len(wire) \in Nat
    <3>1. wire \in Seq(Events) /\ Head(q) \in Events
      BY <1>0, <1>1 DEF TypesOfClient
    <3> HIDE DEF q
    <3> QED
      BY <2>2, <2>4, <3>1
  <2>6. \A t \in Sessions : sock'[t] = "live" => t = s
    BY <1>0, <1>1, <1>11 DEF OneTab, Sessions
  <2>7. \A a : OnWire(a) => OnWire(a)'
    BY <2>5 DEF OnWire
  <2>8. ASSUME NEW a, a = q[1]
        PROVE  OnWire(a)'
    <3>1. Len(wire) + 1 \in DOMAIN wire'
      BY <2>5
    <3> QED
      BY <2>5, <2>8, <3>1 DEF OnWire
  <2>9. InOrder'
    <3>1. ASSUME NEW a \in Nat, NEW b, b = last', Owed(a)', Ahead(a, b)'
          PROVE  FALSE
      BY <1>0, <1>1, <1>4, <1>8, <3>1 DEF InOrder, LastInOrder
    <3>2. ASSUME NEW n \in DOMAIN wire', NEW a \in Nat, NEW b,
                 b = wire'[n], Owed(a)', Ahead(a, b)'
          PROVE  \E m \in 1..(n - 1) : wire'[m] = a
      <4>1. Owed(a) /\ Ahead(a, b)
        BY <1>4, <1>8, <3>2
      <4>2. CASE n \in DOMAIN wire
        <5>1. \E m \in 1..(n - 1) : wire[m] = a
          BY <1>0, <2>5, <3>2, <4>1, <4>2 DEF InOrder, WireInOrder
        <5> QED
          BY <2>5, <4>2, <5>1
      <4>3. CASE n = Len(wire) + 1
        <5>1. OnWire(a) \/ \E m \in 1..(1 - 1) : rest[s][m] = a
          BY <1>0, <1>11, <2>4, <2>5, <3>2, <4>1, <4>3 DEF InOrder, RestInOrder
        <5>2. OnWire(a)
          BY <5>1
        <5> QED
          BY <2>5, <4>3, <5>2 DEF OnWire
      <4> QED
        BY <2>5, <3>2, <4>2, <4>3
    <3>3. ASSUME NEW t \in Sessions, sock'[t] = "live", NEW n \in DOMAIN rest'[t], NEW a \in Nat, NEW b,
                 b = rest'[t][n], Owed(a)', Ahead(a, b)'
          PROVE  OnWire(a)' \/ \E m \in 1..(n - 1) : rest'[t][m] = a
      <4>1. t = s /\ n \in 1..(Len(q) - 1) /\ b = q[n + 1] /\ n + 1 \in DOMAIN q
        BY <2>3, <2>4, <2>6, <3>3
      <4>2. Owed(a) /\ Ahead(a, b)
        BY <1>4, <1>8, <3>3
      <4>3. OnWire(a) \/ \E m \in 1..n : q[m] = a
        <5>1. PICK k : k = n + 1
          OBVIOUS
        <5>2. k \in DOMAIN rest[s] /\ b = rest[s][k] /\ k - 1 = n
          BY <4>1, <5>1
        <5>3. OnWire(a) \/ \E m \in 1..(k - 1) : rest[s][m] = a
          BY <1>0, <1>11, <4>2, <5>2 DEF InOrder, RestInOrder
        <5> QED
          BY <5>2, <5>3
      <4>4. ASSUME NEW m \in 1..n, q[m] = a
            PROVE  OnWire(a)' \/ \E k \in 1..(n - 1) : rest'[t][k] = a
        <5>1. CASE m = 1
          BY <2>8, <4>4, <5>1
        <5>2. CASE m # 1
          <6>1. m - 1 \in 1..(n - 1) /\ m - 1 \in 1..(Len(q) - 1) /\ (m - 1) + 1 = m
            BY <1>1, <4>1, <5>2
          <6>2. rest'[t][m - 1] = a
            BY <2>3, <2>4, <4>1, <4>4, <6>1
          <6> QED
            BY <6>1, <6>2
        <5> QED
          BY <5>1, <5>2
      <4> QED
        BY <2>7, <4>3, <4>4
    <3> QED
      BY <3>1, <3>2, <3>3, OrderAfter
  <2>10. CaughtUp'
    <3> SUFFICES ASSUME NEW t \in Sessions, Listening(t)', NEW a \in Nat, Owed(a)', InStream(a)'
                 PROVE  OnWire(a)' \/ InRest(t, a)'
      BY DEF CaughtUp
    <3>1. t = s
      BY <2>6 DEF Listening
    <3>2. OnWire(a) \/ InRest(s, a)
      BY <1>0, <1>5, <1>8, <1>9, <3>1 DEF Reached, CaughtUp
    <3>3. ASSUME NEW m \in DOMAIN q, q[m] = a
          PROVE  OnWire(a)' \/ InRest(t, a)'
      <4>1. CASE m = 1
        BY <2>8, <3>3, <4>1
      <4>2. CASE m # 1
        <5>1. m - 1 \in 1..(Len(q) - 1) /\ (m - 1) + 1 = m
          BY <1>1, <3>3, <4>2
        <5>2. rest'[t][m - 1] = a /\ m - 1 \in DOMAIN rest'[t]
          BY <2>3, <2>4, <3>1, <3>3, <5>1
        <5> QED
          BY <5>2 DEF InRest
      <4> QED
        BY <4>1, <4>2
    <3> QED
      BY <2>7, <3>2, <3>3 DEF InRest
  <2>11. Heard'
    BY <1>0, <1>1, <1>3, <2>7 DEF Heard, Reached
  <2>12. NotOwed'
    BY <1>0, <1>1, <1>3, <1>5, <1>7 DEF NotOwed, Reached
  <2> QED
    BY <2>9, <2>10, <2>11, <2>12 DEF Reached
<1> QED
  BY <1>10, <1>11

\* What the client receives is the first of what it was owed.
LEMMA ReceiveKeeps ==
    ASSUME StreamAssumption, IInv, ReplayInv, Receive
    PROVE  InOrder' /\ Reached'
<1>0. /\ TypesOfClient /\ TypesOfMessages /\ Transit /\ Known /\ Reached /\ InOrder
      /\ made \in Nat /\ FirstDue \in Nat
  <2>1. wire \in Seq(Events) /\ origin \in Seq(Nat)
    BY TypesSplit DEF IInv, TypesOfMessages, TypesOfClient, StreamAssumption
  <2>2. Known
    BY DEF ReplayInv
  <2> QED
    BY <2>1, <2>2, TypesSplit, FirstDueIsMade DEF IInv, ReplayInv, TabInv
<1>1. /\ UNCHANGED <<sock, resumed, stranded, origin, stream, excused, at, ev, rest>>
      /\ wire # <<>> /\ wire' = Tail(wire) /\ wire \in Seq(Events)
      /\ seen' = seen \cup {Head(wire)} /\ last' = Head(wire)
      /\ first' = IF first = 0 THEN Head(wire) ELSE first
  BY <1>0 DEF Receive, server, sends, TypesOfClient
<1>2. /\ 1 \in DOMAIN wire /\ Head(wire) = wire[1] /\ DOMAIN wire = 1..Len(wire)
      /\ DOMAIN wire' = 1..(Len(wire) - 1) /\ Len(wire) \in Nat
      /\ \A n \in 1..(Len(wire) - 1) : wire'[n] = wire[n + 1] /\ n + 1 \in DOMAIN wire
  BY <1>1
<1>3. wire[1] \in 1..made
  BY <1>0, <1>2 DEF Known
<1>4. FirstDue' = FirstDue
  BY <1>0, <1>1, <1>2, <1>3 DEF FirstDue, Known
<1>5. \A a \in Nat : Owed(a)' => Owed(a) /\ a # wire[1]
  BY <1>1, <1>2, <1>4 DEF Owed
<1>6. \A a, b : Ahead(a, b)' => Ahead(a, b)
  BY <1>1 DEF Ahead, Before, InStream, Under, InTransit
<1>7. \A a : a # wire[1] => (OnWire(a) => OnWire(a)')
  <2> SUFFICES ASSUME NEW n \in DOMAIN wire, wire[n] # wire[1]
               PROVE  \E m \in DOMAIN wire' : wire'[m] = wire[n]
    BY DEF OnWire
  <2>1. n - 1 \in 1..(Len(wire) - 1) /\ (n - 1) + 1 = n
    BY <1>2
  <2> QED
    BY <1>2, <2>1
<1>8. InOrder'
  <2>1. ASSUME NEW a \in Nat, NEW b, b = last', Owed(a)', Ahead(a, b)'
        PROVE  FALSE
    <3>1. Owed(a) /\ Ahead(a, wire[1])
      <4>1. b = wire[1]
        BY <1>1, <1>2, <2>1
      <4> QED
        BY <1>5, <1>6, <2>1, <4>1
    <3>2. \E m \in 1..(1 - 1) : wire[m] = a
      BY <1>0, <1>2, <3>1 DEF InOrder, WireInOrder
    <3> QED
      BY <3>2
  <2>2. ASSUME NEW n \in DOMAIN wire', NEW a \in Nat, NEW b,
               b = wire'[n], Owed(a)', Ahead(a, b)'
        PROVE  \E m \in 1..(n - 1) : wire'[m] = a
    <3>1. Owed(a) /\ a # wire[1] /\ Ahead(a, b) /\ n \in 1..(Len(wire) - 1)
          /\ b = wire[n + 1] /\ n + 1 \in DOMAIN wire
      BY <1>2, <1>5, <1>6, <2>2
    <3>2. PICK m \in 1..(n + 1 - 1) : wire[m] = a
      BY <1>0, <3>1 DEF InOrder, WireInOrder
    <3>3. m - 1 \in 1..(n - 1) /\ m - 1 \in 1..(Len(wire) - 1) /\ (m - 1) + 1 = m
      BY <1>2, <3>1, <3>2
    <3> QED
      BY <1>2, <3>2, <3>3
  <2>3. ASSUME NEW t \in Sessions, sock'[t] = "live", NEW n \in DOMAIN rest'[t], NEW a \in Nat, NEW b,
               b = rest'[t][n], Owed(a)', Ahead(a, b)'
        PROVE  OnWire(a)' \/ \E m \in 1..(n - 1) : rest'[t][m] = a
    <3>1. sock[t] = "live" /\ n \in DOMAIN rest[t] /\ b = rest[t][n] /\ rest'[t] = rest[t]
      BY <1>1, <2>3
    <3>2. Owed(a) /\ a # wire[1] /\ Ahead(a, b)
      BY <1>5, <1>6, <2>3
    <3>3. OnWire(a) \/ \E m \in 1..(n - 1) : rest[t][m] = a
      BY <1>0, <3>1, <3>2 DEF InOrder, RestInOrder
    <3> QED
      BY <1>7, <3>1, <3>2, <3>3
  <2> QED
    BY <2>1, <2>2, <2>3, OrderAfter
<1>9. CaughtUp'
  <2> SUFFICES ASSUME NEW t \in Sessions, Listening(t)', NEW a \in Nat, Owed(a)', InStream(a)'
               PROVE  OnWire(a)' \/ InRest(t, a)'
    BY DEF CaughtUp
  <2>1. Listening(t) /\ InStream(a) /\ Owed(a) /\ a # wire[1]
    BY <1>1, <1>5 DEF Listening, InStream
  <2>2. OnWire(a) \/ InRest(t, a)
    BY <1>0, <2>1 DEF Reached, CaughtUp
  <2> QED
    BY <1>1, <1>7, <2>1, <2>2 DEF InRest
<1>10. Heard'
  <2> SUFFICES ASSUME NEW t \in Sessions, NEW w \in Senders, InTransit(t, w)', sock'[t] = "live"
               PROVE  ev'[t][w] \in seen' \/ OnWire(ev[t][w])'
    BY DEF Heard
  <2>1. InTransit(t, w) /\ sock[t] = "live" /\ ev'[t][w] = ev[t][w]
    BY <1>1 DEF InTransit
  <2>2. ev[t][w] \in seen \/ OnWire(ev[t][w])
    BY <1>0, <2>1 DEF Reached, Heard
  <2>3. CASE ev[t][w] = wire[1] \/ ev[t][w] \in seen
    BY <1>1, <1>2, <2>1, <2>3
  <2>4. CASE ev[t][w] # wire[1] /\ OnWire(ev[t][w])
    <3> DEFINE e == ev[t][w]
    <3>1. PICK n \in DOMAIN wire : wire[n] = e
      BY <2>4 DEF OnWire
    <3>2. n - 1 \in 1..(Len(wire) - 1) /\ (n - 1) + 1 = n
      BY <1>2, <2>4, <3>1
    <3>3. \E m \in DOMAIN wire' : wire'[m] = ev'[t][w]
      BY <1>2, <2>1, <3>1, <3>2
    <3> QED
      BY <3>3 DEF OnWire
  <2> QED
    BY <2>2, <2>3, <2>4
<1>11. NotOwed'
  BY <1>0, <1>1, <1>4 DEF NotOwed, Reached, Listening, InTransit
<1> QED
  BY <1>8, <1>9, <1>10, <1>11 DEF Reached

\* A send under way from a session that is listening is the next frame; one from a
\* session the client has left is owed to nobody.
LEMMA WriteKeeps ==
    ASSUME StreamAssumption, IInv, ReplayInv, NEW s \in Sessions, NEW w \in Senders, Write(s, w)
    PROVE  InOrder' /\ Reached'
<1>0. /\ TypesOfSessions /\ TypesOfPlaces /\ TypesOfReplays /\ TypesOfMessages /\ TypesOfClient
      /\ Transit /\ Stored /\ Known /\ Reached /\ InOrder /\ OneTab /\ ResumeAlone
      /\ Opened /\ Retired /\ made \in Nat
      /\ FirstDue \in 1..(made + 1) /\ ((first # 0 \/ wire # <<>>) => FirstDue \in 1..made)
  <2>1. wire \in Seq(Events) /\ origin \in Seq(Nat)
    BY TypesSplit DEF IInv, TypesOfMessages, TypesOfClient, StreamAssumption
  <2>2. Known
    BY DEF ReplayInv
  <2> QED
    BY <2>1, <2>2, TypesSplit, FirstDueIsMade DEF IInv, ReplayInv, TabInv
<1>1. /\ UNCHANGED <<sock, resumed, stranded, rest, stream, seen, first, last, excused>>
      /\ origin' = Append(origin, s) /\ sock[s] \in {"live", "gone"} /\ MaySend(s, w)
      /\ at[s][w] = "idle"
  BY DEF Write, server, client, MaySend
<1>2. /\ at'[s][w] = "storing" /\ ev'[s][w] = made + 1
      /\ \A t \in Sessions, v \in Senders :
           <<t, v>> # <<s, w>> => at'[t][v] = at[t][v] /\ ev'[t][v] = ev[t][v]
  <2>1. made + 1 \in 0..MaxEvents
    BY <1>0 DEF Write, StreamAssumption
  <2> QED
    BY <1>0, <2>1 DEF Write, TypesOfPlaces, TypesOfMessages
<1>3. made' = made + 1 /\ \A a \in 1..made : origin'[a] = origin[a]
  BY <1>0, <1>1 DEF made, TypesOfMessages
<1>4. \A a : InStream(a)' => InStream(a) /\ a \in 1..made
  BY <1>0, <1>1 DEF InStream, Stored
<1>5. ASSUME NEW a \in Nat, NEW b, Ahead(a, b)', b # made + 1
      PROVE  Ahead(a, b)
  <2>1. CASE Before(a, b)'
    BY <1>1, <2>1 DEF Ahead, Before
  <2>2. CASE InStream(a)' /\ Under(b)'
    <3>1. PICK t \in Sessions, v \in Senders : InTransit(t, v)' /\ ev'[t][v] = b
      BY <2>2 DEF Under
    <3>2. InTransit(t, v) /\ ev[t][v] = b
      BY <1>2, <1>5, <3>1 DEF InTransit
    <3> QED
      BY <1>4, <2>2, <3>2 DEF Ahead, Under
  <2> QED
    BY <1>5, <2>1, <2>2 DEF Ahead
<1>6. \A a, b : Ahead(a, b)' => InStream(a) /\ a \in 1..made
  <2>1. \A a, b : Ahead(a, b)' => InStream(a)'
    BY DEF Ahead, Before, InStream
  <2> QED
    BY <1>4, <2>1
<1>7. \A t \in Sessions : Listening(t)' => Listening(t)
  BY <1>0, <1>1, <1>2 DEF Listening, Senders
<1>8. ASSUME FirstDue' \in Nat, FirstDue <= FirstDue', NEW a \in 1..made, Owed(a)'
      PROVE  Owed(a)
  <2>1. a \in Nat /\ origin'[a] = origin[a] /\ FirstDue \in Nat
    BY <1>0, <1>3
  <2> QED
    BY <1>1, <1>8, <2>1, OwedLess
<1>9. CASE sock[s] = "live"
  <2>1. s = Current
    BY <1>0, <1>9, LiveIsCurrent
  <2>2. wire' = Append(wire, made + 1)
    BY <1>9, <2>1 DEF Write, Deliver
  <2>3. Listening(s) /\ rest[s] = <<>>
    BY <1>0, <1>1, <1>9, SenderListens DEF Listening
  <2>4. /\ DOMAIN wire' = 1..(Len(wire) + 1) /\ DOMAIN wire = 1..Len(wire)
        /\ \A n \in 1..Len(wire) : wire'[n] = wire[n]
        /\ wire'[Len(wire) + 1] = made + 1 /\ Len(wire) \in Nat
        /\ wire' # <<>> /\ (wire = <<>> => Len(wire) = 0) /\ (wire # <<>> => 1 \in 1..Len(wire))
    <3>1. wire \in Seq(Nat)
      BY <1>0 DEF TypesOfClient, Events
    <3> QED
      BY <1>0, <2>2, <3>1
  <2>5. FirstDue' = FirstDue
    <3>1. CASE first # 0
      BY <1>1, <3>1 DEF FirstDue
    <3>2. CASE first = 0 /\ wire # <<>>
      BY <1>1, <2>4, <3>2 DEF FirstDue
    <3>3. CASE first = 0 /\ wire = <<>>
      BY <1>1, <2>4, <3>3 DEF FirstDue
    <3> QED
      BY <3>1, <3>2, <3>3
  <2>6. \A a \in 1..made : Owed(a)' => Owed(a)
    BY <1>0, <1>8, <2>5
  <2>7. \A t \in Sessions : sock'[t] = "live" => t = s
    BY <1>0, <1>1, <1>9 DEF OneTab, Sessions
  <2>8. \A a : OnWire(a) => OnWire(a)'
    BY <2>4 DEF OnWire
  <2>9. \A a \in 1..made : (Owed(a)' /\ InStream(a)) => OnWire(a)
    <3>1. \A a \in 1..made : (Owed(a) /\ InStream(a)) => OnWire(a) \/ InRest(s, a)
      BY <1>0, <2>3 DEF Reached, CaughtUp
    <3> QED
      BY <2>3, <2>6, <3>1 DEF InRest
  <2>10. InOrder'
    <3>1. ASSUME NEW a \in Nat, NEW b, b = last', Owed(a)', Ahead(a, b)'
          PROVE  FALSE
      <4>1. b = last /\ b # made + 1
        BY <1>0, <1>1, <3>1 DEF Known
      <4>2. Owed(a) /\ Ahead(a, b)
        BY <1>5, <1>6, <2>6, <3>1, <4>1
      <4> QED
        BY <1>0, <4>1, <4>2 DEF InOrder, LastInOrder
    <3>2. ASSUME NEW n \in DOMAIN wire', NEW a \in Nat, NEW b,
                 b = wire'[n], Owed(a)', Ahead(a, b)'
          PROVE  \E m \in 1..(n - 1) : wire'[m] = a
      <4>1. CASE n \in DOMAIN wire
        <5>1. b = wire[n] /\ b # made + 1
          BY <1>0, <2>4, <3>2, <4>1 DEF Known
        <5>2. Owed(a) /\ Ahead(a, b)
          BY <1>5, <1>6, <2>6, <3>2, <5>1
        <5>3. \E m \in 1..(n - 1) : wire[m] = a
          BY <1>0, <4>1, <5>1, <5>2 DEF InOrder, WireInOrder
        <5> QED
          BY <2>4, <4>1, <5>3
      <4>2. CASE n = Len(wire) + 1
        <5>1. OnWire(a)
          BY <1>6, <2>9, <3>2
        <5> QED
          BY <2>4, <4>2, <5>1 DEF OnWire
      <4> QED
        BY <2>4, <3>2, <4>1, <4>2
    <3>3. \A t \in Sessions : sock'[t] = "live" => DOMAIN rest'[t] = {}
      BY <1>1, <2>3, <2>7
    <3> QED
      BY <3>1, <3>2, <3>3, OrderAfter
  <2>11. CaughtUp'
    <3> SUFFICES ASSUME NEW t \in Sessions, Listening(t)', NEW a \in Nat, Owed(a)', InStream(a)'
                 PROVE  OnWire(a)'
      BY DEF CaughtUp
    <3> QED
      BY <1>4, <2>8, <2>9
  <2>12. Heard'
    <3> SUFFICES ASSUME NEW t \in Sessions, NEW v \in Senders, InTransit(t, v)', sock'[t] = "live",
                        NEW a, a = ev'[t][v]
                 PROVE  a \in seen' \/ OnWire(a)'
      BY DEF Heard, OnWire
    <3>1. CASE <<t, v>> = <<s, w>>
      BY <1>2, <2>4, <3>1 DEF OnWire
    <3>2. CASE <<t, v>> # <<s, w>>
      BY <1>0, <1>1, <1>2, <2>8, <3>2 DEF Heard, Reached, InTransit
    <3> QED
      BY <3>1, <3>2
  <2>13. NotOwed'
    <3> SUFFICES ASSUME NEW r \in Sessions, NEW t \in Sessions, NEW v \in Senders,
                        Listening(r)', t # r, InTransit(t, v)'
                 PROVE  t \in stranded' \/ ev'[t][v] \in excused' \/ ev'[t][v] < FirstDue'
      BY DEF NotOwed
    <3>1. r = s /\ Listening(r)
      BY <1>7, <2>7 DEF Listening
    <3>2. InTransit(t, v) /\ ev'[t][v] = ev[t][v]
      BY <1>2, <3>1 DEF InTransit
    <3> QED
      BY <1>0, <1>1, <2>5, <3>1, <3>2 DEF NotOwed, Reached
  <2> QED
    BY <2>10, <2>11, <2>12, <2>13 DEF Reached
<1>10. CASE sock[s] # "live"
  <2>1. wire' = wire
    BY <1>10 DEF Write, Deliver
  <2>2. FirstDue' \in Nat /\ FirstDue <= FirstDue'
    <3>1. CASE first # 0 \/ wire # <<>>
      BY <1>0, <1>1, <2>1, <3>1 DEF FirstDue
    <3>2. CASE first = 0 /\ wire = <<>>
      BY <1>0, <1>1, <1>3, <2>1, <3>2 DEF FirstDue
    <3> QED
      BY <3>1, <3>2
  <2>3. \A a \in 1..made : Owed(a)' => Owed(a)
    BY <1>8, <2>2
  <2>4. \A t \in Sessions : sock'[t] = "live" => t # s /\ sock[t] = "live" /\ rest'[t] = rest[t]
    BY <1>1, <1>10
  <2>5. InOrder'
    <3>1. ASSUME NEW a \in Nat, NEW b \in 0..made, Owed(a)', Ahead(a, b)'
          PROVE  Owed(a) /\ Ahead(a, b)
      <4>1. b # made + 1
        BY <1>0
      <4> QED
        BY <1>5, <1>6, <2>3, <3>1, <4>1
    <3> QED
      BY <1>0, <1>1, <2>1, <2>4, <3>1, OrderKept
  <2>6. CaughtUp'
    <3> SUFFICES ASSUME NEW t \in Sessions, Listening(t)', NEW a \in Nat, Owed(a)', InStream(a)'
                 PROVE  OnWire(a)' \/ InRest(t, a)'
      BY DEF CaughtUp
    <3>1. Listening(t) /\ Owed(a) /\ InStream(a)
      BY <1>4, <1>7, <2>3
    <3>2. OnWire(a) \/ InRest(t, a)
      BY <1>0, <3>1 DEF CaughtUp, Reached
    <3> QED
      BY <1>1, <2>1, <3>2 DEF OnWire, InRest
  <2>7. Heard'
    <3> SUFFICES ASSUME NEW t \in Sessions, NEW v \in Senders, InTransit(t, v)', sock'[t] = "live"
                 PROVE  ev'[t][v] \in seen' \/ \E n \in DOMAIN wire' : wire'[n] = ev'[t][v]
      BY DEF Heard, OnWire
    <3>1. InTransit(t, v) /\ ev'[t][v] = ev[t][v] /\ sock[t] = "live"
      BY <1>2, <2>4 DEF InTransit
    <3> QED
      BY <1>0, <1>1, <2>1, <3>1 DEF Heard, Reached, OnWire
  <2>8. NotOwed'
    <3> SUFFICES ASSUME NEW r \in Sessions, NEW t \in Sessions, NEW v \in Senders,
                        Listening(r)', t # r, InTransit(t, v)'
                 PROVE  t \in stranded' \/ ev'[t][v] \in excused' \/ ev'[t][v] < FirstDue'
      BY DEF NotOwed
    <3>1. Listening(r)
      BY <1>7
    <3>2. CASE <<t, v>> = <<s, w>>
      <4>1. s < r
        BY <1>0, <1>1, <3>1, <3>2 DEF OneTab, Listening, Sessions
      <4>2. Served(r)
        BY <3>1 DEF Listening, Served
      <4> QED
        BY <1>0, <1>1, <3>2, <4>1, <4>2 DEF Retired
    <3>3. CASE <<t, v>> # <<s, w>>
      <4>1. InTransit(t, v) /\ ev'[t][v] = ev[t][v] /\ ev[t][v] \in Nat
        BY <1>0, <1>2, <3>3 DEF InTransit, TypesOfMessages
      <4>2. t \in stranded \/ ev[t][v] \in excused \/ ev[t][v] < FirstDue
        BY <1>0, <3>1, <4>1 DEF NotOwed, Reached
      <4> QED
        BY <1>0, <1>1, <2>2, <4>1, <4>2
    <3> QED
      BY <3>2, <3>3
  <2> QED
    BY <2>5, <2>6, <2>7, <2>8 DEF Reached
<1> QED
  BY <1>9, <1>10

\* An entry added at the end of the stream: who listens has it coming, and what it
\* overtakes excuses it.
LEMMA PushKeeps ==
    ASSUME StreamAssumption, IInv, ReplayInv, NEW e \in Nat, Push(e),
           excused' = excused \cup Overlapping(e), stranded' = stranded,
           UNCHANGED <<wire, seen, last, rest, sock>>,
           FirstDue' \in Nat, FirstDue <= FirstDue',
           \A a \in 1..made : origin'[a] = origin[a],
           e \in 0..made => Under(e),
           \A t \in Sessions, v \in Senders :
               InTransit(t, v)' => InTransit(t, v) /\ ev'[t][v] = ev[t][v] /\ ev[t][v] # e,
           \A t \in Sessions : Listening(t)' => Listening(t),
           \A t \in Sessions : (Listening(t)' /\ Owed(e)') => OnWire(e)
    PROVE  InOrder' /\ Reached'
<1>0. /\ TypesOfMessages /\ Stored /\ Known /\ Reached /\ InOrder
      /\ made \in Nat /\ FirstDue \in Nat /\ stream \in Seq(Nat)
  <2>1. wire \in Seq(Events) /\ origin \in Seq(Nat) /\ stream \in Seq(Nat)
    BY TypesSplit DEF IInv, TypesOfMessages, TypesOfClient, StreamAssumption, Events
  <2>2. Known
    BY DEF ReplayInv
  <2> QED
    BY <2>1, <2>2, TypesSplit, FirstDueIsMade DEF IInv, ReplayInv, TabInv
<1>1. PICK k \in 0..Len(stream) :
         /\ stream' \in Seq(Nat)
         /\ Len(stream') = Len(stream) + 1 - k
         /\ \A i \in DOMAIN stream' :
              \/ i + k \in DOMAIN stream /\ stream'[i] = stream[i + k]
              \/ i = Len(stream') /\ stream'[i] = e
  BY <1>0, PushEffect
<1>2. \A a : InStream(a)' => InStream(a) \/ a = e
  BY <1>1 DEF InStream
<1>3. ASSUME NEW a, NEW b, Before(a, b)'
      PROVE  InStream(a) /\ (Before(a, b) \/ b = e)
  <2>1. PICK i, j \in DOMAIN stream' : i < j /\ stream'[i] = a /\ stream'[j] = b
    BY <1>3 DEF Before
  <2>2. i \in 1..Len(stream') /\ j \in 1..Len(stream') /\ i # Len(stream')
    BY <1>1, <2>1, SMTT(30)
  <2>3. i + k \in DOMAIN stream /\ stream[i + k] = a
    BY <1>1, <2>1, <2>2
  <2>4. InStream(a)
    BY <2>3 DEF InStream
  <2>5. CASE j + k \in DOMAIN stream /\ stream'[j] = stream[j + k]
    <3>1. i + k < j + k
      BY <1>1, <2>1, <2>2
    <3> QED
      BY <2>1, <2>3, <2>4, <2>5, <3>1 DEF Before
  <2> QED
    BY <1>1, <2>1, <2>4, <2>5
<1>4. \A a \in Nat : (InStream(a) /\ Owed(a)') => Owed(a)
  <2> SUFFICES ASSUME NEW a \in Nat, InStream(a), Owed(a)'
               PROVE  Owed(a)
    OBVIOUS
  <2>1. a \in 1..made
    BY <1>0 DEF InStream, Stored
  <2> QED
    BY <1>0, <2>1, OwedLess
<1>5. ASSUME NEW b, Under(b)'
      PROVE  Under(b) /\ ~Owed(e)'
  <2>1. PICK t \in Sessions, v \in Senders : InTransit(t, v)' /\ ev'[t][v] = b
    BY <1>5 DEF Under
  <2>2. InTransit(t, v) /\ ev[t][v] = b /\ b # e
    BY <2>1
  <2> DEFINE y == <<t, v>>
  <2>3. y \in Sessions \X Senders /\ y[1] = t /\ y[2] = v
    OBVIOUS
  <2>4. b \in InFlight
    BY <2>2, <2>3 DEF InTransit, InFlight
  <2>5. e \in excused'
    BY <2>2, <2>4 DEF Overlapping
  <2> QED
    BY <2>2, <2>5 DEF Under, Owed
<1>6. InOrder'
  <2>1. ASSUME NEW a \in Nat, NEW b \in 0..made, Owed(a)', Ahead(a, b)'
        PROVE  Owed(a) /\ Ahead(a, b)
    <3>1. CASE Before(a, b)'
      BY <1>3, <1>4, <2>1, <3>1 DEF Ahead
    <3>2. CASE InStream(a)' /\ Under(b)'
      BY <1>2, <1>4, <1>5, <2>1, <3>2 DEF Ahead
    <3> QED
      BY <2>1, <3>1, <3>2 DEF Ahead
  <2> QED
    BY <1>0, <2>1, OrderKept
<1>7. CaughtUp'
  <2> SUFFICES ASSUME NEW t \in Sessions, Listening(t)', NEW a \in Nat, Owed(a)', InStream(a)'
               PROVE  OnWire(a)' \/ InRest(t, a)'
    BY DEF CaughtUp
  <2>1. CASE a = e
    BY <2>1 DEF OnWire
  <2>2. CASE InStream(a)
    <3>1. OnWire(a) \/ InRest(t, a)
      BY <1>0, <1>4, <2>2 DEF Reached, CaughtUp
    <3> QED
      BY <3>1 DEF OnWire, InRest
  <2> QED
    BY <1>2, <2>1, <2>2
<1>8. Heard'
  <2> SUFFICES ASSUME NEW t \in Sessions, NEW v \in Senders, InTransit(t, v)', sock'[t] = "live"
               PROVE  ev'[t][v] \in seen' \/ \E n \in DOMAIN wire' : wire'[n] = ev'[t][v]
    BY DEF Heard, OnWire
  <2> QED
    BY <1>0 DEF Heard, Reached, OnWire
<1>9. NotOwed'
  <2> SUFFICES ASSUME NEW s \in Sessions, NEW t \in Sessions, NEW w \in Senders,
                      Listening(s)', t # s, InTransit(t, w)'
               PROVE  t \in stranded' \/ ev'[t][w] \in excused' \/ ev'[t][w] < FirstDue'
    BY DEF NotOwed
  <2>1. Listening(s) /\ InTransit(t, w) /\ ev'[t][w] = ev[t][w] /\ ev[t][w] \in Nat
    BY <1>0 DEF TypesOfMessages
  <2>2. t \in stranded \/ ev[t][w] \in excused \/ ev[t][w] < FirstDue
    BY <1>0, <2>1 DEF Reached, NotOwed
  <2> QED
    BY <1>0, <2>1, <2>2
<1> QED
  BY <1>6, <1>7, <1>8, <1>9 DEF Reached

\* An event that is stored overtakes nothing that is owed and not excused.
LEMMA StoreKeeps ==
    ASSUME StreamAssumption, IInv, ReplayInv, NEW s \in Sessions, NEW w \in Senders, Store(s, w),
           Push(ev[s][w]), excused' = excused \cup Overlapping(ev[s][w])
    PROVE  InOrder' /\ Reached'
<1>0. /\ TypesOfPlaces /\ TypesOfMessages /\ Transit /\ Reached
      /\ FirstDue \in Nat /\ made \in Nat /\ MaxEvents \in Nat
  <2>1. wire \in Seq(Events) /\ origin \in Seq(Nat)
    BY TypesSplit DEF IInv, TypesOfMessages, TypesOfClient, StreamAssumption
  <2>2. Known
    BY DEF ReplayInv
  <2> QED
    BY <2>1, <2>2, TypesSplit, FirstDueIsMade DEF IInv, ReplayInv, StreamAssumption
<1>a. PICK e : e = ev[s][w]
  OBVIOUS
<1>1. /\ UNCHANGED <<wire, seen, first, last, rest, sock, stranded, origin, resumed>>
      /\ InTransit(s, w)
  BY DEF Store, server, client, InTransit
<1>2. /\ at'[s][w] = "idle"
      /\ \A t \in Sessions, v \in Senders :
           <<t, v>> # <<s, w>> => at'[t][v] = at[t][v] /\ ev'[t][v] = ev[t][v]
  BY <1>0 DEF Store, TypesOfPlaces, TypesOfMessages
<1>3. \A t \in Sessions, v \in Senders :
        InTransit(t, v)' => InTransit(t, v) /\ ev'[t][v] = ev[t][v] /\ ev[t][v] # e
  <2> SUFFICES ASSUME NEW t \in Sessions, NEW v \in Senders, InTransit(t, v)'
               PROVE  InTransit(t, v) /\ ev'[t][v] = ev[t][v] /\ ev[t][v] # e
    OBVIOUS
  <2>1. <<t, v>> # <<s, w>>
    BY <1>2 DEF InTransit
  <2>2. InTransit(t, v) /\ ev'[t][v] = ev[t][v]
    BY <1>2, <2>1 DEF InTransit
  <2> QED
    BY <1>0, <1>1, <1>a, <2>1, <2>2 DEF Transit
<1>4. \A t \in Sessions : Listening(t)' => Listening(t)
  BY <1>1, <1>2 DEF Listening, InTransit, Senders
<1>5. FirstDue' = FirstDue
  BY <1>1 DEF FirstDue, made
<1>6. e \in Nat /\ Under(e) /\ origin[e] = s
  BY <1>0, <1>1, <1>a DEF Transit, Under
<1>7. ASSUME NEW t \in Sessions, Listening(t)', Owed(e)'
      PROVE  OnWire(e)
  <2>1. Listening(t) /\ sock[t] = "live"
    BY <1>4, <1>7 DEF Listening
  <2>2. e > FirstDue /\ e \notin seen \cup excused /\ s \notin stranded
    <3>1. excused \subseteq excused'
      OBVIOUS
    <3> QED
      BY <1>1, <1>5, <1>6, <1>7, <3>1 DEF Owed
  <2>3. CASE t = s
    BY <1>0, <1>1, <1>a, <2>1, <2>2, <2>3 DEF Reached, Heard
  <2>4. CASE t # s
    <3>1. s \in stranded \/ e \in excused \/ e < FirstDue
      BY <1>0, <1>1, <1>a, <2>1, <2>4 DEF Reached, NotOwed
    <3> QED
      BY <1>0, <1>6, <2>2, <3>1
  <2> QED
    BY <2>3, <2>4
<1>8. Push(e) /\ excused' = excused \cup Overlapping(e)
  BY <1>a
<1>9. FirstDue' \in Nat /\ FirstDue <= FirstDue' /\ stranded' = stranded
  BY <1>0, <1>1, <1>5
<1>10. UNCHANGED <<wire, seen, last, rest, sock>> /\ \A a \in 1..made : origin'[a] = origin[a]
  BY <1>1
<1> QED
  BY <1>3, <1>4, <1>6, <1>7, <1>8, <1>9, <1>10, PushKeeps

\* The sentinel is stored while nobody listens.
LEMMA SentinelKeeps ==
    ASSUME StreamAssumption, IInv, ReplayInv, PushSentinel,
           Push(made + 1), excused' = excused \cup Overlapping(made + 1),
           origin' = Append(origin, 0)
    PROVE  InOrder' /\ Reached'
<1>0. /\ TypesOfMessages /\ Transit /\ Opened /\ OneTab /\ AtTheDoor /\ Known
      /\ made \in Nat /\ FirstDue \in 1..(made + 1)
      /\ ((first # 0 \/ wire # <<>>) => FirstDue \in 1..made)
  <2>1. wire \in Seq(Events) /\ origin \in Seq(Nat)
    BY TypesSplit DEF IInv, TypesOfMessages, TypesOfClient, StreamAssumption
  <2>2. Known
    BY DEF ReplayInv
  <2> QED
    BY <2>1, <2>2, TypesSplit, FirstDueIsMade DEF IInv, ReplayInv, TabInv
<1>1. /\ UNCHANGED <<wire, seen, first, last, rest, sock, stranded, resumed, at, ev>>
      /\ door # "shut"
  BY DEF PushSentinel, sends, client
<1>2. made' = made + 1 /\ \A a \in 1..made : origin'[a] = origin[a]
  BY <1>0 DEF made, TypesOfMessages
<1>3. FirstDue' \in Nat /\ FirstDue <= FirstDue'
  <2>1. CASE first # 0 \/ wire # <<>>
    BY <1>0, <1>1, <2>1 DEF FirstDue
  <2>2. CASE first = 0 /\ wire = <<>>
    BY <1>0, <1>1, <1>2, <2>2 DEF FirstDue
  <2> QED
    BY <2>1, <2>2
<1>4. \A t \in Sessions, v \in Senders :
        InTransit(t, v)' => InTransit(t, v) /\ ev'[t][v] = ev[t][v] /\ ev[t][v] # made + 1
  <2>1. \A t \in Sessions, v \in Senders : InTransit(t, v) => ev[t][v] # made + 1
    BY <1>0 DEF Transit
  <2> QED
    BY <1>1, <2>1 DEF InTransit
<1>5. \A t \in Sessions : ~Listening(t)'
  <2> SUFFICES ASSUME NEW t \in Sessions, Listening(t)
               PROVE  FALSE
    BY <1>1 DEF Listening
  <2>1. t = Current
    BY <1>0, LiveIsCurrent DEF Listening
  <2>2. ~Served(t)
    BY <1>0, <1>1, <2>1 DEF AtTheDoor
  <2> QED
    BY <2>2 DEF Served, Listening
<1>6. PICK e \in Nat : e = made + 1
  BY <1>0
<1>7. e \notin 0..made
  BY <1>0, <1>6
<1>8. \A t \in Sessions, v \in Senders :
        InTransit(t, v)' => InTransit(t, v) /\ ev'[t][v] = ev[t][v] /\ ev[t][v] # e
  BY <1>4, <1>6
<1>9. Push(e) /\ excused' = excused \cup Overlapping(e)
  BY <1>6
<1> QED
  BY <1>1, <1>2, <1>3, <1>5, <1>7, <1>8, <1>9, PushKeeps

\* Every step keeps the invariant of the replay.
LEMMA ReplayStep == IInv /\ IInv' /\ ReplayInv /\ [Next]_vars => ReplayInv'
<1> SUFFICES ASSUME IInv, IInv', ReplayInv, [Next]_vars
             PROVE  InOrder' /\ Reached'
  BY TabStep, KnownStep DEF ReplayInv
<1> USE StreamAssumption
<1>1. ASSUME NEW s \in Sessions, Connect(s) \/ Leave(s)
      PROVE  InOrder' /\ Reached'
  BY <1>1, SilencedActions
<1>2. ASSUME NEW s \in Sessions, Prompt(s) \/ RunEnds(s) \/ WriteFails(s) \/ Cleanup(s)
      PROVE  InOrder' /\ Reached'
  BY <1>2, RestingActions
<1>3. ASSUME NEW s \in Sessions, Resume(s)
      PROVE  InOrder' /\ Reached'
  BY <1>3, ResumeKeeps
<1>4. ASSUME NEW s \in Sessions, ReadStream(s)
      PROVE  InOrder' /\ Reached'
  BY <1>4, ReadKeeps
<1>5. ASSUME NEW s \in Sessions, ReplayNext(s)
      PROVE  InOrder' /\ Reached'
  BY <1>5, ReplayKeeps
<1>6. ASSUME NEW s \in Sessions, NEW w \in Senders, Write(s, w)
      PROVE  InOrder' /\ Reached'
  BY <1>6, WriteKeeps
<1>7. ASSUME NEW s \in Sessions, NEW w \in Senders, Store(s, w)
      PROVE  InOrder' /\ Reached'
  <2>1. CASE Push(ev[s][w]) /\ excused' = excused \cup Overlapping(ev[s][w])
    BY <1>7, <2>1, StoreKeeps
  <2>2. CASE stream' = stream /\ excused' = excused
    BY <1>7, <2>2, RestingActions
  <2> QED
    BY <1>7, <2>1, <2>2 DEF Store
<1>8. ASSUME NEW s \in Sessions, NEW w \in Senders, CancelledBeforeRedis(s, w)
      PROVE  InOrder' /\ Reached'
  BY <1>8, RestingActions
<1>9. ASSUME PushSentinel
      PROVE  InOrder' /\ Reached'
  <2>1. CASE /\ Push(made + 1) /\ excused' = excused \cup Overlapping(made + 1)
             /\ origin' = Append(origin, 0)
    BY <1>9, <2>1, SentinelKeeps
  <2>2. CASE UNCHANGED <<origin, stream, excused>>
    BY <1>9, <2>2, RestingActions
  <2> QED
    BY <1>9, <2>1, <2>2 DEF PushSentinel
<1>10. ASSUME Evict
       PROVE  InOrder' /\ Reached'
  BY <1>10, RestingActions
<1>11. ASSUME Receive
       PROVE  InOrder' /\ Reached'
  BY <1>11, ReceiveKeeps
<1>12. ASSUME UNCHANGED vars
       PROVE  InOrder' /\ Reached'
  BY <1>12, RestingActions
<1> QED
  BY <1>1, <1>2, <1>3, <1>4, <1>5, <1>6, <1>7, <1>8, <1>9, <1>10, <1>11, <1>12 DEF Next

-----------------------------------------------------------------------------
(* The theorems *)

\* No socket, no event at the start.
LEMMA InvInit == Init => IInv
<1> SUFFICES ASSUME Init
             PROVE  IInv
  OBVIOUS
<1> USE StreamAssumption DEF Init, StreamAssumption, Sessions, Senders, Events
<1>1. TypeOK
  BY DEF TypeOK
<1>2. \A s \in Sessions, w \in Senders : ~InTransit(s, w)
  BY DEF InTransit
<1>3. \A s \in Sessions : ~Served(s)
  BY DEF Served
<1>4. Opened
  <2>1. 0 \in 0..MaxSessions /\ \A s \in Sessions : sock[s] # "none" <=> s <= 0
    OBVIOUS
  <2> QED
    BY <1>3, <2>1 DEF Opened
<1>5. OpenServed /\ Heir
  BY DEF OpenServed, Heir
<1>6. Retired
  BY <1>3 DEF Retired
<1>7. Transit /\ Straggling
  BY <1>2 DEF Transit, Straggling
<1>8. Stored /\ StreamIsALog
  BY DEF Stored, StreamIsALog
<1> QED
  BY <1>1, <1>4, <1>5, <1>6, <1>7, <1>8 DEF IInv

\* The inductive invariant: which sockets a session may still have open (registry of
\* connection.py), and where a message is between its send and the stream.
THEOREM StreamInvariant == Spec => []IInv
<1>1. Init => IInv
  BY InvInit
<1>2. IInv /\ [Next]_vars => IInv'
  BY TypesStep, SessionStep, MessageStep DEF IInv, SessionInv, MessageInv
<1> QED
  BY <1>1, <1>2, PTL DEF Spec

\* The variables have their types (ConnectionState.send, the resume branch), for any
\* number of sockets, messages and failures.
THEOREM StreamTypes == Spec => []TypeOK
<1>1. IInv => TypeOK
  BY DEF IInv
<1> QED
  BY <1>1, StreamInvariant, PTL

\* The stream is a log (push_event after the send, the sentinel before the cancel):
\* no message twice, and none of a session after one of its successor's unless it
\* was under way or its session stranded; for any length of the stream.
THEOREM StreamLog == Spec => []StreamIsALog
<1>1. IInv => StreamIsALog
  BY DEF IInv
<1> QED
  BY <1>1, StreamInvariant, PTL

\* Nobody is owed anything at the start.
LEMMA ReplayInit == Init => ReplayInv
<1> SUFFICES ASSUME Init
             PROVE  ReplayInv
  OBVIOUS
<1> USE StreamAssumption DEF Init, StreamAssumption, Sessions, Senders, Events
<1>1. OneTab
  BY DEF OneTab
<1>2. ResumeAlone
  BY DEF ResumeAlone
<1>3. AtTheDoor
  BY DEF AtTheDoor
<1>4. Known
  BY DEF Known, made
<1>5. InOrder
  BY DEF InOrder, LastInOrder, WireInOrder, RestInOrder, Ahead, Before, InStream
<1>6. Reached
  BY DEF Reached, CaughtUp, Heard, NotOwed, Listening, InTransit
<1> QED
  BY <1>1, <1>2, <1>3, <1>4, <1>5, <1>6 DEF ReplayInv, TabInv

\* What a client is owed is on its way to it, ahead of every event stored later: the
\* invariant of a tab that listens, resumes and is replayed to.
THEOREM ReplayInvariant == Spec => []ReplayInv
<1>1. Init => ReplayInv
  BY ReplayInit
<1> QED
  BY <1>1, ReplayStep, StreamInvariant, PTL DEF Spec

\* With nothing owed ahead of the last event, that event is a safe anchor.
LEMMA AnchorHolds == IInv /\ ReplayInv => AnchorIsSafe
<1> SUFFICES ASSUME IInv, ReplayInv, NEW i \in DOMAIN stream, NEW j \in DOMAIN stream,
                    i < j, stream[j] = last, stream[i] > first,
                    stream[i] \notin seen \cup excused, origin[stream[i]] \notin stranded
             PROVE  FALSE
  BY DEF AnchorIsSafe
<1>1. Stored /\ Known /\ LastInOrder /\ made \in Nat
  BY TypesSplit DEF IInv, ReplayInv, InOrder, TypesOfMessages, made
<1>2. stream[i] \in 1..made /\ last \in 1..made
  BY <1>1 DEF Stored
<1>3. FirstDue = first
  BY <1>1, <1>2 DEF Known, FirstDue
<1>4. PICK a \in Nat : a = stream[i]
  BY <1>1, <1>2
<1>5. Owed(a)
  BY <1>3, <1>4 DEF Owed
<1>6. Ahead(a, last)
  BY <1>4 DEF Ahead, Before
<1> QED
  BY <1>1, <1>5, <1>6 DEF LastInOrder

\* A resume may start after the event it names (resume branch of connection.py,
\* get_events): what the stream holds before it, since the client's first event, the
\* client has, but for what overlapped a store or a read and for stranded sessions;
\* for any number of sockets, messages and failures and any length of the stream.
THEOREM AnchorSafe == Spec => []AnchorIsSafe
BY AnchorHolds, StreamInvariant, ReplayInvariant, PTL

=============================================================================
