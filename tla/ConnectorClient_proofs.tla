------------------------- MODULE ConnectorClient_proofs -------------------------
(***************************************************************************)
(* Proofs about ConnectorClient for every limit of requests, events and    *)
(* unread messages: what host and connector tell each other is sound.      *)
(***************************************************************************)
EXTENDS ConnectorClient, FiniteSetTheorems, TLAPS

-----------------------------------------------------------------------------
(* Types                                                                   *)

Calls == [method : Methods, state : {"waiting", "refused", "timeout", "answered", "error"}]
Commands == [id : Nat, method : Methods]
Messages == [type : {"event", "response"}, name : {"none", "started", "record", "finished"},
             seq : Nat, id : Nat, ok : BOOLEAN]
Runs == {"none", "accepted", "opening", "started", "working", "emitting", "finishing",
         "finished", "done"}
Hosts == [closed : BOOLEAN, closing : {"no", "asked", "waits", "closed"},
          error : {"none", "EVENT_BUFFER_FULL", "TRANSPORT_CLOSED"},
          queue : Seq(Messages), got : Seq(Messages)]
Connectors == [serving : {"next", "draining", "stopping", "joining"}, id : Nat, run : Runs,
               cancelled : BOOLEAN, seq : Nat, emitted : Nat, lock : {"free", "serve", "run"},
               torn : BOOLEAN]

ClientTypeOK ==
  /\ host \in Hosts /\ conn \in Connectors
  /\ call \in Seq(Calls) /\ up \in Seq(Commands) /\ down \in Seq(Messages)
  /\ child \in {"alive", "gone"}

\* A host or a connector stays one when one of its parts takes another value.
LEMMA PartTypes ==
  /\ \A h \in Hosts :
       /\ \A v \in BOOLEAN : [h EXCEPT !.closed = v] \in Hosts
       /\ \A v \in {"no", "asked", "waits", "closed"} : [h EXCEPT !.closing = v] \in Hosts
       /\ \A v \in {"none", "EVENT_BUFFER_FULL", "TRANSPORT_CLOSED"} : [h EXCEPT !.error = v] \in Hosts
       /\ \A v \in Seq(Messages) : [h EXCEPT !.queue = v] \in Hosts /\ [h EXCEPT !.got = v] \in Hosts
  /\ \A c \in Connectors :
       /\ \A v \in {"next", "draining", "stopping", "joining"} : [c EXCEPT !.serving = v] \in Connectors
       /\ \A v \in {"free", "serve", "run"} : [c EXCEPT !.lock = v] \in Connectors
       /\ \A v \in Runs : [c EXCEPT !.run = v] \in Connectors
       /\ \A v \in BOOLEAN : [c EXCEPT !.cancelled = v] \in Connectors /\ [c EXCEPT !.torn = v] \in Connectors
       /\ \A v \in Nat : /\ [c EXCEPT !.id = v] \in Connectors
                          /\ [c EXCEPT !.seq = v] \in Connectors
                          /\ [c EXCEPT !.emitted = v] \in Connectors
<1>1. ASSUME NEW h \in Hosts
      PROVE  /\ \A v \in BOOLEAN : [h EXCEPT !.closed = v] \in Hosts
             /\ \A v \in {"no", "asked", "waits", "closed"} : [h EXCEPT !.closing = v] \in Hosts
             /\ \A v \in {"none", "EVENT_BUFFER_FULL", "TRANSPORT_CLOSED"} : [h EXCEPT !.error = v] \in Hosts
             /\ \A v \in Seq(Messages) : [h EXCEPT !.queue = v] \in Hosts
             /\ \A v \in Seq(Messages) : [h EXCEPT !.got = v] \in Hosts
  BY DEF Hosts
<1>2. ASSUME NEW c \in Connectors
      PROVE  /\ \A v \in {"next", "draining", "stopping", "joining"} : [c EXCEPT !.serving = v] \in Connectors
             /\ \A v \in {"free", "serve", "run"} : [c EXCEPT !.lock = v] \in Connectors
             /\ \A v \in Runs : [c EXCEPT !.run = v] \in Connectors
             /\ \A v \in BOOLEAN : [c EXCEPT !.cancelled = v] \in Connectors
             /\ \A v \in BOOLEAN : [c EXCEPT !.torn = v] \in Connectors
             /\ \A v \in Nat : [c EXCEPT !.id = v] \in Connectors
             /\ \A v \in Nat : [c EXCEPT !.seq = v] \in Connectors
             /\ \A v \in Nat : [c EXCEPT !.emitted = v] \in Connectors
  BY DEF Connectors
<1>3. QED
  BY <1>1, <1>2

\* What may appear in the pipe to the host.
LEMMA MessageTypes ==
  /\ \A name \in {"started", "record", "finished"}, seq \in Nat : Event(name, seq) \in Messages
  /\ \A id \in Nat, ok \in BOOLEAN : Response(id, ok) \in Messages
BY DEF Event, Response, Messages

\* The requests in the order in which they were made, after one is settled or all are.
LEMMA CallTypes ==
  ASSUME call \in Seq(Calls), NEW s \in {"timeout", "answered", "error"}
  PROVE  /\ \A n \in DOMAIN call : [call EXCEPT ![n].state = s] \in Seq(Calls)
         /\ [n \in DOMAIN call |-> IF n \in Waiting THEN [call[n] EXCEPT !.state = "error"]
                                   ELSE call[n]] \in Seq(Calls)
<1>1. \A n \in DOMAIN call : call[n] \in Calls
  OBVIOUS
<1>2. ASSUME NEW n \in DOMAIN call
      PROVE  [call EXCEPT ![n].state = s] \in Seq(Calls)
  <2>1. [call[n] EXCEPT !.state = s] \in Calls
    BY <1>1 DEF Calls
  <2>2. [call EXCEPT ![n].state = s] = [call EXCEPT ![n] = [call[n] EXCEPT !.state = s]]
    BY <1>1
  <2>3. QED
    BY <2>1, <2>2
<1>3. [n \in DOMAIN call |-> IF n \in Waiting THEN [call[n] EXCEPT !.state = "error"]
                             ELSE call[n]] \in Seq(Calls)
  <2>1. \A n \in DOMAIN call : [call[n] EXCEPT !.state = "error"] \in Calls
    BY <1>1 DEF Calls
  <2>2. DOMAIN call = 1 .. Len(call)
    OBVIOUS
  <2>3. QED
    BY <1>1, <2>1, <2>2
<1>4. QED
  BY <1>2, <1>3

LEMMA ClientTypeInit == ClientInit => ClientTypeOK
BY DEF ClientInit, ClientTypeOK, Hosts, Connectors, Runs

LEMMA ClientTypeStep == ClientTypeOK /\ [ClientNext]_clientVars => ClientTypeOK'
<1>1. SUFFICES ASSUME ClientTypeOK, [ClientNext]_clientVars
               PROVE  ClientTypeOK'
  OBVIOUS
<1>2. /\ host \in Hosts /\ conn \in Connectors
      /\ call \in Seq(Calls) /\ up \in Seq(Commands) /\ down \in Seq(Messages)
      /\ child \in {"alive", "gone"}
  BY <1>1 DEF ClientTypeOK
<1>3. ASSUME NEW x \in {"EVENT_BUFFER_FULL", "TRANSPORT_CLOSED"}, Ended(x)
      PROVE  host' \in Hosts /\ call' \in Seq(Calls)
  <2>1. PICK e \in {"none", "EVENT_BUFFER_FULL", "TRANSPORT_CLOSED"} :
          host' = [[host EXCEPT !.closed = TRUE] EXCEPT !.error = e]
    BY <1>2, <1>3 DEF Ended, Hosts
  <2>2. host' \in Hosts
    BY <1>2, <2>1, PartTypes
  <2>3. call' \in Seq(Calls)
    BY <1>2, <1>3, CallTypes DEF Ended
  <2>4. QED
    BY <2>2, <2>3
<1>4. down # <<>> => Head(down) \in Messages /\ Tail(down) \in Seq(Messages)
  BY <1>2
<1>5. up # <<>> => Head(up) \in Commands /\ Tail(up) \in Seq(Commands)
  BY <1>2
<1>6. CASE UNCHANGED clientVars
  BY <1>2, <1>6 DEF clientVars, ClientTypeOK
<1>7. ASSUME NEW m \in Methods, Request(m)
      PROVE  ClientTypeOK'
  <2>1. \A s \in {"refused", "waiting"} : [method |-> m, state |-> s] \in Calls
    BY DEF Calls
  <2>2. [id |-> Len(call) + 1, method |-> m] \in Commands
    BY <1>2 DEF Commands
  <2>3. /\ \A s \in {"refused", "waiting"} : Append(call, [method |-> m, state |-> s]) \in Seq(Calls)
        /\ Append(up, [id |-> Len(call) + 1, method |-> m]) \in Seq(Commands)
    BY <1>2, <2>1, <2>2
  <2>4. /\ call' \in {Append(call, [method |-> m, state |-> s]) : s \in {"refused", "waiting"}}
        /\ up' \in {up, Append(up, [id |-> Len(call) + 1, method |-> m])}
    BY <1>7 DEF Request
  <2>5. call' \in Seq(Calls) /\ up' \in Seq(Commands)
    BY <1>2, <2>3, <2>4
  <2>6. QED
    BY <1>2, <1>7, <2>5 DEF Request, ClientTypeOK
<1>8. ASSUME NEW n \in DOMAIN call, TimesOut(n)
      PROVE  ClientTypeOK'
  BY <1>2, <1>8, CallTypes DEF TimesOut, ClientTypeOK
<1>9. CASE ReadsEvent
  <2>1. host' \in Hosts /\ call' \in Seq(Calls)
    <3>1. CASE Ended("EVENT_BUFFER_FULL")
      BY <3>1, <1>3
    <3>2. CASE host' = [host EXCEPT !.queue = Append(host.queue, Head(down))] /\ call' = call
      <4>1. Append(host.queue, Head(down)) \in Seq(Messages)
        BY <1>2, <1>4, <1>9 DEF Hosts, ReadsEvent
      <4>2. QED
        BY <1>2, <3>2, <4>1, PartTypes
    <3>3. QED
      BY <1>9, <3>1, <3>2 DEF ReadsEvent
  <2>2. QED
    BY <1>2, <1>4, <1>9, <2>1 DEF ReadsEvent, ClientTypeOK
<1>10. CASE ReadsResponse
  BY <1>2, <1>4, <1>10, CallTypes DEF ReadsResponse, Waiting, ClientTypeOK
<1>11. CASE ReadsEnd
  BY <1>2, <1>3, <1>11 DEF ReadsEnd, ClientTypeOK
<1>12. CASE Consumes
  <2>1. Tail(host.queue) \in Seq(Messages) /\ Append(host.got, Head(host.queue)) \in Seq(Messages)
    BY <1>2, <1>12 DEF Consumes, Hosts
  <2>2. host' = [[host EXCEPT !.queue = Tail(host.queue)]
                 EXCEPT !.got = Append(host.got, Head(host.queue))]
    BY <1>2, <1>12 DEF Consumes, Hosts
  <2>4. host' \in Hosts
    BY <1>2, <2>1, <2>2, PartTypes
  <2>3. QED
    BY <1>2, <1>12, <2>4 DEF Consumes, ClientTypeOK
<1>13. CASE CloseBegins
  <2>1. [method |-> "shutdown", state |-> "waiting"] \in Calls
    BY DEF Calls, Methods
  <2>2. [id |-> Len(call) + 1, method |-> "shutdown"] \in Commands
    BY <1>2 DEF Commands, Methods
  <2>3. /\ call' = Append(call, [method |-> "shutdown", state |-> "waiting"]) \/ call' = call
        /\ up' = Append(up, [id |-> Len(call) + 1, method |-> "shutdown"]) \/ up' = up
    BY <1>13 DEF CloseBegins
  <2>4. call' \in Seq(Calls) /\ up' \in Seq(Commands)
    <3>1. /\ Append(call, [method |-> "shutdown", state |-> "waiting"]) \in Seq(Calls)
          /\ Append(up, [id |-> Len(call) + 1, method |-> "shutdown"]) \in Seq(Commands)
      BY <1>2, <2>1, <2>2
    <3>2. QED
      BY <1>2, <2>3, <3>1
  <2>5. PICK v \in {"asked", "waits"} : host' = [host EXCEPT !.closing = v]
    BY <1>13 DEF CloseBegins
  <2>6. host' \in Hosts
    BY <1>2, <2>5, PartTypes
  <2>7. QED
    BY <1>2, <1>13, <2>4, <2>6 DEF CloseBegins, ClientTypeOK
<1>14. CASE HostCloses
  <2>1. CASE CloseWaits \/ CloseKills
    <3>1. host' \in Hosts
      BY <1>2, <2>1, PartTypes DEF CloseWaits, CloseKills
    <3>2. QED
      BY <1>2, <2>1, <3>1 DEF CloseWaits, CloseKills, ClientTypeOK
  <2>2. CASE CloseEnds
    <3>1. call' \in Seq(Calls)
      BY <1>2, <2>2, CallTypes DEF CloseEnds
    <3>2. host' = [[host EXCEPT !.closing = "closed"] EXCEPT !.closed = TRUE]
      BY <1>2, <2>2 DEF CloseEnds, Hosts
    <3>3. host' \in Hosts
      BY <1>2, <3>2, PartTypes
    <3>4. QED
      BY <1>2, <2>2, <3>1, <3>3 DEF CloseEnds, ClientTypeOK
  <2>3. QED
    BY <1>14, <2>1, <2>2 DEF HostCloses
<1>15. CASE Serves
  <2>1. Reply(Head(up).method) \in BOOLEAN
    BY DEF Reply
  <2>2. Response(Head(up).id, Reply(Head(up).method)) \in Messages
    BY <1>5, <1>15, <2>1, MessageTypes DEF Serves, Commands
  <2>3. /\ \E v \in Runs, x \in BOOLEAN :
             conn' = [[[[conn EXCEPT !.serving = "draining"] EXCEPT !.lock = "serve"]
                      EXCEPT !.run = v] EXCEPT !.cancelled = x]
        /\ down' = Append(down, Response(Head(up).id, Reply(Head(up).method)))
    <3> DEFINE v == IF Head(up).method = "start" /\ Reply(Head(up).method) THEN "accepted" ELSE conn.run
               x == conn.cancelled \/ (Head(up).method = "abort" /\ Reply(Head(up).method))
    <3>1. v \in Runs /\ x \in BOOLEAN
      BY <1>2 DEF Connectors, Runs
    <3>2. conn' = [conn EXCEPT !.serving = "draining", !.lock = "serve", !.run = v, !.cancelled = x]
      BY <1>15 DEF Serves
    <3>3. conn' = [[[[conn EXCEPT !.serving = "draining"] EXCEPT !.lock = "serve"]
                   EXCEPT !.run = v] EXCEPT !.cancelled = x]
      <4> HIDE DEF v, x
      <4>1. QED
        BY <1>2, <3>2 DEF Connectors
    <3>4. down' = Append(down, Response(Head(up).id, Reply(Head(up).method)))
      BY <1>15 DEF Serves
    <3>5. QED
      BY <3>1, <3>3, <3>4
  <2>4. conn' \in Connectors
    <3>1. PICK v \in Runs, x \in BOOLEAN :
            conn' = [[[[conn EXCEPT !.serving = "draining"] EXCEPT !.lock = "serve"]
                     EXCEPT !.run = v] EXCEPT !.cancelled = x]
      BY <2>3
    <3>2. PICK c : c = [conn EXCEPT !.serving = "draining"]
      OBVIOUS
    <3>3. PICK d : d = [c EXCEPT !.lock = "serve"]
      OBVIOUS
    <3>4. PICK e : e = [d EXCEPT !.run = v]
      OBVIOUS
    <3>5. c \in Connectors
      BY <1>2, <3>2, PartTypes
    <3>6. d \in Connectors
      BY <3>3, <3>5, PartTypes
    <3>7. e \in Connectors
      BY <3>4, <3>6, PartTypes
    <3>8. QED
      BY <3>1, <3>2, <3>3, <3>4, <3>7, PartTypes
  <2>5. QED
    BY <1>2, <1>5, <1>15, <2>2, <2>3, <2>4 DEF Serves, ClientTypeOK
<1>16. CASE ServeDrained \/ CancelsRun \/ RunReturns \/ ChildDies
  <2>1. CASE ServeDrained
    <3>1. PICK v \in Runs :
            conn' = [[[conn EXCEPT !.serving = "next"] EXCEPT !.lock = "free"] EXCEPT !.run = v]
      BY <1>2, <2>1 DEF ServeDrained, Connectors, Runs
    <3>2. conn' \in Connectors
      BY <1>2, <3>1, PartTypes
    <3>3. QED
      BY <1>2, <2>1, <3>2 DEF ServeDrained, ClientTypeOK
  <2>2. CASE CancelsRun
    <3>1. CASE conn' = [conn EXCEPT !.run = "finishing", !.serving = "joining"]
      <4>1. conn' = [[conn EXCEPT !.run = "finishing"] EXCEPT !.serving = "joining"]
        BY <1>2, <3>1 DEF Connectors
      <4>2. QED
        BY <1>2, <2>2, <4>1, PartTypes DEF CancelsRun, ClientTypeOK, Runs
    <3>2. CASE conn' = [conn EXCEPT !.run = "finishing", !.serving = "joining", !.lock = "free", !.torn = TRUE]
      <4>1. conn' = [[[[conn EXCEPT !.run = "finishing"] EXCEPT !.serving = "joining"]
                     EXCEPT !.lock = "free"] EXCEPT !.torn = TRUE]
        BY <1>2, <3>2 DEF Connectors
      <4>2. conn' \in Connectors
        BY <1>2, <4>1, PartTypes DEF Runs
      <4>3. QED
        BY <1>2, <2>2, <4>2 DEF CancelsRun, ClientTypeOK
    <3>3. CASE conn' = [conn EXCEPT !.run = "done", !.lock = "free", !.torn = TRUE]
      <4>1. conn' = [[[conn EXCEPT !.run = "done"] EXCEPT !.lock = "free"] EXCEPT !.torn = TRUE]
        BY <1>2, <3>3 DEF Connectors
      <4>2. conn' \in Connectors
        BY <1>2, <4>1, PartTypes DEF Runs
      <4>3. QED
        BY <1>2, <2>2, <4>2 DEF CancelsRun, ClientTypeOK
    <3>4. QED
      BY <2>2, <3>1, <3>2, <3>3 DEF CancelsRun
  <2>3. CASE RunReturns \/ ChildDies
    <3>1. conn' \in Connectors
      BY <1>2, <2>3, PartTypes DEF RunReturns, ChildDies, Runs
    <3>2. QED
      BY <1>2, <2>3, <3>1 DEF RunReturns, ChildDies, ClientTypeOK
  <2>4. QED
    BY <1>16, <2>1, <2>2, <2>3
<1>17. CASE StopBegins
  <2>1. PICK i \in Nat, x \in BOOLEAN :
          conn' = [conn EXCEPT !.serving = "stopping", !.id = i, !.cancelled = x]
    <3>1. (IF up # <<>> THEN Head(up).id ELSE 0) \in Nat
      BY <1>5 DEF Commands
    <3>2. (conn.cancelled \/ conn.run \notin {"none", "done"}) \in BOOLEAN
      OBVIOUS
    <3>3. QED
      BY <1>17, <3>1, <3>2 DEF StopBegins
  <2>2. conn' = [[[conn EXCEPT !.serving = "stopping"] EXCEPT !.id = i] EXCEPT !.cancelled = x]
    BY <1>2, <2>1 DEF Connectors
  <2>3. conn' \in Connectors
    BY <1>2, <2>2, PartTypes
  <2>4. QED
    BY <1>2, <1>5, <1>17, <2>3 DEF StopBegins, ClientTypeOK
<1>18. CASE StopEnds
  <2>1. Response(conn.id, TRUE) \in Messages
    BY <1>2, MessageTypes DEF Connectors
  <2>2. down' \in Seq(Messages)
    <3>1. PICK m \in Messages : m = Response(conn.id, TRUE)
      BY <2>1
    <3>2. Append(down, m) \in Seq(Messages)
      BY <1>2
    <3>3. down' = down \/ down' = Append(down, m)
      BY <1>18, <3>1 DEF StopEnds
    <3>4. QED
      BY <1>2, <3>2, <3>3
  <2>3. QED
    BY <1>2, <1>18, <2>2 DEF StopEnds, ClientTypeOK
<1>19. ASSUME NEW name \in {"started", "record", "finished"}, NEW from \in Runs, NEW to \in Runs,
              Emits(name, from, to)
       PROVE  ClientTypeOK'
  <2>1. Event(name, conn.seq) \in Messages
    BY <1>2, MessageTypes DEF Connectors
  <2>4. conn.emitted + 1 \in Nat
    BY <1>2 DEF Connectors
  <2>5. conn' = [[[conn EXCEPT !.run = to] EXCEPT !.lock = "run"] EXCEPT !.emitted = conn.emitted + 1]
    BY <1>2, <1>19 DEF Emits, Connectors
  <2>6. conn' \in Connectors
    BY <1>2, <2>4, <2>5, PartTypes
  <2>3. QED
    BY <1>2, <1>19, <2>1, <2>6 DEF Emits, ClientTypeOK
<1>20. ASSUME NEW at, NEW to \in Runs, EmitDrained(at, to)
       PROVE  ClientTypeOK'
  <2>1. conn.seq + 1 \in Nat
    BY <1>2 DEF Connectors
  <2>2. conn' = [[[conn EXCEPT !.run = to] EXCEPT !.lock = "free"] EXCEPT !.seq = conn.seq + 1]
    BY <1>2, <1>20 DEF EmitDrained, Connectors
  <2>3. conn' \in Connectors
    BY <1>2, <2>1, <2>2, PartTypes
  <2>4. QED
    BY <1>2, <1>20, <2>3 DEF EmitDrained, ClientTypeOK
<1>21. QED
  BY <1>1, <1>6, <1>7, <1>8, <1>9, <1>10, <1>11, <1>12, <1>13, <1>14, <1>15, <1>16, <1>17, <1>18,
     <1>19, <1>20
     DEF ClientNext, HostReads, ConnectorSteps, RunStarts, RunEmitted, RunFinishes, RunEmits, Runs

-----------------------------------------------------------------------------
(* The invariant                                                           *)

\* The run holds the lock while it writes, and what it has written is what it counted
\* and what it is writing.
RunPlace ==
  /\ conn.lock = "run" <=> conn.run \in {"started", "emitting", "finished"}
  /\ conn.emitted = 0 <=> conn.run \in {"none", "accepted", "opening"}
  /\ ~conn.torn => conn.emitted = conn.seq + (IF conn.lock = "run" THEN 1 ELSE 0)

\* What is on its way belongs to a request.
RequestPlace ==
  /\ conn.id # 0 => conn.id \in DOMAIN call /\ call[conn.id].method = "shutdown"
  /\ \A i \in DOMAIN up : up[i].id \in DOMAIN call /\ call[up[i].id].method = up[i].method
  /\ \A i \in DOMAIN down : down[i].type = "response" => down[i].id \in DOMAIN call

\* Start was granted: the answer has arrived or is on its way.
Granted(n) ==
  /\ n \in DOMAIN call /\ call[n].method = "start"
  /\ \/ call[n].state = "answered"
     \/ \E i \in DOMAIN down : down[i].type = "response" /\ down[i].ok /\ down[i].id = n

GrantPlace ==
  /\ \A m, n \in DOMAIN call : Granted(m) /\ Granted(n) => m = n
  /\ (\E n \in DOMAIN call : Granted(n)) => conn.run # "none"

\* Nobody waits for a response behind the end of the stream, and never too many.
WaitingPlace ==
  /\ host.closed => Waiting = {}
  /\ Cardinality(Waiting) <= MaxPending

Over(o) == o.run \in {"finished", "done"}

\* Counting from k the events among the messages m ends at what o has emitted; the
\* first is run.started, the last may be run.finished, and each has its number.
Counts(c, m, k, o) ==
  /\ c \in [0 .. Len(m) -> Nat] /\ c[0] = k /\ c[Len(m)] = o.emitted
  /\ \A i \in 0 .. Len(m) : c[i] <= o.emitted
  /\ \A i \in 1 .. Len(m) :
       /\ m[i].type # "event" => c[i] = c[i - 1]
       /\ m[i].type = "event" =>
            /\ c[i] = c[i - 1] + 1
            /\ m[i].name = "started" <=> c[i] = 1
            /\ m[i].name = "finished" => c[i] = o.emitted /\ Over(o)
            /\ ~o.torn => m[i].seq = c[i] - 1

PipePlace ==
  \/ host.closed
  \/ /\ \E c \in [0 .. Len(down) -> Nat] : Counts(c, down, Len(Delivered), conn)
     /\ \A n \in DOMAIN Delivered :
          Delivered[n].name = "finished" => n = conn.emitted /\ Over(conn)

ClientInv ==
  /\ ClientTypeOK /\ RunPlace /\ RequestPlace /\ GrantPlace /\ WaitingPlace
  /\ PipePlace /\ EventsInOrder

-----------------------------------------------------------------------------
(* What a step may do                                                      *)

\* The steps that touch the connector's state.
LEMMA ConnectorMoves ==
  ASSUME [ClientNext]_clientVars
  PROVE  \/ conn' = conn
         \/ Serves \/ ServeDrained \/ StopBegins \/ CancelsRun \/ RunReturns
         \/ Emits("started", "opening", "started")
         \/ Emits("record", "working", "emitting")
         \/ Emits("finished", "finishing", "finished")
         \/ EmitDrained("started", "working")
         \/ EmitDrained("emitting", "working")
         \/ EmitDrained("finished", "done")
<1>1. CASE UNCHANGED clientVars
  BY <1>1 DEF clientVars
<1>2. ASSUME NEW m \in Methods, Request(m)
      PROVE  conn' = conn
  BY <1>2 DEF Request
<1>3. ASSUME NEW n \in DOMAIN call, TimesOut(n)
      PROVE  conn' = conn
  BY <1>3 DEF TimesOut
<1>4. CASE HostReads \/ Consumes \/ CloseBegins \/ HostCloses \/ StopEnds \/ ChildDies
  BY <1>4 DEF HostReads, ReadsEvent, ReadsResponse, ReadsEnd, Consumes, CloseBegins, HostCloses,
              CloseWaits, CloseKills, CloseEnds, StopEnds, ChildDies
<1>5. QED
  BY <1>1, <1>2, <1>3, <1>4
     DEF ClientNext, ConnectorSteps, RunStarts, RunEmits, RunEmitted, RunFinishes

\* A request is never taken back, nor does it become another one.
LEMMA CallsKept ==
  ASSUME ClientTypeOK, [ClientNext]_clientVars
  PROVE  \A n \in DOMAIN call :
           /\ n \in DOMAIN call' /\ call'[n].method = call[n].method
           /\ call'[n].state = "answered" =>
                \/ call[n].state = "answered"
                \/ /\ down # <<>> /\ Head(down).type = "response" /\ Head(down).ok
                   /\ Head(down).id = n
           /\ call'[n].state = "waiting" => call[n].state = "waiting"
<1> DEFINE Kept == \A n \in DOMAIN call :
                     /\ n \in DOMAIN call' /\ call'[n].method = call[n].method
                     /\ call'[n].state = "answered" =>
                          \/ call[n].state = "answered"
                          \/ /\ down # <<>> /\ Head(down).type = "response" /\ Head(down).ok
                             /\ Head(down).id = n
                     /\ call'[n].state = "waiting" => call[n].state = "waiting"
<1>1. call \in Seq(Calls) /\ \A n \in DOMAIN call : call[n] \in Calls
  BY DEF ClientTypeOK
<1>2. call' = call => Kept
  OBVIOUS
<1>3. ASSUME NEW x, call' = Append(call, x)
      PROVE  Kept
  BY <1>1, <1>3
<1>4. ASSUME call' = [n \in DOMAIN call |-> IF n \in Waiting THEN [call[n] EXCEPT !.state = "error"]
                                            ELSE call[n]]
      PROVE  Kept
  BY <1>1, <1>4 DEF Calls
<1>5. ASSUME NEW n \in DOMAIN call, TimesOut(n)
      PROVE  Kept
  BY <1>1, <1>5 DEF TimesOut, Calls
<1>6. ASSUME ReadsResponse
      PROVE  Kept
  <2>1. CASE Head(down).id \in Waiting /\ Head(down).ok
    <3>1. call' = [call EXCEPT ![Head(down).id].state = "answered"]
      BY <1>6, <2>1 DEF ReadsResponse
    <3>2. QED
      BY <1>1, <1>6, <2>1, <3>1 DEF ReadsResponse, Calls
  <2>2. CASE Head(down).id \in Waiting /\ ~Head(down).ok
    <3>1. call' = [call EXCEPT ![Head(down).id].state = "error"]
      BY <1>6, <2>2 DEF ReadsResponse
    <3>2. QED
      BY <1>1, <2>2, <3>1 DEF Calls
  <2>3. CASE Head(down).id \notin Waiting
    BY <1>2, <1>6, <2>3 DEF ReadsResponse
  <2>4. QED
    BY <2>1, <2>2, <2>3
<1>7. CASE UNCHANGED clientVars
  BY <1>2, <1>7 DEF clientVars
<1>8. ASSUME NEW m \in Methods, Request(m)
      PROVE  Kept
  BY <1>3, <1>8 DEF Request
<1>9. CASE ReadsEvent \/ ReadsEnd
  BY <1>2, <1>4, <1>9 DEF ReadsEvent, ReadsEnd, Ended
<1>10. CASE Consumes \/ CloseWaits \/ CloseKills \/ ConnectorSteps \/ RunEmits \/ ChildDies
  BY <1>2, <1>10 DEF Consumes, CloseWaits, CloseKills, ConnectorSteps, Serves, ServeDrained,
     StopBegins, CancelsRun, StopEnds, RunStarts, RunEmitted, RunReturns, RunFinishes, RunEmits,
     Emits, EmitDrained, ChildDies
<1>11. CASE CloseBegins
  BY <1>2, <1>3, <1>11 DEF CloseBegins
<1>12. CASE CloseEnds
  BY <1>4, <1>12 DEF CloseEnds
<1>13. QED
  BY <1>5, <1>6, <1>7, <1>8, <1>9, <1>10, <1>11, <1>12 DEF ClientNext, HostReads, HostCloses

\* What may happen to the commands under way.
LEMMA UpMoves ==
  ASSUME [ClientNext]_clientVars
  PROVE  \/ up' = up
         \/ up # <<>> /\ up' = Tail(up)
         \/ \E m \in Methods : /\ call' = Append(call, [method |-> m, state |-> "waiting"])
                               /\ up' = Append(up, [id |-> Len(call) + 1, method |-> m])
<1>1. ASSUME NEW m \in Methods, Request(m)
      PROVE  \/ up' = up
             \/ /\ call' = Append(call, [method |-> m, state |-> "waiting"])
                /\ up' = Append(up, [id |-> Len(call) + 1, method |-> m])
  BY <1>1 DEF Request
<1>2. CASE CloseBegins
  <2>1. \/ up' = up
        \/ /\ call' = Append(call, [method |-> "shutdown", state |-> "waiting"])
           /\ up' = Append(up, [id |-> Len(call) + 1, method |-> "shutdown"])
    BY <1>2 DEF CloseBegins
  <2>2. "shutdown" \in Methods
    BY DEF Methods
  <2>3. QED
    BY <2>1, <2>2
<1>3. ASSUME NEW n \in DOMAIN call, TimesOut(n)
      PROVE  up' = up
  BY <1>3 DEF TimesOut
<1>4. CASE UNCHANGED clientVars
  BY <1>4 DEF clientVars
<1>5. CASE HostReads \/ Consumes \/ HostCloses \/ RunEmits \/ ChildDies
  BY <1>5 DEF HostReads, ReadsEvent, ReadsResponse, ReadsEnd, Consumes, HostCloses, CloseWaits,
     CloseKills, CloseEnds, RunEmits, Emits, ChildDies
<1>6. CASE ConnectorSteps
  BY <1>6 DEF ConnectorSteps, Serves, ServeDrained, StopBegins, CancelsRun, StopEnds, RunStarts,
     RunEmitted, RunReturns, RunFinishes, Emits, EmitDrained
<1>7. QED
  BY <1>1, <1>2, <1>3, <1>4, <1>5, <1>6 DEF ClientNext

\* What may happen to the messages under way.
LEMMA DownMoves ==
  ASSUME [ClientNext]_clientVars
  PROVE  \/ down' = down \/ down' = <<>>
         \/ down # <<>> /\ down' = Tail(down)
         \/ Emits("started", "opening", "started")
         \/ Emits("record", "working", "emitting")
         \/ Emits("finished", "finishing", "finished")
         \/ Serves
         \/ conn.id # 0 /\ down' = Append(down, Response(conn.id, TRUE))
<1>1. ASSUME NEW m \in Methods, Request(m)
      PROVE  down' = down
  BY <1>1 DEF Request
<1>2. ASSUME NEW n \in DOMAIN call, TimesOut(n)
      PROVE  down' = down
  BY <1>2 DEF TimesOut
<1>3. CASE UNCHANGED clientVars
  BY <1>3 DEF clientVars
<1>4. CASE HostReads \/ Consumes \/ HostCloses \/ CloseBegins \/ ChildDies
  BY <1>4 DEF HostReads, ReadsEvent, ReadsResponse, ReadsEnd, Consumes, HostCloses, CloseWaits,
     CloseKills, CloseEnds, CloseBegins, ChildDies
<1>5. CASE ConnectorSteps \/ RunEmits
  BY <1>5 DEF ConnectorSteps, ServeDrained, StopBegins, CancelsRun, StopEnds, RunStarts,
     RunEmitted, RunReturns, RunFinishes, EmitDrained, RunEmits
<1>6. QED
  BY <1>1, <1>2, <1>3, <1>4, <1>5 DEF ClientNext

-----------------------------------------------------------------------------
(* The run and the requests                                                *)

\* Every step keeps the run in its place.
LEMMA RunKept ==
  ASSUME ClientTypeOK, RunPlace, [ClientNext]_clientVars
  PROVE  RunPlace'
<1>1. conn \in Connectors
  BY DEF ClientTypeOK
<1>2. CASE conn' = conn
  BY <1>2 DEF RunPlace
<1>3. CASE Serves
  <2>1. /\ conn'.lock = "serve" /\ conn.lock = "free"
        /\ conn'.run = conn.run \/ (conn.run = "none" /\ conn'.run = "accepted")
        /\ conn'.emitted = conn.emitted /\ conn'.seq = conn.seq /\ conn'.torn = conn.torn
    BY <1>1, <1>3 DEF Serves, Reply, Connectors
  <2>2. QED
    BY <1>1, <2>1 DEF RunPlace, Connectors
<1>4. CASE ServeDrained
  <2>1. /\ conn'.lock = "free" /\ conn.lock = "serve"
        /\ conn'.run = conn.run \/ (conn.run = "accepted" /\ conn'.run = "opening")
        /\ conn'.emitted = conn.emitted /\ conn'.seq = conn.seq /\ conn'.torn = conn.torn
    BY <1>1, <1>4 DEF ServeDrained, Connectors
  <2>2. QED
    BY <1>1, <2>1 DEF RunPlace, Connectors
<1>5. CASE StopBegins
  <2>1. /\ conn'.lock = conn.lock /\ conn'.run = conn.run
        /\ conn'.emitted = conn.emitted /\ conn'.seq = conn.seq /\ conn'.torn = conn.torn
    BY <1>1, <1>5 DEF StopBegins, Connectors
  <2>2. QED
    BY <1>1, <2>1 DEF RunPlace, Connectors
<1>6. CASE CancelsRun \/ RunReturns
  <2>1. /\ conn'.emitted = conn.emitted /\ conn'.seq = conn.seq
        /\ \/ conn'.torn = conn.torn /\ conn'.lock = conn.lock /\ conn.run = "working" /\ conn'.run = "finishing"
           \/ conn'.torn /\ conn'.lock = "free" /\ conn.run = "emitting" /\ conn'.run = "finishing"
           \/ conn'.torn /\ conn'.lock = "free" /\ conn.run \in {"started", "finished"} /\ conn'.run = "done"
    BY <1>1, <1>6 DEF CancelsRun, RunReturns, Connectors
  <2>2. QED
    BY <1>1, <2>1 DEF RunPlace, Connectors
<1>7. ASSUME NEW name, NEW from \in {"opening", "working", "finishing"},
             NEW to \in {"started", "emitting", "finished"}, Emits(name, from, to)
      PROVE  RunPlace'
  <2>1. /\ conn'.lock = "run" /\ conn.lock = "free" /\ conn.run = from /\ conn'.run = to
        /\ conn'.emitted = conn.emitted + 1 /\ conn'.seq = conn.seq /\ conn'.torn = conn.torn
    BY <1>1, <1>7 DEF Emits, Connectors
  <2>2. QED
    BY <1>1, <2>1 DEF RunPlace, Connectors
<1>8. ASSUME NEW at \in {"started", "emitting", "finished"}, NEW to \in {"working", "done"},
             EmitDrained(at, to)
      PROVE  RunPlace'
  <2>1. /\ conn'.lock = "free" /\ conn.lock = "run" /\ conn.run = at /\ conn'.run = to
        /\ conn'.emitted = conn.emitted /\ conn'.seq = conn.seq + 1 /\ conn'.torn = conn.torn
    BY <1>1, <1>8 DEF EmitDrained, Connectors
  <2>2. QED
    BY <1>1, <2>1 DEF RunPlace, Connectors
<1>9. QED
  BY <1>2, <1>3, <1>4, <1>5, <1>6, <1>7, <1>8, ConnectorMoves

\* Every step keeps what is on its way with its request.
LEMMA RequestsKept ==
  ASSUME ClientTypeOK, RequestPlace, [ClientNext]_clientVars
  PROVE  RequestPlace'
<1>1. /\ conn \in Connectors /\ call \in Seq(Calls) /\ up \in Seq(Commands) /\ down \in Seq(Messages)
  BY DEF ClientTypeOK
<1>2. \A n \in DOMAIN call : n \in DOMAIN call' /\ call'[n].method = call[n].method
  BY CallsKept
<1>3. up # <<>> => Head(up) = up[1] /\ 1 \in DOMAIN up
  BY <1>1
<1>4. conn'.id # 0 => conn'.id \in DOMAIN call' /\ call'[conn'.id].method = "shutdown"
  <2>1. CASE conn'.id = conn.id
    BY <1>2, <2>1 DEF RequestPlace
  <2>2. CASE StopBegins
    <3>1. conn'.id = (IF up # <<>> THEN Head(up).id ELSE 0)
          /\ (up # <<>> => Head(up).method = "shutdown")
      BY <1>1, <2>2 DEF StopBegins, Connectors
    <3>2. QED
      BY <1>2, <1>3, <3>1 DEF RequestPlace
  <2>3. CASE Serves \/ ServeDrained \/ CancelsRun \/ RunReturns
    BY <1>1, <2>1, <2>3 DEF Serves, ServeDrained, CancelsRun, RunReturns, Connectors
  <2>4. ASSUME NEW name, NEW from, NEW to, Emits(name, from, to) \/ EmitDrained(from, to)
        PROVE  conn'.id = conn.id
    BY <1>1, <2>4 DEF Emits, EmitDrained, Connectors
  <2>5. QED
    BY <2>1, <2>2, <2>3, <2>4, ConnectorMoves
<1>5. \A i \in DOMAIN up' : up'[i].id \in DOMAIN call' /\ call'[up'[i].id].method = up'[i].method
  <2>1. CASE up' = up
    BY <1>2, <2>1 DEF RequestPlace
  <2>2. CASE up # <<>> /\ up' = Tail(up)
    <3>1. \A i \in DOMAIN up' : i + 1 \in DOMAIN up /\ up'[i] = up[i + 1]
      BY <1>1, <2>2
    <3>2. QED
      BY <1>2, <3>1 DEF RequestPlace
  <2>3. ASSUME NEW m \in Methods, call' = Append(call, [method |-> m, state |-> "waiting"]),
               up' = Append(up, [id |-> Len(call) + 1, method |-> m])
        PROVE  \A i \in DOMAIN up' : up'[i].id \in DOMAIN call' /\ call'[up'[i].id].method = up'[i].method
    <3>1. Len(call) + 1 \in DOMAIN call' /\ call'[Len(call) + 1].method = m
      BY <1>1, <2>3
    <3>2. \A i \in DOMAIN up' : (i \in DOMAIN up /\ up'[i] = up[i])
                                \/ up'[i] = [id |-> Len(call) + 1, method |-> m]
      BY <1>1, <2>3
    <3>3. QED
      BY <1>2, <3>1, <3>2 DEF RequestPlace
  <2>4. QED
    BY <2>1, <2>2, <2>3, UpMoves
<1>6. \A i \in DOMAIN down' : down'[i].type = "response" => down'[i].id \in DOMAIN call'
  <2>1. CASE down' = down \/ down' = <<>>
    BY <1>2, <2>1 DEF RequestPlace
  <2>2. CASE down # <<>> /\ down' = Tail(down)
    <3>1. \A i \in DOMAIN down' : i + 1 \in DOMAIN down /\ down'[i] = down[i + 1]
      BY <1>1, <2>2
    <3>2. QED
      BY <1>2, <3>1 DEF RequestPlace
  <2>3. ASSUME NEW m, down' = Append(down, m), m.type = "response" => m.id \in DOMAIN call
        PROVE  \A i \in DOMAIN down' : down'[i].type = "response" => down'[i].id \in DOMAIN call'
    <3>1. \A i \in DOMAIN down' : (i \in DOMAIN down /\ down'[i] = down[i]) \/ down'[i] = m
      BY <1>1, <2>3
    <3>2. QED
      BY <1>2, <2>3, <3>1 DEF RequestPlace
  <2>4. ASSUME NEW name, NEW from, NEW to, Emits(name, from, to)
        PROVE  \A i \in DOMAIN down' : down'[i].type = "response" => down'[i].id \in DOMAIN call'
    <3>1. down' = Append(down, Event(name, conn.seq)) /\ Event(name, conn.seq).type # "response"
      BY <2>4 DEF Emits, Event
    <3>2. QED
      BY <2>3, <3>1
  <2>5. CASE Serves
    <3>1. down' = Append(down, Response(Head(up).id, Reply(Head(up).method))) /\ Head(up).id \in DOMAIN call
      BY <1>3, <2>5 DEF Serves, RequestPlace
    <3>2. QED
      BY <2>3, <3>1 DEF Response
  <2>6. CASE conn.id # 0 /\ down' = Append(down, Response(conn.id, TRUE))
    <3>1. conn.id \in DOMAIN call
      BY <2>6 DEF RequestPlace
    <3>2. QED
      BY <2>3, <2>6, <3>1 DEF Response
  <2>7. QED
    BY <2>1, <2>2, <2>4, <2>5, <2>6, DownMoves
<1>7. QED
  BY <1>4, <1>5, <1>6 DEF RequestPlace

\* A request that is new has no answer.
LEMMA NewRequest ==
  ASSUME ClientTypeOK, [ClientNext]_clientVars, NEW n \in DOMAIN call', n \notin DOMAIN call
  PROVE  call'[n].state # "answered"
<1>1. call \in Seq(Calls)
  BY DEF ClientTypeOK
<1>2. ASSUME NEW x, call' = Append(call, x), x.state # "answered"
      PROVE  call'[n].state # "answered"
  BY <1>1, <1>2
<1>3. CASE UNCHANGED clientVars
  BY <1>3 DEF clientVars
<1>4. ASSUME NEW m \in Methods, Request(m)
      PROVE  call'[n].state # "answered"
  <2>1. \/ call' = Append(call, [method |-> m, state |-> "refused"])
        \/ call' = Append(call, [method |-> m, state |-> "waiting"])
    BY <1>4 DEF Request
  <2>2. QED
    BY <1>2, <2>1
<1>5. CASE CloseBegins
  BY <1>2, <1>5 DEF CloseBegins
<1>6. ASSUME NEW k \in DOMAIN call, TimesOut(k)
      PROVE  FALSE
  BY <1>1, <1>6 DEF TimesOut
<1>7. CASE HostReads \/ HostCloses
  BY <1>1, <1>7 DEF HostReads, ReadsEvent, ReadsResponse, ReadsEnd, Ended, HostCloses, CloseWaits,
     CloseKills, CloseEnds
<1>8. CASE Consumes \/ ConnectorSteps \/ RunEmits \/ ChildDies
  BY <1>8 DEF Consumes, ConnectorSteps, Serves, ServeDrained, StopBegins, CancelsRun, StopEnds,
     RunStarts, RunEmitted, RunReturns, RunFinishes, RunEmits, Emits, EmitDrained, ChildDies
<1>9. QED
  BY <1>3, <1>4, <1>5, <1>6, <1>7, <1>8 DEF ClientNext

\* There is a run once there was one.
LEMMA RunGoesOn ==
  ASSUME conn \in Connectors, [ClientNext]_clientVars, conn.run # "none"
  PROVE  conn'.run # "none"
<1>1. CASE Serves \/ ServeDrained \/ StopBegins \/ CancelsRun \/ RunReturns
  BY <1>1 DEF Serves, ServeDrained, StopBegins, CancelsRun, RunReturns, Connectors
<1>2. ASSUME NEW name, NEW from, NEW to, to # "none", Emits(name, from, to) \/ EmitDrained(from, to)
      PROVE  conn'.run # "none"
  BY <1>2 DEF Emits, EmitDrained, Connectors
<1>3. QED
  BY <1>1, <1>2, ConnectorMoves

\* Start is granted at most once, and from then on there is a run.
LEMMA GrantKept ==
  ASSUME ClientTypeOK, RequestPlace, GrantPlace, [ClientNext]_clientVars
  PROVE  GrantPlace'
<1>1. /\ conn \in Connectors /\ call \in Seq(Calls) /\ up \in Seq(Commands) /\ down \in Seq(Messages)
  BY DEF ClientTypeOK
<1>2. \A n \in DOMAIN call : n \in DOMAIN call' /\ call'[n].method = call[n].method
  BY CallsKept
<1>3. RequestPlace'
  BY RequestsKept
<1>4. up # <<>> => Head(up) = up[1] /\ 1 \in DOMAIN up
  BY <1>1
<1>5. down # <<>> => Head(down) = down[1] /\ 1 \in DOMAIN down
  BY <1>1
<1> DEFINE OnItsWay(n) == \E i \in DOMAIN down : down[i].type = "response" /\ down[i].ok /\ down[i].id = n
           Served(n) == /\ Serves /\ n = Head(up).id /\ Head(up).method = "start" /\ conn.run = "none"
<1>6. ASSUME NEW n, OnItsWay(n)', call'[n].method = "start"
      PROVE  OnItsWay(n) \/ Served(n)
  <2>1. PICK i \in DOMAIN down' : down'[i].type = "response" /\ down'[i].ok /\ down'[i].id = n
    BY <1>6
  <2>2. CASE down' = down \/ down' = <<>>
    BY <2>1, <2>2
  <2>3. CASE down # <<>> /\ down' = Tail(down)
    <3>1. i + 1 \in DOMAIN down /\ down'[i] = down[i + 1]
      BY <1>1, <2>1, <2>3
    <3>2. QED
      BY <2>1, <3>1
  <2>4. ASSUME NEW m, down' = Append(down, m)
        PROVE  OnItsWay(n) \/ down'[i] = m
    <3>1. (i \in DOMAIN down /\ down'[i] = down[i]) \/ down'[i] = m
      BY <1>1, <2>1, <2>4
    <3>2. QED
      BY <2>1, <3>1
  <2>5. ASSUME NEW name, NEW from, NEW to, Emits(name, from, to)
        PROVE  OnItsWay(n)
    <3>1. down' = Append(down, Event(name, conn.seq)) /\ Event(name, conn.seq).type # "response"
      BY <2>5 DEF Emits, Event
    <3>2. QED
      BY <2>1, <2>4, <3>1
  <2>6. CASE Serves
    <3>1. down' = Append(down, Response(Head(up).id, Reply(Head(up).method)))
      BY <2>6 DEF Serves
    <3>2. CASE down'[i] = Response(Head(up).id, Reply(Head(up).method))
      <4>1. n = Head(up).id /\ Reply(Head(up).method)
        BY <2>1, <3>2 DEF Response
      <4>2. Head(up).method = "start"
        BY <1>2, <1>4, <1>6, <2>6, <4>1 DEF Serves, RequestPlace
      <4>3. QED
        BY <2>6, <4>1, <4>2 DEF Reply
    <3>3. QED
      BY <2>4, <3>1, <3>2
  <2>7. CASE conn.id # 0 /\ down' = Append(down, Response(conn.id, TRUE))
    <3>1. CASE down'[i] = Response(conn.id, TRUE)
      <4>1. n = conn.id
        BY <2>1, <3>1 DEF Response
      <4>2. call[n].method = "shutdown" /\ n \in DOMAIN call
        BY <2>7, <4>1 DEF RequestPlace
      <4>3. QED
        BY <1>2, <1>6, <4>2
    <3>2. QED
      BY <2>4, <2>7, <3>1
  <2>8. QED
    BY <2>2, <2>3, <2>5, <2>6, <2>7, DownMoves
<1>7. ASSUME NEW n \in DOMAIN call', Granted(n)'
      PROVE  n \in DOMAIN call /\ (Granted(n) \/ Served(n))
  <2>1. call'[n].method = "start"
    BY <1>7 DEF Granted
  <2>2. CASE n \in DOMAIN call
    <3>1. call[n].method = "start"
      BY <1>2, <2>1, <2>2
    <3>2. CASE call'[n].state = "answered"
      BY <1>5, <2>2, <3>1, <3>2, CallsKept DEF Granted
    <3>3. CASE OnItsWay(n)'
      BY <1>6, <2>1, <2>2, <3>1, <3>3 DEF Granted
    <3>4. QED
      BY <1>7, <3>2, <3>3 DEF Granted
  <2>3. CASE n \notin DOMAIN call
    <3>1. ~OnItsWay(n)
      BY <2>3 DEF RequestPlace
    <3>2. ~Served(n)
      BY <1>4, <2>3 DEF Serves, RequestPlace
    <3>3. ~OnItsWay(n)'
      BY <1>6, <2>1, <3>1, <3>2
    <3>4. call'[n].state = "answered"
      BY <1>7, <3>3 DEF Granted
    <3>5. QED
      BY <1>1, <2>3, <3>4, NewRequest
  <2>4. QED
    BY <2>2, <2>3
<1>8. ASSUME NEW m \in DOMAIN call', NEW n \in DOMAIN call', Granted(m)', Granted(n)'
      PROVE  m = n
  BY <1>7, <1>8 DEF GrantPlace
<1>9. ASSUME NEW n \in DOMAIN call', Granted(n)'
      PROVE  conn'.run # "none"
  <2>1. CASE Served(n)
    <3>1. conn'.run = "accepted"
      BY <1>1, <2>1 DEF Serves, Reply, Connectors
    <3>2. QED
      BY <3>1
  <2>2. CASE conn.run # "none"
    BY <1>1, <2>2, RunGoesOn
  <2>3. QED
    BY <1>7, <1>9, <2>1, <2>2 DEF GrantPlace
<1>10. QED
  BY <1>8, <1>9 DEF GrantPlace

-----------------------------------------------------------------------------
(* Those who wait                                                          *)

\* There are finitely many requests.
LEMMA FinitelyMany ==
  ASSUME call \in Seq(Calls)
  PROVE  IsFiniteSet(Waiting)
<1>1. DOMAIN call = 1 .. Len(call) /\ Len(call) \in Int /\ 1 \in Int
  OBVIOUS
<1>2. IsFiniteSet(DOMAIN call)
  BY <1>1, FS_Interval
<1>3. Waiting \subseteq DOMAIN call
  BY DEF Waiting
<1>4. QED
  BY <1>2, <1>3, FS_Subset

\* No step lets anybody wait in vain, or too many wait.
LEMMA WaitingKept ==
  ASSUME ClientTypeOK, WaitingPlace, [ClientNext]_clientVars
  PROVE  WaitingPlace'
<1>1. /\ call \in Seq(Calls) /\ host \in Hosts
  BY DEF ClientTypeOK
<1>2. IsFiniteSet(Waiting) /\ Cardinality(Waiting) \in Nat
  BY <1>1, FinitelyMany, FS_CardinalityType
<1>3. \A n \in DOMAIN call : n \in Waiting' => n \in Waiting
  BY CallsKept DEF Waiting
<1>4. ASSUME Waiting' \subseteq Waiting, host'.closed => host.closed \/ Waiting' = {}
      PROVE  WaitingPlace'
  <2>1. IsFiniteSet(Waiting') /\ Cardinality(Waiting') <= Cardinality(Waiting)
    BY <1>2, <1>4, FS_Subset
  <2>2. Cardinality(Waiting') \in Nat
    BY <2>1, FS_CardinalityType
  <2>3. Cardinality(Waiting') <= MaxPending
    BY <1>2, <2>1, <2>2, PendingAssumption DEF WaitingPlace
  <2>4. host'.closed => Waiting' = {}
    BY <1>4 DEF WaitingPlace
  <2>5. QED
    BY <2>3, <2>4 DEF WaitingPlace
<1>5. ASSUME NEW x, call' = Append(call, x), ~host.closed, host'.closed = host.closed,
             ~(Cardinality(Waiting) >= MaxPending)
      PROVE  WaitingPlace'
  <2>1. Waiting' \subseteq Waiting \cup {Len(call) + 1}
    BY <1>1, <1>3, <1>5 DEF Waiting
  <2>2. /\ IsFiniteSet(Waiting \cup {Len(call) + 1})
        /\ Cardinality(Waiting \cup {Len(call) + 1}) \in {Cardinality(Waiting), Cardinality(Waiting) + 1}
    BY <1>2, FS_AddElement
  <2>3. IsFiniteSet(Waiting') /\ Cardinality(Waiting') <= Cardinality(Waiting \cup {Len(call) + 1})
    BY <2>1, <2>2, FS_Subset
  <2>4. Cardinality(Waiting') \in Nat
    BY <2>3, FS_CardinalityType
  <2>5. Cardinality(Waiting') <= MaxPending
    BY <1>2, <1>5, <2>2, <2>3, <2>4, PendingAssumption
  <2>6. QED
    BY <1>5, <2>5 DEF WaitingPlace
<1>6. ASSUME DOMAIN call' = DOMAIN call
      PROVE  Waiting' \subseteq Waiting
  BY <1>3, <1>6 DEF Waiting
<1>7. ASSUME call' = [n \in DOMAIN call |-> IF n \in Waiting THEN [call[n] EXCEPT !.state = "error"]
                                            ELSE call[n]]
      PROVE  Waiting' = {}
  BY <1>1, <1>7 DEF Waiting, Calls
<1>8. ASSUME NEW x, Ended(x)
      PROVE  WaitingPlace'
  BY <1>4, <1>7, <1>8 DEF Ended
<1>9. CASE UNCHANGED clientVars
  BY <1>4, <1>6, <1>9 DEF clientVars
<1>10. ASSUME NEW m \in Methods, Request(m)
       PROVE  WaitingPlace'
  <2>1. host' = host
    BY <1>10 DEF Request
  <2>2. CASE host.closed \/ Cardinality(Waiting) >= MaxPending
    <3>1. call' = Append(call, [method |-> m, state |-> "refused"])
      BY <1>10, <2>2 DEF Request
    <3>2. Waiting' \subseteq Waiting
      BY <1>1, <1>3, <3>1 DEF Waiting
    <3>3. QED
      BY <1>4, <2>1, <3>2
  <2>3. CASE ~host.closed /\ ~(Cardinality(Waiting) >= MaxPending)
    <3>1. call' = Append(call, [method |-> m, state |-> "waiting"])
      BY <1>10, <2>3 DEF Request
    <3>2. QED
      BY <1>5, <2>1, <2>3, <3>1
  <2>4. QED
    BY <2>2, <2>3
<1>11. ASSUME NEW n \in DOMAIN call, TimesOut(n)
       PROVE  WaitingPlace'
  <2>1. DOMAIN call' = DOMAIN call /\ host' = host
    BY <1>1, <1>11 DEF TimesOut
  <2>2. QED
    BY <1>4, <1>6, <2>1
<1>12. CASE ReadsEvent \/ ReadsEnd
  <2>1. CASE \E x : Ended(x)
    BY <1>8, <2>1
  <2>2. CASE host' = [host EXCEPT !.queue = Append(host.queue, Head(down))] /\ call' = call
    <3>1. host'.closed = host.closed
      BY <1>1, <2>2 DEF Hosts
    <3>2. QED
      BY <1>4, <1>6, <2>2, <3>1
  <2>3. QED
    BY <1>12, <2>1, <2>2 DEF ReadsEvent, ReadsEnd
<1>13. CASE ReadsResponse
  <2>1. DOMAIN call' = DOMAIN call /\ host' = host
    BY <1>1, <1>13 DEF ReadsResponse
  <2>2. QED
    BY <1>4, <1>6, <2>1
<1>14. CASE Consumes \/ CloseWaits
  <2>1. host'.closed = host.closed /\ call' = call
    BY <1>1, <1>14 DEF Consumes, CloseWaits, Hosts
  <2>2. QED
    BY <1>4, <1>6, <2>1
<1>15. CASE CloseBegins
  <2>1. host'.closed = host.closed
    BY <1>1, <1>15 DEF CloseBegins, Hosts
  <2>2. CASE ~host.closed /\ Cardinality(Waiting) < MaxPending
    <3>1. call' = Append(call, [method |-> "shutdown", state |-> "waiting"])
      BY <1>15, <2>2 DEF CloseBegins
    <3>2. ~(Cardinality(Waiting) >= MaxPending)
      BY <1>2, <2>2, PendingAssumption
    <3>3. QED
      BY <1>5, <2>1, <2>2, <3>1, <3>2
  <2>3. CASE ~(~host.closed /\ Cardinality(Waiting) < MaxPending)
    <3>1. call' = call
      BY <1>15, <2>3 DEF CloseBegins
    <3>2. QED
      BY <1>4, <1>6, <2>1, <3>1
  <2>4. QED
    BY <2>2, <2>3
<1>16. CASE CloseEnds
  <2>1. Waiting' = {}
    BY <1>7, <1>16 DEF CloseEnds
  <2>2. QED
    BY <1>4, <2>1
<1>17. CASE CloseKills \/ ConnectorSteps \/ RunEmits \/ ChildDies
  <2>1. host' = host /\ call' = call
    BY <1>17 DEF CloseKills, ConnectorSteps, Serves, ServeDrained, StopBegins, CancelsRun, StopEnds,
       RunStarts, RunEmitted, RunReturns, RunFinishes, RunEmits, Emits, EmitDrained, ChildDies
  <2>2. QED
    BY <1>4, <1>6, <2>1
<1>18. QED
  BY <1>9, <1>10, <1>11, <1>12, <1>13, <1>14, <1>15, <1>16, <1>17 DEF ClientNext, HostReads, HostCloses

-----------------------------------------------------------------------------
(* Events                                                                  *)

\* The count goes on as it was when a response joins the messages.
LEMMA CountResponse ==
  ASSUME NEW m \in Seq(Messages), NEW k \in Nat, NEW o \in Connectors, NEW c \in [0 .. Len(m) -> Nat],
         Counts(c, m, k, o), NEW x \in Messages, x.type = "response"
  PROVE  \E d \in [0 .. Len(Append(m, x)) -> Nat] : Counts(d, Append(m, x), k, o)
<1> DEFINE d == [i \in 0 .. Len(m) + 1 |-> IF i = Len(m) + 1 THEN c[Len(m)] ELSE c[i]]
<1>1. /\ Len(m) \in Nat /\ Append(m, x) \in Seq(Messages) /\ Len(Append(m, x)) = Len(m) + 1
      /\ \A i \in 1 .. Len(m) : Append(m, x)[i] = m[i]
      /\ Append(m, x)[Len(m) + 1] = x
  OBVIOUS
<1>2. /\ d \in [0 .. Len(m) + 1 -> Nat]
      /\ \A i \in 0 .. Len(m) : d[i] = c[i]
      /\ d[Len(m) + 1] = c[Len(m)]
  BY <1>1
<1> HIDE DEF d
<1>3. d[0] = k /\ d[Len(m) + 1] = o.emitted
  BY <1>1, <1>2 DEF Counts
<1>4. \A i \in 0 .. Len(m) + 1 : d[i] <= o.emitted
  <2>1. \A i \in 0 .. Len(m) + 1 : i \in 0 .. Len(m) \/ i = Len(m) + 1
    BY <1>1
  <2>2. o.emitted \in Nat
    BY DEF Connectors
  <2>3. QED
    BY <1>2, <1>3, <2>1, <2>2 DEF Counts
<1>5. ASSUME NEW i \in 1 .. Len(m) + 1
      PROVE  /\ Append(m, x)[i].type # "event" => d[i] = d[i - 1]
             /\ Append(m, x)[i].type = "event" =>
                  /\ d[i] = d[i - 1] + 1
                  /\ Append(m, x)[i].name = "started" <=> d[i] = 1
                  /\ Append(m, x)[i].name = "finished" => d[i] = o.emitted /\ Over(o)
                  /\ ~o.torn => Append(m, x)[i].seq = d[i] - 1
  <2>1. CASE i = Len(m) + 1
    BY <1>1, <1>2, <2>1
  <2>2. CASE i \in 1 .. Len(m)
    <3>1. d[i] = c[i] /\ d[i - 1] = c[i - 1] /\ Append(m, x)[i] = m[i]
      BY <1>1, <1>2, <2>2
    <3>2. QED
      BY <2>2, <3>1 DEF Counts
  <2>3. QED
    BY <1>1, <2>1, <2>2
<1>6. Counts(d, Append(m, x), k, o)
  BY <1>1, <1>2, <1>3, <1>4, <1>5 DEF Counts
<1>7. QED
  BY <1>1, <1>2, <1>6

\* An event that is emitted is the next one to be counted.
LEMMA CountEvent ==
  ASSUME NEW m \in Seq(Messages), NEW k \in Nat, NEW o \in Connectors, NEW p \in Connectors,
         NEW c \in [0 .. Len(m) -> Nat], Counts(c, m, k, o), NEW x \in Messages, x.type = "event",
         ~Over(o), p.emitted = o.emitted + 1, ~p.torn => ~o.torn,
         x.name = "started" <=> o.emitted = 0, x.name = "finished" => Over(p),
         ~p.torn => x.seq = o.emitted
  PROVE  \E d \in [0 .. Len(Append(m, x)) -> Nat] : Counts(d, Append(m, x), k, p)
<1> DEFINE d == [i \in 0 .. Len(m) + 1 |-> IF i = Len(m) + 1 THEN c[Len(m)] + 1 ELSE c[i]]
<1>1. /\ Len(m) \in Nat /\ Append(m, x) \in Seq(Messages) /\ Len(Append(m, x)) = Len(m) + 1
      /\ \A i \in 1 .. Len(m) : Append(m, x)[i] = m[i]
      /\ Append(m, x)[Len(m) + 1] = x
  OBVIOUS
<1>2. /\ d \in [0 .. Len(m) + 1 -> Nat]
      /\ \A i \in 0 .. Len(m) : d[i] = c[i]
      /\ d[Len(m) + 1] = c[Len(m)] + 1
  BY <1>1
<1> HIDE DEF d
<1>3. d[0] = k /\ d[Len(m) + 1] = p.emitted /\ o.emitted \in Nat /\ c[Len(m)] = o.emitted
  BY <1>1, <1>2 DEF Counts, Connectors
<1>4. \A i \in 0 .. Len(m) + 1 : d[i] <= p.emitted
  <2>1. \A i \in 0 .. Len(m) + 1 : i \in 0 .. Len(m) \/ i = Len(m) + 1
    BY <1>1
  <2>2. \A i \in 0 .. Len(m) : d[i] \in Nat /\ d[i] <= o.emitted
    BY <1>1, <1>2 DEF Counts
  <2>3. QED
    BY <1>2, <1>3, <2>1, <2>2
<1>5. ASSUME NEW i \in 1 .. Len(m) + 1
      PROVE  /\ Append(m, x)[i].type # "event" => d[i] = d[i - 1]
             /\ Append(m, x)[i].type = "event" =>
                  /\ d[i] = d[i - 1] + 1
                  /\ Append(m, x)[i].name = "started" <=> d[i] = 1
                  /\ Append(m, x)[i].name = "finished" => d[i] = p.emitted /\ Over(p)
                  /\ ~p.torn => Append(m, x)[i].seq = d[i] - 1
  <2>1. CASE i = Len(m) + 1
    <3>1. Append(m, x)[i] = x /\ d[i] = o.emitted + 1 /\ d[i - 1] = o.emitted
      BY <1>1, <1>2, <1>3, <2>1
    <3>2. QED
      BY <1>3, <3>1
  <2>2. CASE i \in 1 .. Len(m)
    <3>1. d[i] = c[i] /\ d[i - 1] = c[i - 1] /\ Append(m, x)[i] = m[i]
      BY <1>1, <1>2, <2>2
    <3>2. QED
      BY <2>2, <3>1 DEF Counts
  <2>3. QED
    BY <1>1, <2>1, <2>2
<1>6. QED
  BY <1>1, <1>2, <1>3, <1>4, <1>5 DEF Counts

\* When the first message is taken the count begins behind it.
LEMMA CountTail ==
  ASSUME NEW m \in Seq(Messages), m # <<>>, NEW k \in Nat, NEW o \in Connectors,
         NEW c \in [0 .. Len(m) -> Nat], Counts(c, m, k, o)
  PROVE  \E d \in [0 .. Len(Tail(m)) -> Nat] :
           Counts(d, Tail(m), IF Head(m).type = "event" THEN k + 1 ELSE k, o)
<1> DEFINE d == [i \in 0 .. Len(m) - 1 |-> c[i + 1]]
           j == IF Head(m).type = "event" THEN k + 1 ELSE k
<1>1. /\ Len(m) \in Nat \ {0} /\ Tail(m) \in Seq(Messages) /\ Len(Tail(m)) = Len(m) - 1
      /\ \A i \in 1 .. Len(m) - 1 : Tail(m)[i] = m[i + 1]
      /\ Head(m) = m[1]
  OBVIOUS
<1>2. d \in [0 .. Len(m) - 1 -> Nat] /\ \A i \in 0 .. Len(m) - 1 : d[i] = c[i + 1]
  BY <1>1
<1> HIDE DEF d
<1>3. d[0] = j
  <2>1. 1 \in 1 .. Len(m) /\ 1 - 1 = 0
    BY <1>1
  <2>2. m[1].type = "event" => c[1] = c[1 - 1] + 1
    BY <2>1 DEF Counts
  <2>3. m[1].type # "event" => c[1] = c[1 - 1]
    BY <2>1 DEF Counts
  <2>4. c[0] = k /\ d[0] = c[1]
    BY <1>1, <1>2 DEF Counts
  <2>5. QED
    BY <1>1, <2>1, <2>2, <2>3, <2>4
<1> HIDE DEF j
<1>4. d[Len(m) - 1] = o.emitted
  BY <1>1, <1>2 DEF Counts
<1>5. \A i \in 0 .. Len(m) - 1 : d[i] <= o.emitted
  BY <1>1, <1>2 DEF Counts
<1>6. ASSUME NEW i \in 1 .. Len(m) - 1
      PROVE  /\ Tail(m)[i].type # "event" => d[i] = d[i - 1]
             /\ Tail(m)[i].type = "event" =>
                  /\ d[i] = d[i - 1] + 1
                  /\ Tail(m)[i].name = "started" <=> d[i] = 1
                  /\ Tail(m)[i].name = "finished" => d[i] = o.emitted /\ Over(o)
                  /\ ~o.torn => Tail(m)[i].seq = d[i] - 1
  <2>1. i + 1 \in 1 .. Len(m) /\ (i + 1) - 1 = i /\ (i - 1) + 1 = i /\ i - 1 \in 0 .. Len(m) - 1
    BY <1>1
  <2>2. d[i] = c[i + 1] /\ d[i - 1] = c[(i + 1) - 1] /\ Tail(m)[i] = m[i + 1]
    BY <1>1, <1>2, <2>1
  <2>3. QED
    BY <2>1, <2>2 DEF Counts
<1>7. Counts(d, Tail(m), j, o)
  BY <1>1, <1>2, <1>3, <1>4, <1>5, <1>6 DEF Counts
<1>8. QED
  BY <1>1, <1>2, <1>7 DEF j

\* The count does not change with what else the connector does.
LEMMA CountQuiet ==
  ASSUME NEW m \in Seq(Messages), NEW k \in Nat, NEW o, NEW p, NEW c, Counts(c, m, k, o),
         p.emitted = o.emitted, Over(o) => Over(p), ~p.torn => ~o.torn
  PROVE  Counts(c, m, k, p)
BY DEF Counts

\* The connector goes on without an event.
Quiet == conn'.emitted = conn.emitted /\ (Over(conn) => Over(conn)') /\ (~conn'.torn => ~conn.torn)

\* A step that emits nothing is quiet.
LEMMA QuietMoves ==
  ASSUME conn \in Connectors
  PROVE  /\ conn' = conn => Quiet
         /\ Serves \/ ServeDrained \/ StopBegins \/ CancelsRun \/ RunReturns => Quiet
         /\ EmitDrained("started", "working") \/ EmitDrained("emitting", "working") => Quiet
         /\ EmitDrained("finished", "done") => Quiet
<1>1. conn' = conn => Quiet
  BY DEF Quiet, Over
<1>2. Serves \/ ServeDrained \/ StopBegins => Quiet
  BY DEF Quiet, Over, Serves, Reply, ServeDrained, StopBegins, Connectors
<1>3. CancelsRun \/ RunReturns => Quiet
  BY DEF Quiet, Over, CancelsRun, RunReturns, Connectors
<1>4. EmitDrained("started", "working") \/ EmitDrained("emitting", "working") \/ EmitDrained("finished", "done") => Quiet
  BY DEF Quiet, Over, EmitDrained, Connectors
<1>5. QED
  BY <1>1, <1>2, <1>3, <1>4

\* What is handed to the consumer was delivered before, and what is queued comes last.
LEMMA DeliveredParts ==
  /\ \A h \in Hosts : h.queue # <<>> =>
       Append(h.got, Head(h.queue)) \o Tail(h.queue) = h.got \o h.queue
  /\ \A h \in Hosts, x \in Messages : h.got \o Append(h.queue, x) = Append(h.got \o h.queue, x)
<1>1. ASSUME NEW s \in Seq(Messages), NEW q \in Seq(Messages), q # <<>>
      PROVE  Append(s, Head(q)) \o Tail(q) = s \o q
  BY <1>1
<1>2. ASSUME NEW s \in Seq(Messages), NEW q \in Seq(Messages), NEW x \in Messages
      PROVE  s \o Append(q, x) = Append(s \o q, x)
  OBVIOUS
<1>3. QED
  BY <1>1, <1>2 DEF Hosts

\* While the host still reads, a step takes a message, adds one, or leaves them alone.
LEMMA PipeMoves ==
  ASSUME ClientTypeOK, [ClientNext]_clientVars, ~host'.closed
  PROVE  /\ ~host.closed
         /\ \/ Delivered' = Delivered /\ down' = down /\ Quiet
            \/ /\ down # <<>> /\ Head(down).type = "event" /\ down' = Tail(down)
               /\ Delivered' = Append(Delivered, Head(down)) /\ conn' = conn
            \/ /\ down # <<>> /\ Head(down).type = "response" /\ down' = Tail(down)
               /\ Delivered' = Delivered /\ conn' = conn
            \/ /\ Delivered' = Delivered
               /\ \/ Emits("started", "opening", "started")
                  \/ Emits("record", "working", "emitting")
                  \/ Emits("finished", "finishing", "finished")
            \/ /\ Delivered' = Delivered /\ Quiet
               /\ \E x \in Messages : x.type = "response" /\ down' = Append(down, x)
<1> DEFINE Goes ==
      /\ ~host.closed
      /\ \/ Delivered' = Delivered /\ down' = down /\ Quiet
         \/ /\ down # <<>> /\ Head(down).type = "event" /\ down' = Tail(down)
            /\ Delivered' = Append(Delivered, Head(down)) /\ conn' = conn
         \/ /\ down # <<>> /\ Head(down).type = "response" /\ down' = Tail(down)
            /\ Delivered' = Delivered /\ conn' = conn
         \/ /\ Delivered' = Delivered
            /\ \/ Emits("started", "opening", "started")
               \/ Emits("record", "working", "emitting")
               \/ Emits("finished", "finishing", "finished")
         \/ /\ Delivered' = Delivered /\ Quiet
            /\ \E x \in Messages : x.type = "response" /\ down' = Append(down, x)
<1>1. /\ host \in Hosts /\ conn \in Connectors /\ up \in Seq(Commands) /\ down \in Seq(Messages)
  BY DEF ClientTypeOK
<1>2. ASSUME host' = host, down' = down, Quiet
      PROVE  Goes
  BY <1>2 DEF Delivered
<1>3. CASE UNCHANGED clientVars
  BY <1>1, <1>2, <1>3, QuietMoves DEF clientVars
<1>4. ASSUME NEW m \in Methods, Request(m)
      PROVE  Goes
  BY <1>1, <1>2, <1>4, QuietMoves DEF Request
<1>5. ASSUME NEW n \in DOMAIN call, TimesOut(n)
      PROVE  Goes
  BY <1>1, <1>2, <1>5, QuietMoves DEF TimesOut
<1>6. ASSUME NEW x, Ended(x)
      PROVE  FALSE
  BY <1>1, <1>6 DEF Ended, Hosts
<1>7. CASE ReadsEvent
  <2>1. host' = [host EXCEPT !.queue = Append(host.queue, Head(down))]
    BY <1>6, <1>7 DEF ReadsEvent
  <2>2. host'.got = host.got /\ host'.queue = Append(host.queue, Head(down))
    BY <1>1, <2>1 DEF Hosts
  <2>3. Head(down) \in Messages
    BY <1>1, <1>7 DEF ReadsEvent
  <2>4. Delivered' = Append(Delivered, Head(down))
    BY <1>1, <2>2, <2>3, DeliveredParts DEF Delivered
  <2>5. QED
    BY <1>7, <2>4 DEF ReadsEvent
<1>8. CASE ReadsResponse
  BY <1>8 DEF ReadsResponse, Delivered
<1>9. CASE ReadsEnd \/ CloseEnds
  <2>1. host'.closed
    BY <1>1, <1>6, <1>9 DEF ReadsEnd, CloseEnds, Hosts
  <2>2. QED
    BY <2>1
<1>10. CASE Consumes
  <2>1. /\ host'.queue = Tail(host.queue) /\ host'.got = Append(host.got, Head(host.queue))
        /\ host'.closed = host.closed
    BY <1>1, <1>10 DEF Consumes, Hosts
  <2>2. Delivered' = Delivered
    BY <1>1, <1>10, <2>1, DeliveredParts DEF Consumes, Delivered
  <2>3. QED
    BY <1>1, <1>10, <2>1, <2>2, QuietMoves DEF Consumes
<1>11. CASE CloseBegins \/ CloseWaits
  <2>1. host'.queue = host.queue /\ host'.got = host.got /\ host'.closed = host.closed
    BY <1>1, <1>11 DEF CloseBegins, CloseWaits, Hosts
  <2>2. QED
    BY <1>1, <1>11, <2>1, QuietMoves DEF CloseBegins, CloseWaits, Delivered
<1>12. CASE CloseKills \/ ChildDies
  BY <1>1, <1>2, <1>12, QuietMoves DEF CloseKills, ChildDies
<1>13. CASE Serves
  <2>1. Reply(Head(up).method) \in BOOLEAN /\ Head(up).id \in Nat
    <3>1. Reply(Head(up).method) \in BOOLEAN
      BY DEF Reply
    <3>2. Head(up) \in Commands
      BY <1>1, <1>13 DEF Serves
    <3>3. QED
      BY <3>1, <3>2 DEF Commands
  <2>2. PICK x \in Messages : x = Response(Head(up).id, Reply(Head(up).method))
    BY <2>1, MessageTypes
  <2>3. x.type = "response" /\ down' = Append(down, x) /\ host' = host
    BY <1>13, <2>2 DEF Serves, Response
  <2>4. QED
    BY <1>1, <1>13, <2>3, QuietMoves DEF Delivered
<1>14. CASE StopEnds
  <2>1. PICK x \in Messages : x = Response(conn.id, TRUE)
    BY <1>1, MessageTypes DEF Connectors
  <2>2. x.type = "response" /\ (down' = Append(down, x) \/ down' = down) /\ host' = host /\ conn' = conn
    BY <1>14, <2>1 DEF StopEnds, Response
  <2>3. QED
    BY <1>1, <1>2, <2>2, QuietMoves DEF Delivered
<1>15. CASE ServeDrained \/ StopBegins \/ CancelsRun \/ RunReturns
  BY <1>1, <1>2, <1>15, QuietMoves DEF ServeDrained, StopBegins, CancelsRun, RunReturns
<1>16. ASSUME NEW at, NEW to, EmitDrained(at, to), Quiet
       PROVE  Goes
  BY <1>2, <1>16 DEF EmitDrained
<1>17. ASSUME NEW name, NEW from, NEW to, Emits(name, from, to)
       PROVE  Delivered' = Delivered /\ ~host.closed
  BY <1>17 DEF Emits, Delivered
<1>18. CASE RunStarts \/ RunEmits \/ RunEmitted \/ RunFinishes
  BY <1>1, <1>16, <1>17, <1>18, QuietMoves DEF RunStarts, RunEmits, RunEmitted, RunFinishes
<1>19. QED
  BY <1>3, <1>4, <1>5, <1>7, <1>8, <1>9, <1>10, <1>11, <1>12, <1>13, <1>14, <1>15, <1>18
     DEF ClientNext, HostReads, HostCloses, ConnectorSteps

\* A step at the end of the stream, or behind it, delivers nothing new.
LEMMA ClosedMoves ==
  ASSUME host \in Hosts, [ClientNext]_clientVars, host'.closed
  PROVE  Delivered' = Delivered
<1>1. ASSUME host'.queue = host.queue, host'.got = host.got
      PROVE  Delivered' = Delivered
  BY <1>1 DEF Delivered
<1>2. ASSUME NEW x, Ended(x)
      PROVE  Delivered' = Delivered
  BY <1>1, <1>2 DEF Ended, Hosts
<1>3. CASE UNCHANGED clientVars
  BY <1>1, <1>3 DEF clientVars
<1>4. ASSUME NEW m \in Methods, Request(m)
      PROVE  Delivered' = Delivered
  BY <1>1, <1>4 DEF Request
<1>5. ASSUME NEW n \in DOMAIN call, TimesOut(n)
      PROVE  Delivered' = Delivered
  BY <1>1, <1>5 DEF TimesOut
<1>6. CASE ReadsEvent
  <2>1. CASE host' = [host EXCEPT !.queue = Append(host.queue, Head(down))]
    <3>1. host'.closed = host.closed
      BY <2>1 DEF Hosts
    <3>2. QED
      BY <1>6, <3>1 DEF ReadsEvent
  <2>2. QED
    BY <1>2, <1>6, <2>1 DEF ReadsEvent
<1>7. CASE ReadsResponse \/ ReadsEnd
  BY <1>1, <1>2, <1>7 DEF ReadsResponse, ReadsEnd
<1>8. CASE Consumes
  <2>1. host'.queue = Tail(host.queue) /\ host'.got = Append(host.got, Head(host.queue))
    BY <1>8 DEF Consumes, Hosts
  <2>2. QED
    BY <1>8, <2>1, DeliveredParts DEF Consumes, Delivered
<1>9. CASE CloseBegins \/ HostCloses
  BY <1>1, <1>9 DEF CloseBegins, HostCloses, CloseWaits, CloseKills, CloseEnds, Hosts
<1>10. CASE ConnectorSteps \/ RunEmits \/ ChildDies
  BY <1>1, <1>10 DEF ConnectorSteps, Serves, ServeDrained, StopBegins, CancelsRun, StopEnds,
     RunStarts, RunEmitted, RunReturns, RunFinishes, RunEmits, Emits, EmitDrained, ChildDies
<1>11. QED
  BY <1>3, <1>4, <1>5, <1>6, <1>7, <1>8, <1>9, <1>10 DEF ClientNext, HostReads

\* Every step keeps the messages counted.
LEMMA PipeKept ==
  ASSUME ClientTypeOK, RunPlace, PipePlace, EventsInOrder, [ClientNext]_clientVars
  PROVE  PipePlace' /\ EventsInOrder'
<1>1. /\ host \in Hosts /\ conn \in Connectors /\ down \in Seq(Messages) /\ Delivered \in Seq(Messages)
      /\ Len(Delivered) \in Nat
  BY DEF ClientTypeOK, Hosts, Delivered
<1>2. ClientTypeOK' /\ conn' \in Connectors
  BY ClientTypeStep DEF ClientTypeOK
<1>3. ~conn'.torn => ~conn.torn
  <2>1. Quiet => (~conn'.torn => ~conn.torn)
    BY DEF Quiet
  <2>2. ASSUME NEW name, NEW from, NEW to, Emits(name, from, to)
        PROVE  conn'.torn = conn.torn
    BY <1>1, <2>2 DEF Emits, Connectors
  <2>3. QED
    BY <1>1, <2>1, <2>2, ConnectorMoves, QuietMoves
<1>4. ASSUME Delivered' = Delivered
      PROVE  EventsInOrder'
  BY <1>3, <1>4 DEF EventsInOrder
<1>5. CASE host'.closed
  <2>1. PipePlace'
    BY <1>5 DEF PipePlace
  <2>2. Delivered' = Delivered
    BY <1>1, <1>5, ClosedMoves
  <2>3. QED
    BY <1>4, <2>1, <2>2
<1>6. CASE ~host'.closed
  <2>1. ~host.closed
    BY <1>6, PipeMoves
  <2>2. PICK c \in [0 .. Len(down) -> Nat] : Counts(c, down, Len(Delivered), conn)
    BY <2>1 DEF PipePlace
  <2>3. \A n \in DOMAIN Delivered : Delivered[n].name = "finished" => n = conn.emitted /\ Over(conn)
    BY <2>1 DEF PipePlace
  <2>4. ASSUME Quiet, Delivered' = Delivered, NEW d \in [0 .. Len(down') -> Nat],
               down' \in Seq(Messages), Counts(d, down', Len(Delivered), conn)
        PROVE  PipePlace' /\ EventsInOrder'
    <3>1. Counts(d, down', Len(Delivered), conn')
      BY <1>1, <2>4, CountQuiet DEF Quiet, Over
    <3>2. \A n \in DOMAIN Delivered' : Delivered'[n].name = "finished" => n = conn'.emitted /\ Over(conn')
      BY <2>3, <2>4 DEF Quiet, Over
    <3>3. Counts(d, down', Len(Delivered'), conn')
      BY <2>4, <3>1
    <3>4. PipePlace'
      BY <3>2, <3>3 DEF PipePlace, Counts, Over
    <3>5. QED
      BY <1>4, <2>4, <3>4
  <2>5. CASE Delivered' = Delivered /\ down' = down /\ Quiet
    BY <1>1, <2>2, <2>4, <2>5
  <2>6. CASE /\ down # <<>> /\ Head(down).type = "event" /\ down' = Tail(down)
             /\ Delivered' = Append(Delivered, Head(down)) /\ conn' = conn
    <3> DEFINE x == Head(down)
               k == Len(Delivered)
    <3>1. /\ x \in Messages /\ down[1] = x /\ 1 \in 1 .. Len(down) /\ 1 \in 0 .. Len(down)
          /\ down' \in Seq(Messages)
      BY <1>1, <2>6
    <3>2. /\ c[1] = k + 1 /\ c[1] <= conn.emitted
          /\ x.name = "started" <=> c[1] = 1
          /\ x.name = "finished" => c[1] = conn.emitted /\ Over(conn)
          /\ ~conn.torn => x.seq = c[1] - 1
      <4>1. c[1 - 1] = k
        BY <2>2 DEF Counts
      <4>2. QED
        BY <2>2, <2>6, <3>1, <4>1 DEF Counts
    <3>3. PICK d \in [0 .. Len(down') -> Nat] : Counts(d, down', k + 1, conn)
      BY <1>1, <2>2, <2>6, CountTail
    <3>4. /\ DOMAIN Delivered' = 1 .. k + 1 /\ Len(Delivered') = k + 1 /\ Delivered'[k + 1] = x
          /\ \A n \in 1 .. k : n \in DOMAIN Delivered /\ Delivered'[n] = Delivered[n]
          /\ \A n \in 1 .. k + 1 : n \in 1 .. k \/ n = k + 1
      BY <1>1, <2>6, <3>1
    <3> HIDE DEF x, k
    <3>5. \A n \in 1 .. k : Delivered[n].name # "finished"
      BY <1>1, <2>3, <3>2, <3>4 DEF k, Connectors
    <3>6. \A n \in DOMAIN Delivered' : Delivered'[n].name = "finished" => n = conn'.emitted /\ Over(conn')
      BY <2>6, <3>2, <3>4, <3>5
    <3>7. Counts(d, down', Len(Delivered'), conn')
      BY <2>6, <3>3, <3>4
    <3>8. PipePlace'
      BY <3>6, <3>7 DEF PipePlace, Counts, Over
    <3>9. EventsInOrder'
      <4>1. \A n \in 1 .. k : /\ ~conn.torn => Delivered[n].seq = n - 1
                              /\ Delivered[n].name = "started" <=> n = 1
        BY <1>1, <3>4 DEF EventsInOrder
      <4>2. ~conn'.torn => \A n \in DOMAIN Delivered' : Delivered'[n].seq = n - 1
        BY <1>1, <2>6, <3>2, <3>4, <4>1 DEF k
      <4>3. \A n \in DOMAIN Delivered' : /\ Delivered'[n].name = "started" <=> n = 1
                                         /\ Delivered'[n].name = "finished" => n = Len(Delivered')
        BY <1>1, <3>2, <3>4, <3>5, <4>1 DEF k
      <4>4. QED
        BY <4>2, <4>3 DEF EventsInOrder
    <3>10. QED
      BY <3>8, <3>9
  <2>7. CASE /\ down # <<>> /\ Head(down).type = "response" /\ down' = Tail(down)
             /\ Delivered' = Delivered /\ conn' = conn
    <3>1. PICK d \in [0 .. Len(down') -> Nat] : Counts(d, down', Len(Delivered), conn)
      BY <1>1, <2>2, <2>7, CountTail
    <3>2. down' \in Seq(Messages)
      BY <1>1, <2>7
    <3>3. QED
      BY <1>1, <2>4, <2>7, <3>1, <3>2, QuietMoves
  <2>8. ASSUME NEW name \in {"started", "record", "finished"}, NEW from, NEW to,
               Emits(name, from, to), Delivered' = Delivered,
               from \in {"opening", "working", "finishing"},
               name = "started" <=> from = "opening", name = "finished" => to = "finished"
        PROVE  PipePlace' /\ EventsInOrder'
    <3> DEFINE x == Event(name, conn.seq)
    <3>1. /\ x \in Messages /\ x.type = "event" /\ x.name = name /\ x.seq = conn.seq
      BY <1>1, MessageTypes DEF Event, Connectors
    <3>2. /\ down' = Append(down, x) /\ conn.run = from /\ conn'.run = to /\ conn.lock = "free"
          /\ conn'.emitted = conn.emitted + 1 /\ conn'.torn = conn.torn
      BY <1>1, <2>8 DEF Emits, Connectors
    <3> HIDE DEF x
    <3>3. ~Over(conn) /\ (x.name = "finished" => Over(conn'))
      BY <2>8, <3>1, <3>2 DEF Over
    <3>4. x.name = "started" <=> conn.emitted = 0
      BY <2>8, <3>1, <3>2 DEF RunPlace
    <3>5. ~conn'.torn => x.seq = conn.emitted
      BY <1>1, <3>1, <3>2 DEF RunPlace, Connectors
    <3>6. PICK d \in [0 .. Len(down') -> Nat] : Counts(d, down', Len(Delivered), conn')
      BY <1>1, <1>2, <2>2, <3>1, <3>2, <3>3, <3>4, <3>5, CountEvent
    <3>7. \A n \in DOMAIN Delivered' : Delivered'[n].name # "finished"
      BY <2>3, <2>8, <3>3
    <3>8. Counts(d, down', Len(Delivered'), conn')
      BY <2>8, <3>6
    <3>9. PipePlace'
      BY <3>7, <3>8 DEF PipePlace, Counts, Over
    <3>10. QED
      BY <1>4, <2>8, <3>9
  <2>9. ASSUME Delivered' = Delivered, Quiet, NEW x \in Messages, x.type = "response",
               down' = Append(down, x)
        PROVE  PipePlace' /\ EventsInOrder'
    <3>1. PICK d \in [0 .. Len(down') -> Nat] : Counts(d, down', Len(Delivered), conn)
      BY <1>1, <2>2, <2>9, CountResponse
    <3>2. down' \in Seq(Messages)
      BY <1>1, <2>9
    <3>3. QED
      BY <2>4, <2>9, <3>1, <3>2
  <2>10. CASE /\ Delivered' = Delivered
              /\ \/ Emits("started", "opening", "started")
                 \/ Emits("record", "working", "emitting")
                 \/ Emits("finished", "finishing", "finished")
    BY <2>8, <2>10
  <2>11. QED
    BY <1>6, <2>5, <2>6, <2>7, <2>9, <2>10, PipeMoves
<1>7. QED
  BY <1>5, <1>6

-----------------------------------------------------------------------------
(* What host and connector tell each other                                 *)

\* The requests of which start was answered are among those that were granted.
LEMMA GrantedOnce == ClientTypeOK /\ GrantPlace => OneStart
<1>1. SUFFICES ASSUME ClientTypeOK, GrantPlace
               PROVE  OneStart
  OBVIOUS
<1> DEFINE S == {n \in DOMAIN call : call[n].method = "start" /\ call[n].state = "answered"}
<1>2. \A m, n \in S : m = n
  BY <1>1 DEF GrantPlace, Granted
<1>3. CASE S = {}
  <2>1. Cardinality(S) = 0
    BY <1>3, FS_EmptySet
  <2>2. QED
    BY <2>1 DEF OneStart
<1>4. CASE S # {}
  <2>1. PICK n : S = {n}
    BY <1>2, <1>4
  <2>2. Cardinality(S) = 1
    BY <2>1, FS_Singleton
  <2>3. QED
    BY <2>2 DEF OneStart
<1>5. QED
  BY <1>3, <1>4

\* The invariant holds at first.
LEMMA ClientInvInit == ClientInit => ClientInv
<1>1. SUFFICES ASSUME ClientInit
               PROVE  ClientInv
  OBVIOUS
<1>2. /\ call = <<>> /\ up = <<>> /\ down = <<>> /\ DOMAIN call = {} /\ Len(down) = 0
      /\ host.queue = <<>> /\ host.got = <<>> /\ ~host.closed
      /\ conn.id = 0 /\ conn.run = "none" /\ conn.emitted = 0 /\ conn.seq = 0 /\ conn.lock = "free"
  BY <1>1 DEF ClientInit
<1>3. ClientTypeOK
  BY <1>1, ClientTypeInit
<1>4. RunPlace
  BY <1>2 DEF RunPlace
<1>5. RequestPlace /\ GrantPlace
  BY <1>2 DEF RequestPlace, GrantPlace
<1>6. WaitingPlace
  <2>1. Waiting = {}
    BY <1>2 DEF Waiting
  <2>2. QED
    BY <2>1, FS_EmptySet, PendingAssumption DEF WaitingPlace
<1>7. Delivered = <<>> /\ DOMAIN Delivered = {} /\ Len(Delivered) = 0
  BY <1>2 DEF Delivered
<1>8. EventsInOrder
  BY <1>7 DEF EventsInOrder
<1>9. PipePlace
  <2> DEFINE c == [i \in 0 .. 0 |-> 0]
  <2>1. c \in [0 .. Len(down) -> Nat] /\ c[0] = 0 /\ 1 .. Len(down) = {} /\ 0 .. Len(down) = {0}
    BY <1>2
  <2> HIDE DEF c
  <2>2. Counts(c, down, Len(Delivered), conn)
    BY <1>2, <1>7, <2>1 DEF Counts
  <2>3. QED
    BY <1>7, <2>1, <2>2 DEF PipePlace
<1>10. QED
  BY <1>3, <1>4, <1>5, <1>6, <1>8, <1>9 DEF ClientInv

\* What ExchangeSound says of host and connector (client.py, connector.py) holds for
\* every limit and however they interleave: the events of one execution arrive in order
\* and without a gap, start is granted once, and nobody waits in vain.
THEOREM ExchangeIsSound == ClientSpec => []ExchangeSound
<1>1. ClientInit => ClientInv
  BY ClientInvInit
<1>2. ClientInv /\ [ClientNext]_clientVars => ClientInv'
  <2>1. SUFFICES ASSUME ClientInv, [ClientNext]_clientVars
                 PROVE  ClientInv'
    OBVIOUS
  <2>2. ClientTypeOK'
    BY <2>1, ClientTypeStep DEF ClientInv
  <2>3. RunPlace' /\ RequestPlace' /\ GrantPlace' /\ WaitingPlace'
    BY <2>1, RunKept, RequestsKept, GrantKept, WaitingKept DEF ClientInv
  <2>4. PipePlace' /\ EventsInOrder'
    BY <2>1, PipeKept DEF ClientInv
  <2>5. QED
    BY <2>2, <2>3, <2>4 DEF ClientInv
<1>3. ClientInv => ExchangeSound
  BY GrantedOnce DEF ClientInv, ExchangeSound, WaitingPlace, NobodyWaitsInVain
<1>4. QED
  BY <1>1, <1>2, <1>3, PTL DEF ClientSpec
=============================================================================
