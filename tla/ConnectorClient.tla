--------------------------- MODULE ConnectorClient ---------------------------
(***************************************************************************)
(* The connector SDK: the host's ConnectorClient (client.py) and the       *)
(* connector's serve and RunContext (connector.py) at the two ends of a    *)
(* pair of pipes.                                                          *)
(*                                                                         *)
(* The host sends commands and waits for their responses, a reader task    *)
(* hands responses to the callers and events to a bounded queue.  The      *)
(* connector serves one command after the other beside the task that runs  *)
(* the attempt; both write to one output, under a lock, and a writer waits *)
(* with the lock in hand until the pipe has drained.  Shutdown cancels the *)
(* run wherever it waits.                                                  *)
(***************************************************************************)
EXTENDS Naturals, Sequences, FiniteSets, SequencesExt

CONSTANTS MaxPending,   \* requests that may wait for their response
          EventBuffer,  \* events that may wait for their consumer
          HighWater,    \* unread messages from which on a writer has to wait
          MaxCalls,     \* bound: requests
          MaxEvents     \* bound: events a connector emits

ASSUME PendingAssumption == MaxPending \in Nat

VARIABLES host,         \* the client: reader, queue, what was consumed
          call,         \* the requests in the order in which they were made
          up, down,     \* the pipes
          conn,         \* the connector's serving loop and its attempt
          child         \* the connector process: "alive" or "gone"

clientVars == <<host, call, up, down, conn, child>>

Methods == {"start", "abort", "feedback", "shutdown"}

Event(name, seq) == [type |-> "event", name |-> name, seq |-> seq, id |-> 0, ok |-> TRUE]
Response(id, ok) == [type |-> "response", name |-> "none", seq |-> 0, id |-> id, ok |-> ok]

ClientInit ==
  /\ host = [closed |-> FALSE, closing |-> "no", error |-> "none", queue |-> <<>>, got |-> <<>>]
  /\ call = <<>>
  /\ up = <<>> /\ down = <<>>
  /\ conn = [serving |-> "next", id |-> 0, run |-> "none", cancelled |-> FALSE, seq |-> 0,
             emitted |-> 0, lock |-> "free", torn |-> FALSE]
  /\ child = "alive"

Waiting == {n \in DOMAIN call : call[n].state = "waiting"}

-----------------------------------------------------------------------------
(* The host                                                                *)

\* request: refused behind the end of the stream or beyond the limit; otherwise
\* registered and written without anything happening in between.
Request(method) ==
  /\ Len(call) < MaxCalls
  /\ IF host.closed \/ Cardinality(Waiting) >= MaxPending
       THEN /\ call' = Append(call, [method |-> method, state |-> "refused"])
            /\ UNCHANGED up
       ELSE /\ call' = Append(call, [method |-> method, state |-> "waiting"])
            /\ up' = Append(up, [id |-> Len(call) + 1, method |-> method])
  /\ UNCHANGED <<host, down, conn, child>>

\* A caller gives up; a late response is then ignored.
TimesOut(n) ==
  /\ n \in Waiting
  /\ call' = [call EXCEPT ![n].state = "timeout"]
  /\ UNCHANGED <<host, up, down, conn, child>>

MutEnded(error) ==
  /\ host' = [host EXCEPT !.closed = TRUE,
                          !.error = IF host.closing # "no" /\ error = "TRANSPORT_CLOSED"
                                      THEN "none" ELSE error]
  /\ UNCHANGED call

\* The reader's finally: the stream is closed and every caller learns of it.
Ended(error) ==
  /\ host' = [host EXCEPT !.closed = TRUE,
                          !.error = IF host.closing # "no" /\ error = "TRANSPORT_CLOSED"
                                      THEN "none" ELSE error]
  /\ call' = [n \in DOMAIN call |-> IF n \in Waiting THEN [call[n] EXCEPT !.state = "error"] ELSE call[n]]

\* _read: the next record of the stream.
ReadsEvent ==
  /\ ~host.closed /\ down # <<>> /\ Head(down).type = "event"
  /\ IF Len(host.queue) >= EventBuffer THEN Ended("EVENT_BUFFER_FULL")
     ELSE host' = [host EXCEPT !.queue = Append(@, Head(down))] /\ UNCHANGED call
  /\ down' = Tail(down)
  /\ UNCHANGED <<up, conn, child>>

ReadsResponse ==
  /\ ~host.closed /\ down # <<>> /\ Head(down).type = "response"
  /\ LET n == Head(down).id IN
     call' = IF n \in Waiting
               THEN [call EXCEPT ![n].state = IF Head(down).ok THEN "answered" ELSE "error"]
               ELSE call
  /\ down' = Tail(down)
  /\ UNCHANGED <<host, up, conn, child>>

ReadsEnd ==
  /\ ~host.closed /\ down = <<>> /\ child = "gone"
  /\ Ended("TRANSPORT_CLOSED")
  /\ UNCHANGED <<up, down, conn, child>>

\* events: one event is handed to the consumer, also behind the end.
Consumes ==
  /\ host.queue # <<>>
  /\ host' = [host EXCEPT !.queue = Tail(@), !.got = Append(@, Head(host.queue))]
  /\ UNCHANGED <<call, up, down, conn, child>>

\* close: an orderly shutdown is tried first, unless the limit forbids it.
CloseBegins ==
  /\ host.closing = "no"
  /\ LET asks == ~host.closed /\ Cardinality(Waiting) < MaxPending IN
     /\ host' = [host EXCEPT !.closing = IF asks THEN "asked" ELSE "waits"]
     /\ call' = IF asks THEN Append(call, [method |-> "shutdown", state |-> "waiting"]) ELSE call
     /\ up' = IF asks THEN Append(up, [id |-> Len(call) + 1, method |-> "shutdown"]) ELSE up
  /\ UNCHANGED <<down, conn, child>>

\* The answer, an error or the time-out of the shutdown; then standard input is
\* closed and the process awaited.
CloseWaits ==
  /\ host.closing = "asked"
  /\ \A n \in Waiting : call[n].method # "shutdown"
  /\ host' = [host EXCEPT !.closing = "waits"]
  /\ UNCHANGED <<call, up, down, conn, child>>

\* Terminated or killed after the grace period.
CloseKills ==
  /\ host.closing = "waits" /\ child = "alive"
  /\ child' = "gone"
  /\ UNCHANGED <<host, call, up, down, conn>>

\* The process has exited: the reader is cancelled, with what it has not read,
\* and whoever waits for a response learns of it.
CloseEnds ==
  /\ host.closing = "waits" /\ child = "gone"
  /\ host' = [host EXCEPT !.closing = "closed", !.closed = TRUE]
  /\ call' = [n \in DOMAIN call |-> IF n \in Waiting THEN [call[n] EXCEPT !.state = "error"] ELSE call[n]]
  /\ down' = <<>>
  /\ UNCHANGED <<up, conn, child>>

-----------------------------------------------------------------------------
(* The connector                                                           *)

Drained == Len(down) < HighWater

MutReply(method) == TRUE

\* What the loop does with a command; "stop" waits for the run.
Reply(method) ==
  CASE method = "start" -> conn.run = "none"                       \* ALREADY_STARTED
    [] method \in {"abort", "feedback"} -> conn.run \notin {"none", "done"}  \* ATTEMPT_NOT_ACTIVE
    [] OTHER -> TRUE

\* serve takes the next command and, but for shutdown, answers it.
Serves ==
  /\ child = "alive" /\ conn.serving = "next" /\ up # <<>>
  /\ Head(up).method # "shutdown"
  /\ conn.lock = "free"
  /\ LET c == Head(up)
         ok == Reply(c.method) IN
     /\ down' = Append(down, Response(c.id, ok))
     /\ conn' = [conn EXCEPT
          !.serving = "draining", !.lock = "serve",
          !.run = IF c.method = "start" /\ ok THEN "accepted" ELSE @,
          !.cancelled = @ \/ (c.method = "abort" /\ ok)]
  /\ up' = Tail(up)
  /\ UNCHANGED <<host, call, child>>

\* The response of a start has drained: only now is the run created.
ServeDrained ==
  /\ child = "alive" /\ conn.serving = "draining" /\ conn.lock = "serve" /\ Drained
  /\ conn' = [conn EXCEPT !.serving = "next", !.lock = "free",
                          !.run = IF @ = "accepted" THEN "opening" ELSE @]
  /\ UNCHANGED <<host, call, up, down, child>>

\* shutdown, or the end of the commands: stop() asks the run to end and cancels it.
StopBegins ==
  /\ child = "alive" /\ conn.serving = "next"
  /\ IF up # <<>> THEN Head(up).method = "shutdown" /\ up' = Tail(up)
     ELSE host.closing = "waits" /\ UNCHANGED up
  /\ conn' = [conn EXCEPT !.serving = "stopping", !.id = IF up # <<>> THEN Head(up).id ELSE 0,
                          !.cancelled = @ \/ conn.run \notin {"none", "done"}]
  /\ UNCHANGED <<host, call, down, child>>

\* The cancellation reaches the run where it waits: inside the connector's code,
\* or in a write that has not drained.  A run.started or run.finished that is
\* cancelled there takes the serving loop with it.
CancelsRun ==
  /\ child = "alive" /\ conn.serving = "stopping"
  /\ \/ /\ conn.run = "working"
        /\ conn' = [conn EXCEPT !.run = "finishing", !.serving = "joining"]
        /\ UNCHANGED child
     \/ /\ conn.run = "emitting" /\ ~Drained
        /\ conn' = [conn EXCEPT !.run = "finishing", !.serving = "joining", !.lock = "free", !.torn = TRUE]
        /\ UNCHANGED child
     \/ /\ conn.run \in {"started", "finished"} /\ ~Drained
        /\ conn' = [conn EXCEPT !.run = "done", !.lock = "free", !.torn = TRUE]
        /\ child' = "gone"
  /\ UNCHANGED <<host, call, up, down>>

\* The run is over, or there was none: the shutdown is answered and the process
\* ends.
StopEnds ==
  /\ child = "alive" /\ conn.serving \in {"stopping", "joining"} /\ conn.run \in {"none", "done"}
  /\ conn.lock = "free"
  /\ down' = IF conn.id # 0 THEN Append(down, Response(conn.id, TRUE)) ELSE down
  /\ child' = "gone"
  /\ UNCHANGED <<host, call, up, conn>>

\* _emit: one record under the lock; its number is counted when it has drained.
Emits(name, from, to) ==
  /\ child = "alive" /\ conn.run = from /\ conn.lock = "free"
  /\ down' = Append(down, Event(name, conn.seq))
  /\ conn' = [conn EXCEPT !.run = to, !.lock = "run", !.emitted = @ + 1]
  /\ UNCHANGED <<host, call, up, child>>

MutEmitDrained(at, to) ==
  /\ child = "alive" /\ conn.run = at /\ conn.lock = "run" /\ Drained
  /\ conn' = [conn EXCEPT !.run = to, !.lock = "free"]
  /\ UNCHANGED <<host, call, up, down, child>>

EmitDrained(at, to) ==
  /\ child = "alive" /\ conn.run = at /\ conn.lock = "run" /\ Drained
  /\ conn' = [conn EXCEPT !.run = to, !.lock = "free", !.seq = @ + 1]
  /\ UNCHANGED <<host, call, up, down, child>>

\* execute: run.started, what the connector emits, run.finished.
RunStarts == Emits("started", "opening", "started") \/ EmitDrained("started", "working")

RunEmits ==
  /\ conn.emitted <= MaxEvents
  /\ Emits("record", "working", "emitting")

RunEmitted == EmitDrained("emitting", "working")

\* connector.run returns, fails, or was cancelled.
RunReturns ==
  /\ child = "alive" /\ conn.run = "working"
  /\ conn' = [conn EXCEPT !.run = "finishing"]
  /\ UNCHANGED <<host, call, up, down, child>>

RunFinishes == Emits("finished", "finishing", "finished") \/ EmitDrained("finished", "done")

\* The connector process dies.
ChildDies ==
  /\ child = "alive"
  /\ child' = "gone"
  /\ UNCHANGED <<host, call, up, down, conn>>

HostReads == ReadsEvent \/ ReadsResponse \/ ReadsEnd
HostCloses == CloseWaits \/ CloseKills \/ CloseEnds
ConnectorSteps ==
  \/ Serves \/ ServeDrained \/ StopBegins \/ CancelsRun \/ StopEnds
  \/ RunStarts \/ RunEmitted \/ RunReturns \/ RunFinishes

ClientNext ==
  \/ \E m \in Methods \ {"shutdown"} : Request(m)
  \/ \E n \in DOMAIN call : TimesOut(n)
  \/ HostReads \/ Consumes \/ CloseBegins \/ HostCloses
  \/ ConnectorSteps \/ RunEmits
  \/ ChildDies

ClientSpec == ClientInit /\ [][ClientNext]_clientVars

\* Tasks of an event loop run, time passes, and a consumer consumes; none of these
\* goes on for ever, so it is enough that some step is taken while there is one.
ClientFairness ==
  WF_clientVars(\/ HostReads \/ HostCloses \/ Consumes \/ ConnectorSteps
                \/ \E n \in DOMAIN call : TimesOut(n))

-----------------------------------------------------------------------------
(* Properties                                                              *)

Delivered == host.got \o host.queue

\* The host sees the events of one execution in order and without a gap, from
\* run.started to run.finished; unless a cancelled write was counted out.
EventsInOrder ==
  /\ ~conn.torn => \A n \in DOMAIN Delivered : Delivered[n].seq = n - 1
  /\ \A n \in DOMAIN Delivered :
       /\ Delivered[n].name = "started" <=> n = 1
       /\ Delivered[n].name = "finished" => n = Len(Delivered)

\* One process executes one attempt, however often and early it is asked to.
OneStart ==
  Cardinality({n \in DOMAIN call : call[n].method = "start" /\ call[n].state = "answered"}) <= 1

\* Nobody waits for a response behind the end of the stream, and never more than
\* the limit.
NobodyWaitsInVain ==
  /\ host.closed => Waiting = {}
  /\ Cardinality(Waiting) <= MaxPending

ExchangeSound == EventsInOrder /\ OneStart /\ NobodyWaitsInVain

\* Closing comes to an end, whatever the connector does; and a connector that was
\* asked to stop ends its run.
ClosingEnds == host.closing # "no" ~> host.closing = "closed"
=============================================================================
