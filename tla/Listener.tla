------------------------------ MODULE Listener ------------------------------
(***************************************************************************)
(* `opskit net listen`: net/listener.py binds the wildcard address of both *)
(* families, and a generator polls the sockets and yields one event per    *)
(* connection or datagram to its consumer, which is the command (cli) or   *)
(* some program that uses the library.                                     *)
(*                                                                         *)
(* Peers arrive and vanish, the deadline passes and Ctrl-C strikes between *)
(* any two steps; what Ctrl-C does depends on whether the generator or its *)
(* consumer is running.                                                    *)
(***************************************************************************)
EXTENDS Naturals, Sequences

CONSTANTS
  Limits,       \* values of --max-events to consider, NoLimit among them or not
  NoLimit,
  MaxArrivals   \* how many peers arrive (bound)

ASSUME LimitAssumption == Limits \subseteq (Nat \ {0}) \cup {NoLimit} /\ NoLimit \notin Nat
ASSUME ArrivalAssumption == MaxArrivals \in Nat

Family == {"ipv4", "ipv6"}
Definitive == {"in_use", "denied"}
BindError == Definitive \cup {"other"}
Reason == {"interrupt", "max_duration", "max_events", "error"}
BindReport == {"PortInUse", "BindPermissionDenied", "NetError"}
SessionReport == BindReport \cup {"ok", "timeout", "aborted", "raised"}

VARIABLES
  caller,      \* who consumes the events: "cli" or "library"
  maxEvents,   \* the --max-events in force
  timed,       \* whether --max-duration was given
  stage,       \* whose code is running, and where it is
  todo,        \* families that are still to be bound
  sockets,     \* families with an open socket
  bindErrors,  \* the errors of failed binds, in order
  backlog,     \* peers that wait on each socket
  arrivals,
  expired,     \* the deadline has passed
  ready,       \* sockets that select() returned and the loop has not reached
  received,    \* self._events_received
  delivered,   \* events the consumer has dealt with
  late,        \* history: events received after the deadline
  stopReason,  \* self._stop_reason
  raised,      \* an exception leaves the with block
  ctrlC,       \* history: Ctrl-C was pressed
  report       \* exit code of the command, or what the library call did

listenerVars == <<caller, maxEvents, timed, stage, todo, sockets, bindErrors, backlog,
                  arrivals, expired, ready, received, delivered, late, stopReason, raised,
                  ctrlC, report>>

config  == <<caller, maxEvents, timed>>
binding == <<todo, bindErrors>>
peers   == <<backlog, arrivals>>
counts  == <<received, delivered, late>>
ending  == <<raised, ctrlC, report>>

ListenerInit ==
  /\ caller \in {"cli", "library"}
  /\ maxEvents \in Limits
  /\ timed \in BOOLEAN
  /\ stage = "bind"
  /\ todo = <<"ipv4", "ipv6">>
  /\ sockets = {}
  /\ bindErrors = <<>>
  /\ backlog = [f \in Family |-> 0]
  /\ arrivals = 0
  /\ expired = FALSE
  /\ ready = {}
  /\ received = 0
  /\ delivered = 0
  /\ late = 0
  /\ stopReason = "none"
  /\ raised = FALSE
  /\ ctrlC = FALSE
  /\ report = "none"

-----------------------------------------------------------------------------
(* __enter__                                                               *)

\* The next family has no stack here, or is bound, or its bind fails; a busy
\* port and a permission error end the loop.
Bind ==
  /\ stage = "bind"
  /\ todo # <<>>
  /\ \/ todo' = Tail(todo) /\ UNCHANGED <<sockets, bindErrors>>
     \/ /\ todo' = Tail(todo)
        /\ sockets' = sockets \cup {Head(todo)}
        /\ UNCHANGED bindErrors
     \/ \E e \in BindError :
          /\ bindErrors' = Append(bindErrors, e)
          /\ todo' = IF e \in Definitive THEN <<>> ELSE Tail(todo)
          /\ UNCHANGED sockets
  /\ UNCHANGED <<config, stage, peers, expired, ready, counts, stopReason, ending>>

Met(kind) == \E i \in DOMAIN bindErrors : bindErrors[i] = kind

\* _raise_bind_error
BindFailure ==
  CASE Met("in_use") -> "PortInUse"
    [] Met("denied") /\ ~Met("in_use") -> "BindPermissionDenied"
    [] OTHER -> "NetError"

\* Mutant: the sockets already bound stay open when the session is refused.
EnterLeaking ==
  /\ stage = "bind"
  /\ todo = <<>>
  /\ IF sockets = {} \/ \E e \in Definitive : Met(e)
       THEN stage' = "ended" /\ report' = BindFailure /\ UNCHANGED sockets
       ELSE stage' = "banner" /\ UNCHANGED <<sockets, report>>
  /\ UNCHANGED <<config, binding, peers, expired, ready, counts, stopReason, raised,
                 ctrlC>>

Enter ==
  /\ stage = "bind"
  /\ todo = <<>>
  /\ IF sockets = {} \/ \E e \in Definitive : Met(e)
       THEN stage' = "ended" /\ report' = BindFailure /\ sockets' = {}
       ELSE stage' = "banner" /\ UNCHANGED <<sockets, report>>
  /\ UNCHANGED <<config, binding, peers, expired, ready, counts, stopReason, raised,
                 ctrlC>>

\* The command prints a banner before it asks for events.
Banner ==
  /\ stage = "banner"
  /\ stage' = "poll"
  /\ UNCHANGED <<config, binding, sockets, peers, expired, ready, counts, stopReason,
                 ending>>

-----------------------------------------------------------------------------
(* events()                                                                *)

\* Mutant: whoever finalizes last is believed.
FinalizeSessionAgain(reason) == stopReason' = reason

\* _finalize: the first reason stands.
FinalizeSession(reason) ==
  stopReason' = IF stopReason = "none" THEN reason ELSE stopReason

\* Mutant: the deadline is not looked at.
PollForever ==
  /\ stage = "poll"
  /\ stage' = "select"
  /\ UNCHANGED <<config, binding, sockets, peers, expired, ready, counts, stopReason,
                 ending>>

Poll ==
  /\ stage = "poll"
  /\ IF timed /\ expired
       THEN stage' = "leave" /\ FinalizeSession("max_duration")
       ELSE stage' = "select" /\ UNCHANGED stopReason
  /\ UNCHANGED <<config, binding, sockets, peers, expired, ready, counts, ending>>

\* select() returns the sockets with somebody waiting; after the poll timeout
\* that may be none.
Select ==
  /\ stage = "select"
  /\ ready' = {f \in sockets : backlog[f] > 0}
  /\ stage' = "receive"
  /\ UNCHANGED <<config, binding, sockets, peers, expired, counts, stopReason, ending>>

\* Mutant: readiness is taken for a peer.
TakeBlindly(f) ==
  /\ backlog' = [backlog EXCEPT ![f] = @ - 1]
  /\ UNCHANGED arrivals

\* accept() or recvfrom() takes one peer off the socket.
Take(f) ==
  /\ backlog[f] > 0
  /\ backlog' = [backlog EXCEPT ![f] = @ - 1]
  /\ UNCHANGED arrivals

Count ==
  /\ received' = received + 1
  /\ late' = IF expired THEN late + 1 ELSE late

\* Mutant: counts before it knows whether somebody was there.
ReceiveCountsFirst(f) ==
  /\ stage = "receive"
  /\ f \in ready
  /\ ready' = ready \ {f}
  /\ Count
  /\ \/ Take(f) /\ stage' = "yielded"
     \/ backlog[f] = 0 /\ UNCHANGED <<peers, stage>>
  /\ UNCHANGED <<config, binding, sockets, expired, delivered, stopReason, ending>>

\* _receive_one: an event, or nothing if the peer has gone.
Receive(f) ==
  /\ stage = "receive"
  /\ f \in ready
  /\ ready' = ready \ {f}
  /\ \/ Take(f) /\ Count /\ stage' = "yielded"
     \/ backlog[f] = 0 /\ UNCHANGED <<peers, received, late, stage>>
  /\ UNCHANGED <<config, binding, sockets, expired, delivered, stopReason, ending>>

\* Mutant: goes straight back to select() while peers keep coming.
RoundEndsBusy ==
  /\ stage = "receive"
  /\ ready = {}
  /\ stage' = IF \E f \in sockets : backlog[f] > 0 THEN "select" ELSE "poll"
  /\ UNCHANGED <<config, binding, sockets, peers, expired, ready, counts, stopReason,
                 ending>>

RoundEnds ==
  /\ stage = "receive"
  /\ ready = {}
  /\ stage' = "poll"
  /\ UNCHANGED <<config, binding, sockets, peers, expired, ready, counts, stopReason,
                 ending>>

\* The consumer prints or stores the event, then asks for the next one.
Consume ==
  /\ stage = "yielded"
  /\ delivered' = delivered + 1
  /\ stage' = "resume"
  /\ UNCHANGED <<config, binding, sockets, peers, expired, ready, received, late,
                 stopReason, ending>>

\* Mutant: the limit is looked at only when the round is over.
ResumeUnchecked ==
  /\ stage = "resume"
  /\ IF maxEvents # NoLimit /\ received >= maxEvents /\ ready = {}
       THEN stage' = "leave" /\ FinalizeSession("max_events") /\ ready' = {}
       ELSE stage' = "receive" /\ UNCHANGED <<stopReason, ready>>
  /\ UNCHANGED <<config, binding, sockets, peers, expired, counts, ending>>

Resume ==
  /\ stage = "resume"
  /\ IF maxEvents # NoLimit /\ received >= maxEvents
       THEN stage' = "leave" /\ FinalizeSession("max_events") /\ ready' = {}
       ELSE stage' = "receive" /\ UNCHANGED <<stopReason, ready>>
  /\ UNCHANGED <<config, binding, sockets, peers, expired, counts, ending>>

-----------------------------------------------------------------------------
(* Other ways out.                                                         *)

\* A program stops iterating: the generator is closed without a reason.
Break ==
  /\ stage = "resume"
  /\ caller = "library"
  /\ stage' = "leave"
  /\ ready' = {}
  /\ UNCHANGED <<config, binding, sockets, peers, expired, counts, stopReason, ending>>

\* The consumer fails on an event, a closed pipe for one.
ConsumerFails ==
  /\ stage = "yielded"
  /\ stage' = "leave"
  /\ raised' = TRUE
  /\ ready' = {}
  /\ UNCHANGED <<config, binding, sockets, peers, expired, counts, stopReason,
                 ctrlC, report>>

\* Ctrl-C while the generator runs: it finalizes the session and raises; the
\* command swallows the exception.  A peer may have been taken and not counted,
\* or counted and not yielded.
InterruptEvents ==
  /\ stage \in {"poll", "select", "receive", "resume"}
  /\ FinalizeSession("interrupt")
  /\ stage' = "leave"
  /\ ready' = {}
  /\ raised' = (caller = "library")
  /\ ctrlC' = TRUE
  /\ \/ UNCHANGED <<peers, counts>>
     \/ /\ stage = "receive"
        /\ \E f \in ready : Take(f)
        /\ Count \/ UNCHANGED <<received, late>>
        /\ UNCHANGED delivered
  /\ UNCHANGED <<config, binding, sockets, expired, report>>

\* Ctrl-C in the body of the consumer's loop: the generator does not see it.
InterruptConsumer ==
  /\ stage \in {"yielded", "resume"}
  /\ stage' = "leave"
  /\ ready' = {}
  /\ raised' = (caller = "library")
  /\ ctrlC' = TRUE
  /\ UNCHANGED <<config, binding, sockets, peers, expired, counts, stopReason, report>>

\* Ctrl-C while the banner is printed: inside the with, outside the loop.
InterruptBanner ==
  /\ stage = "banner"
  /\ stage' = "leave"
  /\ raised' = TRUE
  /\ ctrlC' = TRUE
  /\ UNCHANGED <<config, binding, sockets, peers, expired, ready, counts, stopReason,
                 report>>

\* Ctrl-C while the sockets are bound: there is no session to leave, and the
\* sockets go with the process.
InterruptBind ==
  /\ stage = "bind"
  /\ stage' = "ended"
  /\ ctrlC' = TRUE
  /\ report' = "aborted"
  /\ UNCHANGED <<config, binding, sockets, peers, expired, ready, counts, stopReason,
                 raised>>

\* What the caller is told at the end: silence until the deadline is a timeout.
ToldCaller(reason) ==
  CASE raised /\ caller = "library" -> "raised"
    [] raised /\ caller = "cli" -> "aborted"
    [] ~raised /\ caller = "cli" /\ reason = "max_duration" /\ received = 0 -> "timeout"
    [] OTHER -> "ok"

\* Mutant: leaving without a reason is always an error.
LeaveBlaming ==
  /\ stage = "leave"
  /\ sockets' = {}
  /\ FinalizeSession("error")
  /\ stage' = "ended"
  /\ report' = ToldCaller(stopReason')
  /\ UNCHANGED <<config, binding, peers, expired, ready, counts, raised, ctrlC>>

\* __exit__ and what follows it: the summary and the exit code.
Leave ==
  /\ stage = "leave"
  /\ sockets' = {}
  /\ FinalizeSession(IF raised THEN "error" ELSE "interrupt")
  /\ stage' = "ended"
  /\ report' = ToldCaller(stopReason')
  /\ UNCHANGED <<config, binding, peers, expired, ready, counts, raised, ctrlC>>

-----------------------------------------------------------------------------
(* The world.                                                              *)

Serving == stage \notin {"bind", "ended"}

Arrive(f) ==
  /\ f \in sockets
  /\ arrivals < MaxArrivals
  /\ arrivals' = arrivals + 1
  /\ backlog' = [backlog EXCEPT ![f] = @ + 1]
  /\ UNCHANGED <<config, stage, binding, sockets, expired, ready, counts, stopReason, ending>>

\* A peer resets its connection before it is accepted.
Vanish(f) ==
  /\ Take(f)
  /\ UNCHANGED <<config, stage, binding, sockets, expired, ready, counts, stopReason, ending>>

Expire ==
  /\ timed /\ Serving /\ ~expired
  /\ expired' = TRUE
  /\ UNCHANGED <<config, stage, binding, sockets, peers, ready, counts, stopReason, ending>>

ListenerStep ==
  \/ Bind \/ Enter \/ Banner \/ Poll \/ Select \/ (\E f \in Family : Receive(f))
  \/ RoundEnds \/ Consume \/ Resume \/ Break \/ ConsumerFails \/ Leave

CtrlC == InterruptEvents \/ InterruptConsumer \/ InterruptBanner \/ InterruptBind

ListenerNext == ListenerStep \/ CtrlC \/ Expire \/ \E f \in Family : Arrive(f) \/ Vanish(f)

ListenerSpec == ListenerInit /\ [][ListenerNext]_listenerVars

\* The process keeps running and time passes; nobody has to connect or to
\* press Ctrl-C.
FairListenerSpec == ListenerSpec /\ WF_listenerVars(ListenerStep) /\ WF_listenerVars(Expire)

-----------------------------------------------------------------------------
(* Correctness.                                                            *)

ListenerTypeOK ==
  /\ caller \in {"cli", "library"}
  /\ maxEvents \in Limits
  /\ timed \in BOOLEAN
  /\ stage \in {"bind", "banner", "poll", "select", "receive", "yielded", "resume",
             "leave", "ended"}
  /\ todo \in Seq(Family)
  /\ sockets \subseteq Family
  /\ bindErrors \in Seq(BindError)
  /\ backlog \in [Family -> Nat]
  /\ arrivals \in 0 .. MaxArrivals
  /\ expired \in BOOLEAN
  /\ ready \subseteq Family
  /\ received \in Nat /\ delivered \in Nat /\ late \in Nat
  /\ stopReason \in Reason \cup {"none"}
  /\ raised \in BOOLEAN /\ ctrlC \in BOOLEAN
  /\ report \in SessionReport \cup {"none"}

\* FR-011: a session never receives more events than --max-events, even when
\* both sockets become ready in one round.
WithinLimit == maxEvents # NoLimit => received <= maxEvents

\* FR-011: the summary counts what the consumer was given.  Only Ctrl-C and a
\* failing consumer can leave one event counted that was not dealt with.
SummaryCounts ==
  stage = "ended" =>
    /\ delivered <= received /\ received <= delivered + 1
    /\ ~ctrlC /\ ~raised => received = delivered
    /\ stopReason = "max_events" => received = maxEvents

\* After the deadline at most the round that was under way is finished: one
\* more event on each socket, however many peers keep coming.
BoundedOvershoot == late <= 2

\* The reason in the summary is why the session stopped, whichever of the
\* deadline, the limit, Ctrl-C and a failing consumer came first.
ReasonTrue ==
  stage = "ended" /\ report \notin BindReport /\ report # "aborted" =>
    CASE stopReason = "max_duration" -> timed /\ expired
      [] stopReason = "max_events"   -> received = maxEvents
      [] stopReason = "error"        -> raised
      [] stopReason = "interrupt"    -> ctrlC \/ caller = "library"
      [] OTHER -> FALSE

\* FR-011: what a session took from the network and what its summary says of it.
SummaryTrue == WithinLimit /\ BoundedOvershoot /\ SummaryCounts /\ ReasonTrue

\* A session that is over, or was refused, holds no socket, whichever way it
\* ended; only Ctrl-C during the binds leaves that to the end of the process.
SocketsClosed ==
  /\ ListenerTypeOK
  /\ stage = "ended" /\ ~(ctrlC /\ stopReason = "none") => sockets = {}

\* A stop reason is never revised.
ReasonStands == [][stopReason # "none" => stopReason' = stopReason]_listenerVars

\* With --max-duration the session ends after the deadline, no matter what
\* peers do.
Stops == expired ~> (stage = "ended")
=============================================================================
