----------------------------- MODULE NetCommand -----------------------------
(***************************************************************************)
(* `opskit net check` and `opskit net probe` (net/cli.py).  Options and    *)
(* environment say whether there is a proxy and which hosts are exempt     *)
(* from it; that gives every target its route.  probe is module NetProbe   *)
(* for one target.  check makes one attempt for each target, whatever came *)
(* of the others, and one exit code of the outcomes; under --watch it does *)
(* so again after a pause and says whether anything changed.               *)
(***************************************************************************)
EXTENDS NetProbe, SequencesExt

CONSTANTS
  Command,      \* what an operator may ask, see CommandType
  Host,         \* names of targets, label by label
  MaxRounds     \* rounds of --watch (bound)

Given == {"none", "good", "bad"}

\* A host or a domain; blank entries are passed over when lists are read.
Name == Seq(STRING) \ {<<>>}

\* parsed: the target has a host and a port that agrees with --port.
Target == [host : Host, parsed : BOOLEAN]

\* env: the proxy variables in the order in which they are read; exempt: the
\* entries of --no-proxy and those of the variable NO_PROXY; accepted: --family,
\* the intervals and the counts are, and there is a target.
CommandType ==
  [name : {"check", "probe"}, targets : Seq(Target), udp : BOOLEAN, retries : Nat,
   count : Nat, watch : BOOLEAN, accepted : BOOLEAN,
   proxy : Given, direct : BOOLEAN, env : Seq(Given),
   noProxy : SUBSET Name, noProxyEnv : SUBSET Name, noProxyGiven : BOOLEAN]

ASSUME CommandAssumption ==
  /\ MaxRounds \in Nat
  /\ Host \subseteq Name
  /\ Command \subseteq CommandType
  /\ \A c \in Command :
       /\ c.name = "probe" => Len(c.targets) = 1 /\ ~c.watch
       /\ c.accepted => c.targets # <<>>
       /\ c.retries <= MaxRetries /\ c.count \in 1 .. MaxCount

VARIABLES
  command,
  outcomes,     \* check: of this round, target by target
  rounds,       \* the outcomes of the last two complete rounds
  begun,     \* rounds begun
  shown         \* what --watch said of the last round

commandVars == <<command, outcomes, rounds, begun, shown>>
allVars == <<vars, commandVars>>

-----------------------------------------------------------------------------
(* The route of a target.                                                  *)

\* Blank variables are passed over.
EnvProxy(c) ==
  LET set == SelectSeq(c.env, LAMBDA v : v # "none") IN
    IF set = <<>> THEN "none" ELSE Head(set)

\* resolve_proxy_config: flag, environment, none.
Nominated(c) ==
  IF c.direct THEN "none" ELSE IF c.proxy # "none" THEN c.proxy ELSE EnvProxy(c)

\* _exemption_list: the flag replaces the variable.
Exemptions(c) == IF c.noProxyGiven THEN c.noProxy ELSE c.noProxyEnv

\* Mutant: an entry exempts its own host only.
ExemptExactly(host, entries) == <<"*">> \in entries \/ host \in entries

\* proxy_exempt: an entry is a host or a domain.
Exempt(host, entries) == \E e \in entries : e = <<"*">> \/ IsSuffix(e, host)

\* _route_for
Routed(c, t) == Nominated(c) = "good" /\ ~Exempt(t.host, Exemptions(c))

ModeOf(c, t) == IF c.udp THEN "udp" ELSE IF Routed(c, t) THEN "proxy" ELSE "tcp"

ASSUME ModeOfAssumption ==
  \A c \in Command : \A i \in 1 .. Len(c.targets) : ModeOf(c, c.targets[i]) \in Modes

\* _resolve_proxy_arg, parse_target: no tunnel carries UDP.
Refused(c, t) == ~t.parsed \/ (c.udp /\ Routed(c, t))

Rejects(c) ==
  \/ ~c.accepted
  \/ c.direct /\ c.proxy # "none"
  \/ Nominated(c) = "bad"
  \/ c.name = "probe" /\ Refused(c, c.targets[1])

-----------------------------------------------------------------------------
CommandInit ==
  /\ ProbeInit
  /\ command \in Command
  /\ phase = "given"
  /\ mode = (IF command.targets = <<>> THEN "tcp" ELSE ModeOf(command, command.targets[1]))
  /\ retries = command.retries /\ count = command.count
  /\ outcomes = <<>> /\ rounds = <<>> /\ begun = 0 /\ shown = "none"

RejectOptions ==
  /\ phase = "given" /\ Rejects(command)
  /\ phase' = "exited" /\ exitCode' = "USAGE"
  /\ UNCHANGED <<attemptVars, count, attempts, streamed, interrupted, commandVars>>

Probe ==
  /\ phase = "given" /\ command.name = "probe" /\ ~Rejects(command)
  /\ phase' = "preflight"
  /\ UNCHANGED <<attemptVars, count, attempts, streamed, interrupted, exitCode, commandVars>>

ProbeRun == ProbeStep /\ UNCHANGED commandVars

-----------------------------------------------------------------------------
(* check                                                                   *)

probeOnly == <<count, attempts, streamed, interrupted>>

turn == Len(outcomes) + 1
target == command.targets[turn]

BeginRound ==
  /\ phase' = "target"
  /\ outcomes' = <<>>
  /\ begun' = begun + 1
  /\ UNCHANGED <<attemptVars, probeOnly, exitCode, command, rounds, shown>>

Check ==
  /\ phase = "given" /\ command.name = "check" /\ ~Rejects(command)
  /\ BeginRound

\* Mutant: one target that cannot be checked rejects the command.
RefuseTargetAborts ==
  /\ phase = "target" /\ turn <= Len(command.targets) /\ Refused(command, target)
  /\ phase' = "exited" /\ exitCode' = "USAGE"
  /\ UNCHANGED <<attemptVars, probeOnly, commandVars>>

\* The error of one target; the next one may be fine.
RefuseTarget ==
  /\ phase = "target" /\ turn <= Len(command.targets) /\ Refused(command, target)
  /\ outcomes' = Append(outcomes, [says |-> "UsageError", at |-> 0,
                                   tunnel |-> Routed(command, target)])
  /\ UNCHANGED <<attemptVars, phase, probeOnly, exitCode, command, rounds, begun, shown>>

TakeTarget ==
  /\ phase = "target" /\ turn <= Len(command.targets) /\ ~Refused(command, target)
  /\ phase' = "checking"
  /\ AgainAs(ModeOf(command, target))
  /\ UNCHANGED <<probeOnly, exitCode, commandVars>>

CheckAttempt ==
  /\ phase = "checking"
  /\ AttemptStep
  /\ UNCHANGED <<probeVars, commandVars>>

\* The result holds the address that answered: with a tunnel, the proxy's.
Conclude ==
  /\ phase = "checking" /\ Over /\ outcome # "OSError"
  /\ outcomes' = Append(outcomes, [says |-> outcome, at |-> IF outcome = "open" THEN at ELSE 0,
                                   tunnel |-> Proxied])
  /\ phase' = "target"
  /\ UNCHANGED <<attemptVars, probeOnly, exitCode, command, rounds, begun, shown>>

\* What is no OpskitError goes up through the command.
ConcludeRaises ==
  /\ phase = "checking" /\ outcome = "OSError"
  /\ phase' = "exited" /\ exitCode' = "ERROR"
  /\ UNCHANGED <<attemptVars, probeOnly, commandVars>>

\* The exit code each error declares.
CheckExit(says) ==
  CASE says = "open" -> "OK"
    [] says \in {"ConnectRefused", "ProxyConnectRefused", "UdpClosed"} -> "CONNECT_FAILED"
    [] says \in {"ConnectTimeout", "ProxyConnectTimeout", "UdpInconclusive"} -> "TIMEOUT"
    [] says \in {"ResolutionError", "ProxyResolutionError"} -> "NXDOMAIN"
    [] says = "ProxyAuthRequired" -> "AUTH_FAILED"
    [] says = "ProxyTunnelDenied" -> "TUNNEL_DENIED"
    [] says = "ProxyGatewayError" -> "PROXY_GATEWAY"
    [] says = "ProxyProtocolError" -> "NOT_A_PROXY"
    [] says = "UsageError" -> "USAGE"
    [] says = "NetError" -> "ERROR"

RoundCode(r) == AggregateExit({CheckExit(r[i].says) : i \in DOMAIN r})

\* Mutant: the classes of the outcomes, as in the exit code.
SignatureBare(r) == [i \in DOMAIN r |-> <<CheckExit(r[i].says), r[i].tunnel>>]

\* _check_signature: verdict or error, address and route, without times.
Signature(r) == [i \in DOMAIN r |-> <<r[i].says, r[i].at, r[i].tunnel>>]

EndRound ==
  /\ phase = "target" /\ turn > Len(command.targets)
  /\ rounds' = (IF rounds = <<>> THEN <<>> ELSE <<Last(rounds)>>) \o <<outcomes>>
  /\ IF command.watch
       THEN /\ phase' = "sleeping"
            /\ shown' = IF rounds = <<>> THEN "initial"
                        ELSE IF Signature(outcomes) # Signature(Last(rounds)) THEN "changed"
                        ELSE "no change"
            /\ UNCHANGED exitCode
       ELSE phase' = "exited" /\ exitCode' = RoundCode(outcomes) /\ UNCHANGED shown
  /\ UNCHANGED <<attemptVars, probeOnly, command, outcomes, begun>>

Wake ==
  /\ phase = "sleeping" /\ begun < MaxRounds
  /\ BeginRound

-----------------------------------------------------------------------------
(* Ctrl-C.  watch returns the code of the last complete round, or success  *)
(* if there is none.                                                       *)

Interrupt ==
  \/ InterruptProbe /\ UNCHANGED commandVars
  \/ /\ phase \in {"target", "checking", "sleeping"}
     /\ phase' = "exited"
     /\ exitCode' = IF ~command.watch THEN "killed"
                    ELSE IF rounds = <<>> THEN "OK" ELSE RoundCode(Last(rounds))
     /\ UNCHANGED <<attemptVars, probeOnly, commandVars>>

CheckStep ==
  \/ Check \/ RefuseTarget \/ TakeTarget \/ CheckAttempt \/ Conclude \/ ConcludeRaises
  \/ EndRound \/ Wake

Step == RejectOptions \/ Probe \/ ProbeRun \/ CheckStep

Next == Step \/ Interrupt

CommandSpec == CommandInit /\ [][Next]_allVars

\* One process, and every call of it ends.
FairCommandSpec == CommandSpec /\ WF_allVars(Step)

-----------------------------------------------------------------------------
(* Correctness.                                                            *)

ProxyErrors ==
  {"ProxyResolutionError", "ProxyConnectRefused", "ProxyConnectTimeout",
   "ProxyAuthRequired", "ProxyTunnelDenied", "ProxyGatewayError", "ProxyProtocolError"}

\* specs/005-net-proxy-checks FR-002 to FR-004: a target is behind the proxy if
\* one was nominated and neither the host nor a domain it is in is exempt.
Behind(c, t) ==
  /\ Nominated(c) = "good"
  /\ \A n \in 1 .. Len(t.host) : SubSeq(t.host, n, Len(t.host)) \notin Exemptions(c)
  /\ <<"*">> \notin Exemptions(c)

\* 005 FR-004, FR-007 and FR-009: what is said of a target that is checked
\* directly is never the proxy's fault, nor the other way round; the route that
\* is reported is the one that was asked for; and UDP is never tunnelled.
OutcomesTold ==
  \A r \in ToSet(rounds) \cup {outcomes} : \A i \in DOMAIN r :
    /\ r[i].tunnel = Behind(command, command.targets[i])
    /\ IF r[i].tunnel THEN r[i].says \in ProxyErrors \cup {"open", "UsageError"}
                      ELSE r[i].says \notin ProxyErrors
    /\ command.udp => r[i].says \notin ProxyErrors \cup {"ConnectTimeout"}
                      /\ (r[i].tunnel => r[i].says = "UsageError")

\* 003 FR-014, 005 FR-018 and Art. IX: a round has one outcome for every target
\* that was given, also when some cannot be checked at all; the exit code sums
\* up the last complete round, also when Ctrl-C ends a later one; and "no
\* change" (003 FR-015) means that each target answered as before, at the same
\* address.
RoundsTold ==
  /\ \A r \in ToSet(rounds) : Len(r) = Len(command.targets)
  /\ phase = "exited" /\ command.name = "check" /\ exitCode \notin {"killed", "ERROR"} =>
       CASE rounds # <<>> ->
              Summarises(exitCode,
                         [i \in DOMAIN Last(rounds) |-> CheckExit(Last(rounds)[i].says)])
         [] rounds = <<>> -> IF exitCode = "OK" THEN command.watch ELSE Rejects(command)
  /\ shown = "no change" =>
       \A i \in DOMAIN command.targets :
         rounds[1][i].says = rounds[2][i].says /\ rounds[1][i].at = rounds[2][i].at

\* A probe run and every round of checks is reported as it was.
CommandTold == RunReported /\ OutcomesTold /\ RoundsTold

\* The command ends; under --watch, every round does.
RunEnds == []<>(phase \in {"exited", "sleeping"})
=============================================================================
