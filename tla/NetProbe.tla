------------------------------ MODULE NetProbe ------------------------------
(***************************************************************************)
(* The run of `opskit net probe` (net/api.py probe): a pre-flight lookup,  *)
(* then `count` attempts of NetAttempt one after the other, each reported  *)
(* to a callback, and a summary.  Ctrl-C ends the run at any step after    *)
(* the pre-flight and the attempts completed so far are summarised.        *)
(***************************************************************************)
EXTENDS NetAttempt, ExitCodes

CONSTANT MaxCount    \* --count at most (bound)

ASSUME CountAssumption == MaxCount \in Nat \ {0}

\* What a verdict is and which exit code stands for it.
VerdictOf(o) ==
  CASE o = "open" -> "open"
    [] o \in {"ConnectRefused", "ProxyConnectRefused"} -> "refused"
    [] o \in {"ResolutionError", "ProxyResolutionError"} -> "resolve_failed"
    [] o = "UdpClosed" -> "closed"
    [] o = "UdpInconclusive" -> "inconclusive"
    [] o = "ProxyAuthRequired" -> "auth_required"
    [] o = "ProxyTunnelDenied" -> "tunnel_denied"
    [] o = "ProxyGatewayError" -> "gateway_failed"
    [] o = "ProxyProtocolError" -> "not_a_proxy"
    [] OTHER -> "timeout"

ExitOf(v) ==
  CASE v = "open" -> "OK"
    [] v \in {"refused", "closed"} -> "CONNECT_FAILED"
    [] v \in {"timeout", "inconclusive"} -> "TIMEOUT"
    [] v = "resolve_failed" -> "NXDOMAIN"
    [] v = "auth_required" -> "AUTH_FAILED"
    [] v = "tunnel_denied" -> "TUNNEL_DENIED"
    [] v = "gateway_failed" -> "PROXY_GATEWAY"
    [] v = "not_a_proxy" -> "NOT_A_PROXY"

VARIABLES
  count,        \* --count
  phase,
  attempts,     \* the verdicts of completed attempts
  streamed,     \* how many of them the callback has reported
  interrupted,  \* Ctrl-C was pressed
  exitCode

probeVars == <<count, phase, attempts, streamed, interrupted, exitCode>>
vars == <<attemptVars, probeVars>>

ProbeInit ==
  /\ Init
  /\ count \in 1 .. MaxCount
  /\ attempts = <<>>
  /\ streamed = 0
  /\ interrupted = FALSE
  /\ exitCode = "none"

\* The name is looked up once before the first attempt.
Preflight ==
  /\ phase = "preflight"
  /\ \/ phase' = "attempt" /\ UNCHANGED exitCode
     \/ phase' = "exited" /\ exitCode' = "NXDOMAIN"
  /\ UNCHANGED <<attemptVars, count, attempts, streamed, interrupted>>

Attempt ==
  /\ phase = "attempt"
  /\ AttemptStep
  /\ UNCHANGED probeVars

Over == pc \in {"returned", "failed"}

\* Mutant: an attempt that fails is made again.
RecordRetries ==
  /\ phase = "attempt"
  /\ Over
  /\ IF outcome = "open"
       THEN attempts' = Append(attempts, VerdictOf(outcome)) /\ phase' = "report"
       ELSE phase' = "sleep" /\ UNCHANGED attempts
  /\ UNCHANGED <<attemptVars, count, streamed, interrupted, exitCode>>

\* _run_attempt: a NetError becomes a verdict, any other exception goes up.
Record ==
  /\ phase = "attempt"
  /\ Over
  /\ IF outcome = "OSError"
       THEN /\ phase' = "exited"
            /\ exitCode' = "ERROR"
            /\ UNCHANGED attempts
       ELSE /\ attempts' = Append(attempts, VerdictOf(outcome))
            /\ phase' = "report"
            /\ UNCHANGED exitCode
  /\ UNCHANGED <<attemptVars, count, streamed, interrupted>>

\* Mutant: one attempt more than asked for.
ReportGreedy ==
  /\ phase = "report"
  /\ streamed' = streamed + 1
  /\ phase' = IF Len(attempts) <= count THEN "sleep" ELSE "finalize"
  /\ UNCHANGED <<attemptVars, count, attempts, interrupted, exitCode>>

\* The attempt is streamed; after the last one there is nothing to wait for.
Report ==
  /\ phase = "report"
  /\ streamed' = streamed + 1
  /\ phase' = IF Len(attempts) < count THEN "sleep" ELSE "finalize"
  /\ UNCHANGED <<attemptVars, count, attempts, interrupted, exitCode>>

\* The next attempt starts from nothing.
AgainAs(m) ==
  /\ mode' = m
  /\ pc' = "resolve"
  /\ addrs' = 0
  /\ round' = 0 /\ pass' = 0 /\ at' = 1
  /\ refused' = FALSE
  /\ open' = {}
  /\ chunks' = 0
  /\ log' = <<>>
  /\ outcome' = "none"
  /\ UNCHANGED retries

Sleep ==
  /\ phase = "sleep"
  /\ phase' = "attempt"
  /\ AgainAs(mode)
  /\ UNCHANGED <<count, attempts, streamed, interrupted, exitCode>>

\* Ctrl-C: whatever the run is doing, it goes on to the summary.  The attempt
\* under way is lost, and its socket with it.
InterruptProbe ==
  /\ phase \in {"attempt", "report", "sleep"}
  /\ interrupted' = TRUE
  /\ phase' = "finalize"
  /\ UNCHANGED <<attemptVars, count, attempts, streamed, exitCode>>

\* _finalize_probe, the summary, and the exit code of the command.
Finalize ==
  /\ phase = "finalize"
  /\ phase' = "exited"
  /\ exitCode' = AggregateExit({ExitOf(attempts[i]) : i \in DOMAIN attempts})
  /\ UNCHANGED <<attemptVars, count, attempts, streamed, interrupted>>

ProbeStep == Preflight \/ Attempt \/ Record \/ Report \/ Sleep \/ Finalize

-----------------------------------------------------------------------------
(* Correctness.                                                            *)

\* FR-009: the run makes the attempts it was asked for, no more; what it
\* completed was streamed, but for one attempt that Ctrl-C can cut off from its
\* report; and a run that completed fewer was interrupted.
RunAccounts ==
  /\ Len(attempts) <= count
  /\ streamed <= Len(attempts) /\ Len(attempts) <= streamed + 1
  /\ phase = "exited" /\ exitCode \notin {"ERROR", "none"} /\ attempts # <<>> /\ ~interrupted
       => Len(attempts) = count /\ streamed = count

\* Constitution Art. IX: success means that no attempt failed, a class of
\* failure that every attempt failed in that class, anything else is PARTIAL.
ExitTells ==
  phase = "exited" /\ attempts # <<>> /\ exitCode # "ERROR"
    => Summarises(exitCode, [i \in DOMAIN attempts |-> ExitOf(attempts[i])])

\* FR-009: the run is reported as it was.
RunReported == RunAccounts /\ ExitTells

\* FR-009: "a failing attempt MUST NOT abort the run".
AttemptNeverAborts == exitCode # "ERROR"
=============================================================================
