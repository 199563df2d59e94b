-------------------------- MODULE NetCommandProofs --------------------------
(***************************************************************************)
(* Proofs about NetCommand: `net check` and `net probe` over any targets,  *)
(* options and environment.  What NetProofs shows of one attempt holds of  *)
(* every attempt of a command (CommandSockets, CommandOutcomes), and what  *)
(* the command reports is what its attempts gave (CommandReports).         *)
(***************************************************************************)
EXTENDS NetCommand, Listener, NetProofs, ExitCodeProofs, SequenceTheorems

-----------------------------------------------------------------------------
(***************************************************************************)
(* Suffixes.                                                               *)
(***************************************************************************)
\* An entry exempts a host that is the entry, or in it: its labels are the last
\* labels of the host.
LEMMA SuffixIsTail ==
  ASSUME NEW S, NEW e \in Seq(S) \ {<<>>}, NEW h \in Seq(S)
  PROVE  IsSuffix(e, h) <=> \E n \in 1 .. Len(h) : SubSeq(h, n, Len(h)) = e
<1> DEFINE k == Len(e)
           l == Len(h)
           er == Reverse(e)
           hr == Reverse(h)
<1>0. k \in Nat \ {0} /\ l \in Nat
  OBVIOUS
<1>1. /\ er \in Seq(S) /\ Len(er) = k /\ \A i \in 1 .. k : er[i] = e[k - i + 1]
      /\ hr \in Seq(S) /\ Len(hr) = l /\ \A i \in 1 .. l : hr[i] = h[l - i + 1]
  BY <1>0, IsASeq DEF Reverse
<1>2. ASSUME k <= l
      PROVE  SubSeq(er, 1, k) = SubSeq(hr, 1, k)
               <=> \A i \in 1 .. k : e[k - i + 1] = h[l - i + 1]
  <2>1. /\ SubSeq(er, 1, k) \in Seq(S) /\ Len(SubSeq(er, 1, k)) = k
        /\ \A i \in 1 .. k : SubSeq(er, 1, k)[i] = er[i]
    BY <1>0, <1>1, SubSeqProperties
  <2>2. /\ SubSeq(hr, 1, k) \in Seq(S) /\ Len(SubSeq(hr, 1, k)) = k
        /\ \A i \in 1 .. k : SubSeq(hr, 1, k)[i] = hr[i]
    BY <1>0, <1>1, <1>2, SubSeqProperties
  <2>3. SubSeq(er, 1, k) = SubSeq(hr, 1, k)
          <=> \A i \in 1 .. k : SubSeq(er, 1, k)[i] = SubSeq(hr, 1, k)[i]
    BY <2>1, <2>2, SeqEqual
  <2>4. \A i \in 1 .. k : /\ i \in 1 .. l
                          /\ SubSeq(er, 1, k)[i] = e[k - i + 1]
                          /\ SubSeq(hr, 1, k)[i] = h[l - i + 1]
    BY <1>0, <1>1, <1>2, <2>1, <2>2
  <2> DEFINE a == SubSeq(er, 1, k)
             b == SubSeq(hr, 1, k)
  <2>5. /\ a = b <=> \A i \in 1 .. k : a[i] = b[i]
        /\ \A i \in 1 .. k : a[i] = e[k - i + 1] /\ b[i] = h[l - i + 1]
    BY <2>3, <2>4
  <2> HIDE DEF a, b, k, l
  <2>6. a = b <=> \A i \in 1 .. k : e[k - i + 1] = h[l - i + 1]
    BY <2>5
  <2>. QED BY <2>6 DEF a, b
<1>3. ASSUME NEW n \in 1 .. l
      PROVE  SubSeq(h, n, l) = e
               <=> n = l - k + 1 /\ \A i \in 1 .. k : e[k - i + 1] = h[l - i + 1]
  <2>1. /\ SubSeq(h, n, l) \in Seq(S) /\ Len(SubSeq(h, n, l)) = l - n + 1
        /\ \A i \in 1 .. l - n + 1 : SubSeq(h, n, l)[i] = h[n + i - 1]
    BY <1>0, SubSeqProperties
  <2>2. SubSeq(h, n, l) = e
          <=> k = l - n + 1 /\ \A i \in 1 .. k : h[n + i - 1] = e[i]
    BY <1>0, <2>1, SeqEqual
  <2>3. ASSUME n = l - k + 1
        PROVE  (\A i \in 1 .. k : h[n + i - 1] = e[i])
                 <=> \A i \in 1 .. k : e[k - i + 1] = h[l - i + 1]
    <3>1. \A i \in 1 .. k : /\ k - i + 1 \in 1 .. k
                            /\ n + (k - i + 1) - 1 = l - i + 1
                            /\ k - (k - i + 1) + 1 = i
                            /\ l - (k - i + 1) + 1 = n + i - 1
      BY <1>0, <2>3
    <3> HIDE DEF k, l
    <3>2. ASSUME \A i \in 1 .. k : h[n + i - 1] = e[i], NEW i \in 1 .. k
          PROVE  e[k - i + 1] = h[l - i + 1]
      BY <3>1, <3>2
    <3>3. ASSUME \A i \in 1 .. k : e[k - i + 1] = h[l - i + 1], NEW i \in 1 .. k
          PROVE  h[n + i - 1] = e[i]
      BY <3>1, <3>3
    <3>. QED BY <3>2, <3>3
  <2>. QED BY <1>0, <2>2, <2>3
<1>4. IsSuffix(e, h) <=> k <= l /\ SubSeq(er, 1, k) = SubSeq(hr, 1, k)
  BY <1>1 DEF IsSuffix, IsPrefix
<1>5. k <= l => l - k + 1 \in 1 .. l
  BY <1>0
<1> DEFINE same == \A i \in 1 .. k : e[k - i + 1] = h[l - i + 1]
<1>6. IsSuffix(e, h) <=> k <= l /\ same
  BY <1>2, <1>4
<1>7. \A n \in 1 .. l : SubSeq(h, n, l) = e <=> n = l - k + 1 /\ same
  BY <1>3
<1> HIDE DEF same
<1>8. (\E n \in 1 .. l : n = l - k + 1) <=> k <= l
  <2> HIDE DEF k, l
  <2>1. k <= l => \E n \in 1 .. l : n = l - k + 1
    BY <1>5
  <2>2. ASSUME NEW n \in 1 .. l, n = l - k + 1
        PROVE  k <= l
    BY <1>0, <2>2
  <2>. QED BY <2>1, <2>2
<1>. QED BY <1>6, <1>7, <1>8

\* proxy_exempt and the flags come to what the specification says of them.
LEMMA RouteTrue ==
  ASSUME NEW c \in Command, NEW i \in 1 .. Len(c.targets)
  PROVE  Routed(c, c.targets[i]) <=> Behind(c, c.targets[i])
<1> DEFINE host == c.targets[i].host
           entries == Exemptions(c)
<1>1. c \in CommandType
  BY CommandAssumption
<1>2. host \in Seq(STRING)
  <2>1. c.targets \in Seq(Target)
    BY <1>1 DEF CommandType
  <2>2. c.targets[i] \in Target
    BY <2>1
  <2>. QED BY <2>2, CommandAssumption DEF Target, Name
<1>3. entries \subseteq Seq(STRING) \ {<<>>}
  <2>1. c.noProxy \subseteq Name /\ c.noProxyEnv \subseteq Name
    BY <1>1 DEF CommandType
  <2>. QED BY <2>1 DEF Exemptions, Name
<1>4. \A e \in entries :
        IsSuffix(e, host) <=> \E n \in 1 .. Len(host) : SubSeq(host, n, Len(host)) = e
  BY <1>2, <1>3, SuffixIsTail
<1> HIDE DEF host, entries
<1>5. (\E e \in entries : e = <<"*">> \/ IsSuffix(e, host))
        <=> \/ <<"*">> \in entries
            \/ \E n \in 1 .. Len(host) : SubSeq(host, n, Len(host)) \in entries
  BY <1>4
<1>. QED BY <1>5 DEF Routed, Behind, Exempt, host, entries

-----------------------------------------------------------------------------
(***************************************************************************)
(* Whose fault an error is.                                                *)
(***************************************************************************)
\* An attempt ends with an outcome of its own mode.
Blame ==
  /\ pc \in {"returned", "failed"} => outcome # "none"
  /\ mode = "proxy" => outcome \in ProxyErrors \cup {"open", "none", "OSError"}
  /\ mode = "tcp" =>
       outcome \in {"ResolutionError", "ConnectRefused", "ConnectTimeout",
                    "open", "none", "OSError"}
  /\ mode = "udp" =>
       outcome \in {"ResolutionError", "UdpClosed", "UdpInconclusive", "ConnectRefused",
                    "NetError", "open", "none"}

LEMMA BlameStep ==
  ASSUME WalkInv, Blame, [AttemptStep]_attemptVars
  PROVE  Blame'
<1>0. mode' = mode /\ (pc \in {"send", "read"} => mode = "proxy")
  BY AskingStep DEF WalkInv, Orderly, Proxied
<1>1. ASSUME TunnelSilent, mode = "proxy"
      PROVE  Blame'
  BY <1>0, <1>1 DEF TunnelSilent, Raise, Blame, ProxyErrors
<1>2. ASSUME NextAddress
      PROVE  Blame'
  <2>1. CASE pc' = "dial" /\ outcome' = outcome
    BY <1>0, <2>1 DEF Blame
  <2>2. CASE GiveUp
    <3>1. CASE refused' /\ Raise(IF Proxied THEN "ProxyConnectRefused" ELSE "ConnectRefused")
      BY <1>0, <3>1 DEF Raise, Blame, ProxyErrors, Proxied
    <3>2. CASE Proxied /\ TunnelSilent
      BY <1>1, <3>2 DEF Proxied
    <3>3. CASE mode = "tcp" /\ Raise("ConnectTimeout")
      BY <1>0, <3>3 DEF Raise, Blame
    <3>4. CASE mode = "udp" /\ Raise("UdpInconclusive")
      BY <1>0, <3>4 DEF Raise, Blame
    <3>. QED BY <2>2, <3>1, <3>2, <3>3, <3>4 DEF GiveUp
  <2>. QED BY <1>2, <2>1, <2>2 DEF NextAddress
<1>3. CASE ResolveFails \/ SocketFails
  BY <1>0, <1>3 DEF ResolveFails, SocketFails, Raise, Blame, ProxyErrors, Proxied
<1>4. CASE Resolve \/ OpenSocket \/ Accepts \/ Replies \/ ReadChunk
  BY <1>0, <1>4 DEF Resolve, OpenSocket, Accepts, Replies, ReadChunk, Blame
<1>5. CASE Silent \/ Refuses
  BY <1>2, <1>5 DEF Silent, Refuses
<1>6. CASE Unreachable
  BY <1>0, <1>6 DEF Unreachable, Raise, Blame
<1>7. CASE SendRequest
  <2>1. CASE pc' = "read" /\ outcome' = outcome
    BY <1>0, <2>1 DEF Blame
  <2>2. CASE TunnelSilent
    BY <1>0, <1>1, <1>7, <2>2 DEF SendRequest
  <2>3. CASE Raise("ProxyProtocolError")
    BY <1>0, <1>7, <2>3 DEF SendRequest, Raise, Blame, ProxyErrors
  <2>. QED BY <1>7, <2>1, <2>2, <2>3 DEF SendRequest
<1>8. CASE ReadTooMuch \/ ReadBroken
  BY <1>0, <1>8 DEF ReadTooMuch, ReadBroken, Raise, Blame, ProxyErrors
<1>9. CASE ReadSilent
  BY <1>0, <1>1, <1>9 DEF ReadSilent
<1>10. ASSUME NEW s \in Status, AnswerCut(s) \/ Answer(s)
       PROVE  Blame'
  <2>1. mode = "proxy"
    BY <1>0, <1>10 DEF AnswerCut, Answer
  <2>2. StatusError(s) \in ProxyErrors
    BY DEF Status, StatusError, ProxyErrors
  <2>3. CASE pc' = "connected" /\ outcome' = outcome
    BY <1>0, <2>3 DEF Blame
  <2>4. CASE Raise(StatusError(s))
    <3>1. "none" \notin ProxyErrors
      BY DEF ProxyErrors
    <3>. QED BY <1>0, <2>1, <2>2, <2>4, <3>1 DEF Raise, Blame
  <2>. QED BY <1>10, <2>3, <2>4 DEF AnswerCut, Answer
<1>11. CASE Verdict
  BY <1>0, <1>11 DEF Verdict, Blame
<1>12. CASE UNCHANGED attemptVars
  BY <1>12 DEF attemptVars, Blame
<1>. QED
  BY <1>3, <1>4, <1>5, <1>6, <1>7, <1>8, <1>9, <1>10, <1>11, <1>12 DEF AttemptStep

-----------------------------------------------------------------------------
(***************************************************************************)
(* The state of a command.                                                 *)
(***************************************************************************)
Says == NetError \cup {"open", "none", "UsageError"}
Said == [says : Says, at : Nat, tunnel : BOOLEAN]
Verdicts == {"open", "refused", "resolve_failed", "closed", "inconclusive",
             "auth_required", "tunnel_denied", "gateway_failed", "not_a_proxy", "timeout"}

ProbePhases == {"preflight", "attempt", "report", "sleep", "finalize"}
CheckPhases == {"target", "checking", "sleeping"}

\* Which command is where, and with how many of its targets.
Progress ==
  /\ command \in Command
  /\ phase \in {"given", "exited"} \cup ProbePhases \cup CheckPhases
  /\ phase \in ProbePhases => command.name = "probe"
  /\ phase \in CheckPhases => command.name = "check" /\ ~Rejects(command)
  /\ outcomes \in Seq(Said) /\ Len(outcomes) <= Len(command.targets)
  /\ phase = "given" => outcomes = <<>> /\ rounds = <<>>

\* What a probe run has done in each of its phases.
Account ==
  /\ attempts \in Seq(Verdicts) /\ count \in Nat \ {0} /\ streamed \in Nat
  /\ phase \in {"given", "preflight"} => attempts = <<>> /\ streamed = 0
  /\ command.name = "check" => attempts = <<>> /\ streamed = 0
  /\ phase \in {"attempt", "sleep"} => streamed = Len(attempts) /\ Len(attempts) < count
  /\ phase = "report" => Len(attempts) = streamed + 1 /\ Len(attempts) <= count
  /\ phase \in {"finalize", "exited"} =>
       /\ streamed <= Len(attempts) /\ Len(attempts) <= streamed + 1
       /\ Len(attempts) <= count
       /\ ~interrupted =>
            \/ phase = "exited" /\ exitCode = "ERROR"
            \/ attempts = <<>>
            \/ Len(attempts) = count /\ streamed = count

\* A target that is being checked is one that can be, and is checked on its
\* own route.
OnRoute ==
  phase = "checking" =>
    /\ Len(outcomes) < Len(command.targets)
    /\ ~Refused(command, target)
    /\ mode = ModeOf(command, target)

\* The rounds that are kept are complete.
Complete ==
  /\ rounds \in Seq(Seq(Said)) /\ Len(rounds) <= 2
  /\ \A i \in DOMAIN rounds : Len(rounds[i]) = Len(command.targets)
  /\ ~command.watch => shown = "none"
  /\ shown = "no change" =>
       /\ Len(rounds) = 2
       /\ \A i \in DOMAIN command.targets :
            rounds[1][i].says = rounds[2][i].says /\ rounds[1][i].at = rounds[2][i].at

CommandInv ==
  /\ Progress /\ WalkInv /\ Blame /\ Account /\ ExitTells /\ OnRoute
  /\ Complete /\ OutcomesTold /\ RoundsTold

\* A step of a command is one of its attempt, or begins another attempt.
LEMMA AttemptOrAgain ==
  ASSUME CommandInv, [Next]_allVars
  PROVE  [AttemptStep]_attemptVars \/ \E m \in Modes : AgainAs(m)
<1>1. CASE RejectOptions \/ Probe \/ Interrupt \/ Check
  BY <1>1 DEF RejectOptions, Probe, Interrupt, InterruptProbe, Check, BeginRound
<1>2. ASSUME ProbeStep
      PROVE  [AttemptStep]_attemptVars \/ \E m \in Modes : AgainAs(m)
  <2>1. CASE Preflight \/ Attempt \/ Record \/ Report \/ Finalize
    BY <2>1 DEF Preflight, Attempt, Record, Report, Finalize
  <2>2. CASE Sleep
    BY <2>2 DEF Sleep, CommandInv, WalkInv, SocketOwned, TypeOK
  <2>. QED BY <1>2, <2>1, <2>2 DEF ProbeStep
<1>3. CASE RefuseTarget \/ CheckAttempt \/ Conclude \/ ConcludeRaises \/ EndRound \/ Wake
  BY <1>3 DEF RefuseTarget, CheckAttempt, Conclude, ConcludeRaises, EndRound, Wake, BeginRound
<1>4. ASSUME TakeTarget
      PROVE  \E m \in Modes : AgainAs(m)
  <2>1. Len(outcomes) \in Nat
    BY DEF CommandInv, Progress
  <2>2. turn \in Nat /\ turn >= 1 /\ turn <= Len(command.targets)
    BY <1>4, <2>1 DEF TakeTarget, turn
  <2>3. turn \in 1 .. Len(command.targets) /\ command \in Command
    BY <2>2, CommandAssumption DEF CommandInv, Progress, CommandType
  <2>4. ModeOf(command, target) \in Modes
    BY <2>3, ModeOfAssumption DEF target
  <2>. QED BY <1>4, <2>4 DEF TakeTarget
<1>5. CASE UNCHANGED allVars
  BY <1>5 DEF allVars, vars
<1>. QED BY <1>1, <1>2, <1>3, <1>4, <1>5 DEF Next, Step, ProbeRun, CheckStep

\* Every attempt of a command is one of NetProofs.
LEMMA AttemptInvStep ==
  ASSUME CommandInv, [Next]_allVars
  PROVE  WalkInv' /\ Blame'
<1>1. CASE [AttemptStep]_attemptVars
  BY <1>1, WalkInvStep, BlameStep DEF CommandInv
<1>2. ASSUME NEW m \in Modes, AgainAs(m)
      PROVE  WalkInv' /\ Blame'
  <2>1. retries \in 0 .. MaxRetries
    BY DEF CommandInv, WalkInv, SocketOwned, TypeOK
  <2>2. (mode \in Modes /\ retries \in 0 .. MaxRetries /\ Fresh)'
    BY <1>2, <2>1 DEF AgainAs, Fresh
  <2>3. Blame'
    BY <1>2 DEF AgainAs, Blame
  <2>. QED BY <2>2, <2>3, WalkFreshNext
<1>. QED BY <1>1, <1>2, AttemptOrAgain

\* No step changes the command, and every phase is of the command it belongs to.
LEMMA ProgressStep ==
  ASSUME CommandInv, [Next]_allVars
  PROVE  /\ command' = command /\ count' = count
         /\ phase' \in {"given", "exited"} \cup ProbePhases \cup CheckPhases
         /\ phase' \in ProbePhases => command.name = "probe"
         /\ phase' \in CheckPhases => command.name = "check" /\ ~Rejects(command)
         /\ phase' = "given" => UNCHANGED allVars
<1> USE DEF ProbePhases, CheckPhases
<1>1. Progress
  BY DEF CommandInv
<1>2. CASE RejectOptions \/ Probe \/ Check
  BY <1>1, <1>2 DEF Progress, RejectOptions, Probe, Check, BeginRound, commandVars, probeOnly
<1>3. CASE ProbeRun
  <2>1. ProbeStep /\ command' = command
    BY <1>3 DEF ProbeRun, commandVars
  <2>. QED
    BY <1>1, <2>1 DEF Progress, ProbeStep, Preflight, Attempt, Record, Report, Sleep, Finalize,
         probeVars
<1>4. CASE RefuseTarget \/ TakeTarget \/ CheckAttempt \/ Conclude \/ ConcludeRaises \/ EndRound
             \/ Wake
  BY <1>1, <1>4 DEF Progress, RefuseTarget, TakeTarget, CheckAttempt, Conclude, ConcludeRaises,
       EndRound, Wake, BeginRound, commandVars, probeOnly, probeVars
<1>5. CASE Interrupt
  BY <1>1, <1>5 DEF Progress, Interrupt, InterruptProbe, commandVars, probeOnly
<1>6. CASE UNCHANGED allVars
  BY <1>1, <1>6 DEF Progress, allVars, vars, commandVars, probeVars
<1>. QED BY <1>2, <1>3, <1>4, <1>5, <1>6 DEF Next, Step, CheckStep

\* A verdict for every outcome.
LEMMA VerdictType == \A o : VerdictOf(o) \in Verdicts
BY DEF VerdictOf, Verdicts

\* The run counts what it did and its exit code says how it went.
LEMMA RunStep ==
  ASSUME CommandInv, [Next]_allVars
  PROVE  Account' /\ ExitTells'
<1> USE DEF ProbePhases, CheckPhases
<1>1. Progress /\ Account /\ ExitTells /\ Len(attempts) \in Nat
  BY DEF CommandInv, Account
<1>2. command' = command /\ count' = count
  BY ProgressStep
<1>3. ASSUME attempts = <<>>, streamed = 0, UNCHANGED <<attempts, streamed, interrupted>>,
             phase' \in {"given", "preflight", "exited"} \cup CheckPhases
      PROVE  Account' /\ ExitTells'
  BY <1>1, <1>2, <1>3 DEF Account, ExitTells
<1>4. CASE RejectOptions \/ Probe \/ Check
  BY <1>1, <1>3, <1>4 DEF RejectOptions, Probe, Check, BeginRound, Account, probeOnly
<1>5. CASE RefuseTarget \/ TakeTarget \/ CheckAttempt \/ Conclude \/ ConcludeRaises \/ EndRound
             \/ Wake
  <2>1. phase \in CheckPhases /\ phase' \in CheckPhases \cup {"exited"}
        /\ UNCHANGED <<attempts, streamed, interrupted>>
    BY <1>5 DEF RefuseTarget, TakeTarget, CheckAttempt, Conclude, ConcludeRaises,
       EndRound, Wake, BeginRound, commandVars, probeOnly, probeVars
  <2>. QED BY <1>1, <1>3, <2>1 DEF Progress, Account
<1>6. CASE Interrupt
  <2>1. CASE InterruptProbe
    BY <1>1, <1>2, <2>1 DEF InterruptProbe, Account, ExitTells, Progress
  <2>2. CASE phase \in CheckPhases /\ phase' = "exited" /\ UNCHANGED probeOnly
    BY <1>1, <1>3, <2>2 DEF probeOnly, Progress, Account
  <2>. QED BY <1>6, <2>1, <2>2 DEF Interrupt
<1>7. CASE Preflight
  BY <1>1, <1>2, <1>7 DEF Preflight, Account, ExitTells, Progress
<1>8. CASE Attempt
  BY <1>1, <1>2, <1>8 DEF Attempt, probeVars, Account, ExitTells
<1>9. CASE Record
  <2>1. CASE outcome = "OSError"
    BY <1>1, <1>2, <1>9, <2>1 DEF Record, Account, ExitTells, Progress
  <2>2. CASE outcome # "OSError"
    <3>1. attempts' = Append(attempts, VerdictOf(outcome)) /\ VerdictOf(outcome) \in Verdicts
      BY <1>9, <2>2, VerdictType DEF Record
    <3>2. attempts' \in Seq(Verdicts) /\ Len(attempts') = Len(attempts) + 1
      BY <1>1, <3>1 DEF Account
    <3>. QED BY <1>1, <1>2, <1>9, <2>2, <3>2 DEF Record, Account, ExitTells, Progress
  <2>. QED BY <2>1, <2>2
<1>10. CASE Report
  BY <1>1, <1>2, <1>10 DEF Report, Account, ExitTells, Progress
<1>11. CASE Sleep
  BY <1>1, <1>2, <1>11 DEF Sleep, Account, ExitTells, Progress
<1>12. CASE Finalize
  <2>1. Account'
    BY <1>1, <1>2, <1>12 DEF Finalize, Account, Progress
  <2>2. ASSUME attempts # <<>>
        PROVE  Summarises(exitCode', [i \in DOMAIN attempts |-> ExitOf(attempts[i])])
    <3> DEFINE codes == [i \in DOMAIN attempts |-> ExitOf(attempts[i])]
    <3>1. Len(attempts) \in Nat \ {0} /\ DOMAIN codes = 1 .. Len(attempts)
      BY <1>1, <2>2 DEF Account
    <3>2. exitCode' = AggregateExit({codes[i] : i \in DOMAIN codes})
      BY <1>12 DEF Finalize
    <3> HIDE DEF codes
    <3>3. Summarises(exitCode', codes)
      BY <3>1, <3>2, AggregateSummarises
    <3>. QED BY <3>3 DEF codes
  <2>3. attempts' = attempts
    BY <1>12 DEF Finalize
  <2>. QED BY <2>1, <2>2, <2>3 DEF ExitTells
<1>13. CASE UNCHANGED allVars
  BY <1>1, <1>13 DEF allVars, vars, probeVars, commandVars, Account, ExitTells
<1>. QED
  BY <1>4, <1>5, <1>6, <1>7, <1>8, <1>9, <1>10, <1>11, <1>12, <1>13
     DEF Next, Step, CheckStep, ProbeRun, ProbeStep

-----------------------------------------------------------------------------
(***************************************************************************)
(* What a check says of its targets.                                       *)
(***************************************************************************)
\* What is said of target i is about the route that was asked for.
Told(o, i) ==
  /\ o.tunnel = Behind(command, command.targets[i])
  /\ IF o.tunnel THEN o.says \in ProxyErrors \cup {"open", "UsageError"}
                 ELSE o.says \notin ProxyErrors
  /\ command.udp => o.says \notin ProxyErrors \cup {"ConnectTimeout"}
                    /\ (o.tunnel => o.says = "UsageError")

AllTold(r) == \A i \in DOMAIN r : Told(r[i], i)

LEMMA ToldSplit == OutcomesTold <=> AllTold(outcomes) /\ \A i \in DOMAIN rounds : AllTold(rounds[i])
<1>1. ToSet(rounds) = {rounds[i] : i \in DOMAIN rounds}
  BY DEF ToSet
<1>. QED BY <1>1 DEF OutcomesTold, AllTold, Told

\* The outcome of a target that can be checked.
LEMMA ConcludeTold ==
  ASSUME CommandInv, Conclude
  PROVE  \E o \in Said : outcomes' = Append(outcomes, o) /\ Told(o, turn)
<1> DEFINE o == [says |-> outcome, at |-> IF outcome = "open" THEN at ELSE 0, tunnel |-> Proxied]
<1>1. turn \in 1 .. Len(command.targets) /\ command \in Command
  <2>1. Len(outcomes) \in Nat /\ Len(command.targets) \in Nat
    BY CommandAssumption DEF CommandInv, Progress, CommandType
  <2>2. Len(outcomes) < Len(command.targets)
    BY DEF CommandInv, OnRoute, Conclude
  <2>. QED BY <2>1, <2>2 DEF turn, CommandInv, Progress
<1>2. Routed(command, target) <=> Behind(command, command.targets[turn])
  BY <1>1, RouteTrue DEF target
<1>3. /\ mode = ModeOf(command, target) /\ ~Refused(command, target)
      /\ outcome \notin {"none", "OSError"}
  BY DEF CommandInv, OnRoute, Conclude, Blame, Over
<1>4. Proxied <=> Routed(command, target)
  BY <1>3 DEF Proxied, ModeOf, Refused
<1>5. Blame
  BY DEF CommandInv
<1>6. o \in Said
  <2>1. outcome \in Says
    BY <1>3, <1>5, ModeAssumption DEF Blame, Says, NetError, ProxyErrors, ModeOf
  <2>2. at \in Nat
    BY BoundAssumption DEF CommandInv, WalkInv, SocketOwned, TypeOK, Address
  <2>. QED BY <2>1, <2>2 DEF Said, Proxied
<1>7. Told(o, turn)
  <2>1. o.tunnel = Behind(command, command.targets[turn])
    BY <1>2, <1>4 DEF Proxied, Behind
  <2>2. CASE mode = "proxy"
    <3>1. ~command.udp
      BY <1>3, <2>2 DEF ModeOf
    <3>. QED BY <1>3, <1>5, <2>1, <2>2, <3>1 DEF Told, Blame, Proxied
  <2>3. CASE mode # "proxy"
    <3>1. mode = IF command.udp THEN "udp" ELSE "tcp"
      BY <1>3, <2>3 DEF ModeOf
    <3>2. outcome \notin ProxyErrors /\ (command.udp => outcome # "ConnectTimeout")
      BY <1>5, <3>1 DEF Blame, ProxyErrors
    <3>. QED BY <2>1, <2>3, <3>2 DEF Told, Proxied
  <2>. QED BY <2>2, <2>3
<1>8. outcomes' = Append(outcomes, o)
  BY DEF Conclude
<1>. QED BY <1>6, <1>7, <1>8

\* The outcome of one that cannot.
LEMMA RefuseTold ==
  ASSUME CommandInv, RefuseTarget
  PROVE  \E o \in Said : outcomes' = Append(outcomes, o) /\ Told(o, turn)
<1> DEFINE o == [says |-> "UsageError", at |-> 0, tunnel |-> Routed(command, target)]
<1>1. turn \in 1 .. Len(command.targets) /\ command \in Command
  <2>1. Len(outcomes) \in Nat /\ Len(command.targets) \in Nat
    BY CommandAssumption DEF CommandInv, Progress, CommandType
  <2>. QED BY <2>1 DEF turn, CommandInv, Progress, RefuseTarget
<1>2. Routed(command, target) = Behind(command, command.targets[turn])
  BY <1>1, RouteTrue DEF target, Routed, Behind
<1>3. o \in Said
  BY DEF Said, Says, Routed
<1>4. Told(o, turn)
  BY <1>2 DEF Told, ProxyErrors
<1>5. outcomes' = Append(outcomes, o)
  BY DEF RefuseTarget
<1>. QED BY <1>3, <1>4, <1>5

\* One more outcome of a round.
LEMMA OutcomeStep ==
  ASSUME CommandInv, NEW o \in Said, Told(o, turn), outcomes' = Append(outcomes, o),
         Len(outcomes) < Len(command.targets), UNCHANGED <<command, rounds, shown>>,
         phase' = "target"
  PROVE  /\ outcomes' \in Seq(Said) /\ Len(outcomes') <= Len(command.targets)
         /\ OnRoute' /\ Complete' /\ OutcomesTold' /\ RoundsTold'
<1>1. outcomes \in Seq(Said) /\ Len(command.targets) \in Nat
  BY CommandAssumption DEF CommandInv, Progress, CommandType
<1>2. /\ outcomes' \in Seq(Said) /\ Len(outcomes) \in Nat /\ Len(outcomes') = Len(outcomes) + 1
      /\ DOMAIN outcomes = 1 .. Len(outcomes) /\ DOMAIN outcomes' = 1 .. Len(outcomes) + 1
      /\ \A i \in 1 .. Len(outcomes) : outcomes'[i] = outcomes[i]
      /\ outcomes'[Len(outcomes) + 1] = o
  BY <1>1
<1>3. AllTold(outcomes) /\ \A i \in DOMAIN rounds : AllTold(rounds[i])
  BY ToldSplit DEF CommandInv
<1>4. \A i \in DOMAIN outcomes' : Told(outcomes'[i], i)
  BY <1>2, <1>3 DEF AllTold, turn
<1>5. OutcomesTold'
  <2>1. ASSUME NEW r \in ToSet(rounds) \cup {outcomes'}
        PROVE  \A i \in DOMAIN r : Told(r[i], i)
    BY <1>3, <1>4 DEF AllTold, ToSet
  <2>. QED BY <2>1 DEF OutcomesTold, Told
<1>6. OnRoute' /\ Complete'
  BY DEF CommandInv, OnRoute, Complete
<1>7. RoundsTold'
  BY DEF CommandInv, RoundsTold
<1>8. Len(outcomes') <= Len(command.targets)
  BY <1>1, <1>2
<1>. QED BY <1>2, <1>5, <1>6, <1>7, <1>8

\* The exit code e of the check c whose complete rounds are r.
ExitRight(c, r, e) ==
  IF r # <<>>
    THEN Summarises(e, [i \in DOMAIN Last(r) |-> CheckExit(Last(r)[i].says)])
    ELSE IF e = "OK" THEN c.watch ELSE Rejects(c)

LEMMA RoundsSplit ==
  RoundsTold <=>
    /\ \A i \in DOMAIN rounds : Len(rounds[i]) = Len(command.targets)
    /\ phase = "exited" /\ command.name = "check" /\ exitCode \notin {"killed", "ERROR"} =>
         ExitRight(command, rounds, exitCode)
    /\ shown = "no change" =>
         \A i \in DOMAIN command.targets :
           rounds[1][i].says = rounds[2][i].says /\ rounds[1][i].at = rounds[2][i].at
<1>1. (\A r \in ToSet(rounds) : Len(r) = Len(command.targets))
        <=> \A i \in DOMAIN rounds : Len(rounds[i]) = Len(command.targets)
  BY DEF ToSet
<1>. QED BY <1>1 DEF RoundsTold, ExitRight

LEMMA RoundsSplitNext ==
  (/\ \A i \in DOMAIN rounds : Len(rounds[i]) = Len(command.targets)
   /\ phase = "exited" /\ command.name = "check" /\ exitCode \notin {"killed", "ERROR"} =>
        ExitRight(command, rounds, exitCode)
   /\ shown = "no change" =>
        \A i \in DOMAIN command.targets :
          rounds[1][i].says = rounds[2][i].says /\ rounds[1][i].at = rounds[2][i].at)'
    => RoundsTold'
BY RoundsSplit, PTL

\* A round is summed up by its exit code.
LEMMA RoundSummed ==
  ASSUME NEW r \in Seq(Said), r # <<>>
  PROVE  Summarises(RoundCode(r), [i \in DOMAIN r |-> CheckExit(r[i].says)])
<1> DEFINE codes == [i \in DOMAIN r |-> CheckExit(r[i].says)]
<1>1. Len(r) \in Nat \ {0} /\ DOMAIN codes = 1 .. Len(r)
  OBVIOUS
<1>2. RoundCode(r) = AggregateExit({codes[i] : i \in DOMAIN codes})
  BY DEF RoundCode
<1> HIDE DEF codes
<1>3. Summarises(RoundCode(r), codes)
  BY <1>1, <1>2, AggregateSummarises
<1>. QED BY <1>3 DEF codes

\* A step that ends no round.
LEMMA SameRounds ==
  ASSUME CommandInv, UNCHANGED <<command, rounds, shown>>, outcomes' \in {outcomes, <<>>},
         \/ phase' # "exited" \/ command.name # "check" \/ exitCode' \in {"killed", "ERROR"}
         \/ ExitRight(command, rounds, exitCode')
  PROVE  /\ outcomes' \in Seq(Said) /\ Len(outcomes') <= Len(command.targets)
         /\ Complete' /\ OutcomesTold' /\ RoundsTold'
<1>1. outcomes \in Seq(Said) /\ Len(command.targets) \in Nat
      /\ Len(outcomes) <= Len(command.targets)
  BY CommandAssumption DEF CommandInv, Progress, CommandType
<1>2. Complete /\ Complete'
  BY DEF CommandInv, Complete
<1>3. OutcomesTold'
  <2>1. AllTold(outcomes) /\ \A i \in DOMAIN rounds : AllTold(rounds[i])
    BY ToldSplit DEF CommandInv
  <2>2. AllTold(<<>>)
    BY DEF AllTold
  <2>3. ASSUME NEW r \in ToSet(rounds) \cup {outcomes'}
        PROVE  \A i \in DOMAIN r : Told(r[i], i)
    BY <2>1, <2>2 DEF AllTold, ToSet
  <2>. QED BY <2>3 DEF OutcomesTold, Told
<1>4. RoundsTold'
  <2>1. phase' = "exited" /\ command'.name = "check" /\ exitCode' \notin {"killed", "ERROR"} =>
          ExitRight(command', rounds', exitCode')
    OBVIOUS
  <2>. QED BY <1>2, <2>1, RoundsSplitNext DEF Complete
<1>5. outcomes' \in Seq(Said) /\ Len(outcomes') <= Len(command.targets)
  <2>1. CASE outcomes' = outcomes
    BY <1>1, <2>1
  <2>2. CASE outcomes' = <<>>
    <3>1. <<>> \in Seq(Said) /\ Len(<<>>) = 0
      OBVIOUS
    <3>. QED BY <1>1, <2>2, <3>1
  <2>. QED BY <2>1, <2>2
<1>. QED BY <1>2, <1>3, <1>4, <1>5

LEMMA PairConcat ==
  ASSUME NEW a, NEW b
  PROVE  <<a>> \o <<b>> = <<a, b>>
<1> DEFINE S == {a, b}
<1>1. <<a>> \in Seq(S) /\ <<b>> \in Seq(S) /\ <<a, b>> \in Seq(S)
  OBVIOUS
<1>2. Len(<<a>>) = 1 /\ Len(<<b>>) = 1 /\ Len(<<a, b>>) = 2
  OBVIOUS
<1>3. <<a>> \o <<b>> \in Seq(S) /\ Len(<<a>> \o <<b>>) = 2
  BY <1>1, <1>2, ConcatProperties
<1>4. \A i \in 1 .. 2 : (<<a>> \o <<b>>)[i] = <<a, b>>[i]
  BY <1>1, <1>2, ConcatProperties
<1> HIDE DEF S
<1>. QED BY <1>1, <1>2, <1>3, <1>4, SeqEqual

\* The end of a round: it is complete, and so is the one it is compared with.
LEMMA EndRoundStep ==
  ASSUME CommandInv, EndRound
  PROVE  /\ outcomes' \in Seq(Said) /\ Len(outcomes') <= Len(command.targets)
         /\ OnRoute' /\ Complete' /\ OutcomesTold' /\ RoundsTold'
<1>1. outcomes \in Seq(Said) /\ command \in Command /\ ~Rejects(command)
  BY DEF CommandInv, Progress, CheckPhases, EndRound
<1>2. outcomes' = outcomes /\ command' = command /\ phase' \in {"sleeping", "exited"}
  BY DEF EndRound
<1>3. Len(outcomes) \in Nat /\ DOMAIN outcomes = 1 .. Len(outcomes)
  BY <1>1
<1>4. /\ Len(command.targets) \in Nat
      /\ DOMAIN command.targets = 1 .. Len(command.targets)
      /\ command.targets # <<>>
  <2>1. command.targets \in Seq(Target)
    BY <1>1, CommandAssumption DEF CommandType
  <2>2. command.targets # <<>>
    BY <1>1, CommandAssumption DEF Rejects
  <2>. QED BY <2>1, <2>2
<1>5. Len(outcomes) = Len(command.targets) /\ DOMAIN command.targets = DOMAIN outcomes
  <2>1. Len(outcomes) <= Len(command.targets)
    BY DEF CommandInv, Progress
  <2>2. Len(outcomes) + 1 > Len(command.targets)
    BY DEF EndRound, turn
  <2>3. Len(outcomes) = Len(command.targets)
    BY <1>3, <1>4, <2>1, <2>2
  <2>. QED BY <1>3, <1>4, <2>3
<1>6. outcomes # <<>>
  <2>1. Len(command.targets) # 0
    <3>1. command.targets \in Seq(Target)
      BY <1>1, CommandAssumption DEF CommandType
    <3>. QED BY <1>4, <3>1
  <2>. QED BY <1>5, <2>1
<1>7. rounds' = IF rounds = <<>> THEN <<outcomes>> ELSE <<Last(rounds), outcomes>>
  <2>1. CASE rounds = <<>>
    BY <2>1 DEF EndRound
  <2>2. CASE rounds # <<>>
    <3>1. rounds' = <<Last(rounds)>> \o <<outcomes>>
      BY <2>2 DEF EndRound
    <3> DEFINE former == Last(rounds)
    <3> HIDE DEF former
    <3>2. <<former>> \o <<outcomes>> = <<former, outcomes>>
      BY PairConcat
    <3>. QED BY <2>2, <3>1, <3>2 DEF former
  <2>. QED BY <2>1, <2>2
<1>8. ASSUME rounds # <<>>
      PROVE  \E i \in DOMAIN rounds : Last(rounds) = rounds[i]
  <2>1. rounds \in Seq(Seq(Said))
    BY DEF CommandInv, Complete
  <2>2. Len(rounds) \in DOMAIN rounds
    BY <1>8, <2>1
  <2>. QED BY <2>2 DEF Last
<1>9. ASSUME rounds # <<>>
      PROVE  /\ Last(rounds) \in Seq(Said) /\ Len(Last(rounds)) = Len(command.targets)
             /\ AllTold(Last(rounds))
  <2>1. PICK i \in DOMAIN rounds : Last(rounds) = rounds[i]
    BY <1>8, <1>9
  <2>2. rounds[i] \in Seq(Said) /\ Len(rounds[i]) = Len(command.targets)
    <3>1. rounds \in Seq(Seq(Said)) /\ Len(rounds[i]) = Len(command.targets)
      BY <2>1 DEF CommandInv, Complete
    <3>. QED BY <2>1, <3>1
  <2>3. AllTold(rounds[i])
    BY <2>1, ToldSplit DEF CommandInv
  <2>. QED BY <2>1, <2>2, <2>3
<1>10. /\ rounds' \in Seq(Seq(Said)) /\ rounds' # <<>> /\ Len(rounds') <= 2
       /\ Last(rounds') = outcomes
       /\ rounds # <<>> => Len(rounds') = 2 /\ rounds'[1] = Last(rounds) /\ rounds'[2] = outcomes
       /\ \A i \in DOMAIN rounds' :
            rounds'[i] = outcomes \/ (rounds # <<>> /\ rounds'[i] = Last(rounds))
  <2>1. CASE rounds = <<>>
    <3> DEFINE single == <<outcomes>>
    <3>1. rounds' = single
      BY <1>7, <2>1
    <3>2. /\ single \in Seq(Seq(Said)) /\ Len(single) = 1 /\ single # <<>>
          /\ Last(single) = outcomes
          /\ \A i \in DOMAIN single : single[i] = outcomes
      BY <1>1 DEF Last
    <3> HIDE DEF single
    <3>3. Last(rounds') = outcomes
      BY <3>1, <3>2
    <3>4. rounds' \in Seq(Seq(Said)) /\ Len(rounds') <= 2
      BY <3>1, <3>2
    <3>5. rounds' # <<>>
      BY <3>1, <3>2
    <3>6. \A i \in DOMAIN rounds' : rounds'[i] = outcomes
      BY <3>1, <3>2
    <3>. QED BY <2>1, <3>3, <3>4, <3>5, <3>6
  <2>2. CASE rounds # <<>>
    <3> DEFINE former == Last(rounds)
               pair == <<former, outcomes>>
    <3>1. rounds' = pair /\ former \in Seq(Said)
      BY <1>7, <1>9, <2>2
    <3> HIDE DEF former
    <3>2. /\ pair \in Seq(Seq(Said)) /\ Len(pair) = 2 /\ pair # <<>>
          /\ pair[1] = former /\ pair[2] = outcomes
          /\ Last(pair) = outcomes
          /\ \A i \in DOMAIN pair : pair[i] = outcomes \/ pair[i] = former
      BY <1>1, <3>1 DEF Last
    <3> HIDE DEF pair
    <3>3. rounds'[1] = Last(rounds)
      BY <3>1, <3>2 DEF former
    <3>4. \A i \in DOMAIN rounds' : rounds'[i] = outcomes \/ rounds'[i] = Last(rounds)
      BY <3>1, <3>2 DEF former
    <3>5. Last(rounds') = outcomes
      BY <3>1, <3>2
    <3>6. rounds' \in Seq(Seq(Said)) /\ Len(rounds') = 2
      BY <3>1, <3>2
    <3>7. rounds' # <<>>
      BY <3>1, <3>2
    <3>8. rounds'[2] = outcomes
      BY <3>1, <3>2
    <3>. QED BY <2>2, <3>3, <3>4, <3>5, <3>6, <3>7, <3>8
  <2>. QED BY <2>1, <2>2
<1>11. ASSUME shown' = "no change"
       PROVE  /\ rounds # <<>>
              /\ \A i \in DOMAIN command.targets :
                   Last(rounds)[i].says = outcomes[i].says /\ Last(rounds)[i].at = outcomes[i].at
  <2>1. rounds # <<>> /\ Signature(outcomes) = Signature(Last(rounds))
    <3>1. CASE command.watch
      BY <1>11, <3>1 DEF EndRound
    <3>2. CASE ~command.watch
      BY <1>11, <3>2 DEF EndRound, CommandInv, Complete
    <3>. QED BY <3>1, <3>2
  <2>2. \A i \in DOMAIN outcomes : Signature(outcomes)[i] = Signature(Last(rounds))[i]
    BY <2>1
  <2>3. DOMAIN Last(rounds) = DOMAIN outcomes
    BY <2>1 DEF Signature
  <2>4. \A i \in DOMAIN outcomes :
          <<outcomes[i].says, outcomes[i].at, outcomes[i].tunnel>>
            = <<Last(rounds)[i].says, Last(rounds)[i].at, Last(rounds)[i].tunnel>>
    BY <2>2, <2>3 DEF Signature
  <2>. QED BY <1>5, <2>1, <2>4
<1>12. Complete'
  <2>1. \A i \in DOMAIN rounds' : Len(rounds'[i]) = Len(command.targets)
    BY <1>5, <1>9, <1>10
  <2>2. ~command.watch => shown' = "none"
    BY DEF EndRound, CommandInv, Complete
  <2>3. shown' = "no change" =>
          /\ Len(rounds') = 2
          /\ \A i \in DOMAIN command.targets :
               rounds'[1][i].says = rounds'[2][i].says /\ rounds'[1][i].at = rounds'[2][i].at
    BY <1>10, <1>11
  <2>. QED BY <1>2, <1>10, <2>1, <2>2, <2>3 DEF Complete
<1>13. OutcomesTold'
  <2>1. AllTold(outcomes)
    BY ToldSplit DEF CommandInv
  <2>2. ASSUME NEW r \in ToSet(rounds') \cup {outcomes}
        PROVE  AllTold(r)
    BY <1>9, <1>10, <2>1 DEF ToSet
  <2>. QED BY <1>2, <2>2 DEF OutcomesTold, AllTold, Told
<1>14. phase' = "exited" => ExitRight(command, rounds', exitCode')
  <2>1. phase' = "exited" => exitCode' = RoundCode(outcomes)
    BY DEF EndRound
  <2>2. Summarises(RoundCode(outcomes), [i \in DOMAIN outcomes |-> CheckExit(outcomes[i].says)])
    BY <1>1, <1>6, RoundSummed
  <2>. QED BY <1>10, <2>1, <2>2 DEF ExitRight
<1>15. RoundsTold'
  <2>1. phase' = "exited" => ExitRight(command', rounds', exitCode')
    BY <1>2, <1>14
  <2>. QED BY <1>12, <2>1, RoundsSplitNext DEF Complete
<1>16. OnRoute'
  BY <1>2 DEF OnRoute
<1>. QED BY <1>1, <1>2, <1>5, <1>4, <1>12, <1>13, <1>15, <1>16

\* The last complete round has an outcome for every target.
LEMMA LastComplete ==
  ASSUME CommandInv, rounds # <<>>, ~Rejects(command)
  PROVE  Last(rounds) \in Seq(Said) /\ Last(rounds) # <<>>
<1>1. rounds \in Seq(Seq(Said)) /\ command \in Command
  BY DEF CommandInv, Complete, Progress
<1>2. Len(rounds) \in DOMAIN rounds /\ rounds[Len(rounds)] \in Seq(Said)
  BY <1>1
<1>3. Len(Last(rounds)) = Len(command.targets)
  BY <1>2 DEF CommandInv, Complete, Last
<1>4. command.targets # <<>> /\ command.targets \in Seq(Target)
  BY <1>1, CommandAssumption DEF Rejects, CommandType
<1>5. Len(command.targets) # 0
  BY <1>4
<1>. QED BY <1>2, <1>3, <1>5 DEF Last

\* What the command has said so far stays right.
LEMMA CheckPart ==
  ASSUME CommandInv, [Next]_allVars
  PROVE  /\ outcomes' \in Seq(Said) /\ Len(outcomes') <= Len(command.targets)
         /\ OnRoute' /\ Complete' /\ OutcomesTold' /\ RoundsTold'
<1> USE DEF ProbePhases, CheckPhases
<1>1. Progress /\ command' = command
  BY ProgressStep DEF CommandInv
<1>2. CASE RejectOptions
  <2>1. /\ rounds = <<>> /\ Rejects(command) /\ phase' = "exited" /\ exitCode' = "USAGE"
        /\ UNCHANGED commandVars
    BY <1>1, <1>2 DEF RejectOptions, Progress
  <2>2. ExitRight(command, rounds, exitCode')
    BY <2>1 DEF ExitRight
  <2>. QED BY <2>1, <2>2, SameRounds DEF commandVars, OnRoute
<1>3. CASE Probe \/ ProbeRun \/ (InterruptProbe /\ UNCHANGED commandVars)
  <2>1. command.name = "probe" /\ UNCHANGED commandVars
    BY <1>1, <1>3 DEF Probe, ProbeRun, ProbeStep, Preflight, Attempt, Record, Report, Sleep,
       Finalize, InterruptProbe, Progress
  <2>2. phase' # "checking"
    BY <1>1, <2>1, ProgressStep
  <2>. QED BY <2>1, <2>2, SameRounds DEF commandVars, OnRoute
<1>4. CASE Check \/ Wake
  BY <1>1, <1>4, SameRounds DEF Check, Wake, BeginRound, OnRoute
<1>5. CASE RefuseTarget
  <2>1. Len(outcomes) < Len(command.targets)
    <3>1. Len(outcomes) \in Nat /\ Len(command.targets) \in Nat
      BY <1>1, CommandAssumption DEF Progress, CommandType
    <3>. QED BY <1>5, <3>1 DEF RefuseTarget, turn
  <2>. QED BY <1>5, <2>1, RefuseTold, OutcomeStep DEF RefuseTarget
<1>6. CASE Conclude
  <2>1. Len(outcomes) < Len(command.targets)
    BY <1>6 DEF CommandInv, OnRoute, Conclude
  <2>. QED BY <1>6, <2>1, ConcludeTold, OutcomeStep DEF Conclude
<1>7. CASE TakeTarget
  <2>1. Len(outcomes) < Len(command.targets)
    <3>1. Len(outcomes) \in Nat /\ Len(command.targets) \in Nat
      BY <1>1, CommandAssumption DEF Progress, CommandType
    <3>. QED BY <1>7, <3>1 DEF TakeTarget, turn
  <2>2. UNCHANGED commandVars /\ phase' = "checking" /\ target' = target
    BY <1>7 DEF TakeTarget, commandVars, target, turn
  <2>3. mode' = ModeOf(command, target) /\ ~Refused(command, target)
    BY <1>7 DEF TakeTarget, AgainAs
  <2>4. OnRoute'
    BY <1>1, <2>1, <2>2, <2>3 DEF OnRoute, commandVars
  <2>. QED BY <2>2, <2>4, SameRounds DEF commandVars
<1>8. CASE CheckAttempt
  <2>1. UNCHANGED commandVars /\ phase = "checking" /\ phase' = "checking" /\ target' = target
    BY <1>8 DEF CheckAttempt, probeVars, commandVars, target, turn
  <2>2. mode' = mode
    BY <1>8, AskingStep DEF CheckAttempt
  <2>3. OnRoute'
    BY <1>1, <2>1, <2>2 DEF CommandInv, OnRoute, commandVars
  <2>. QED BY <2>1, <2>3, SameRounds DEF commandVars
<1>9. CASE ConcludeRaises
  BY <1>1, <1>9, SameRounds DEF ConcludeRaises, commandVars, OnRoute
<1>10. CASE EndRound
  BY <1>10, EndRoundStep
<1>11. CASE /\ phase \in {"target", "checking", "sleeping"}
            /\ phase' = "exited"
            /\ exitCode' = IF ~command.watch THEN "killed"
                           ELSE IF rounds = <<>> THEN "OK" ELSE RoundCode(Last(rounds))
            /\ UNCHANGED <<attemptVars, probeOnly, commandVars>>
  <2>1. ~Rejects(command)
    BY <1>1, <1>11 DEF Progress
  <2>2. exitCode' = "killed" \/ ExitRight(command, rounds, exitCode')
    <3>1. CASE rounds = <<>>
      BY <1>11, <3>1 DEF ExitRight
    <3>2. CASE rounds # <<>>
      BY <1>11, <2>1, <3>2, LastComplete, RoundSummed DEF ExitRight
    <3>. QED BY <3>1, <3>2
  <2>. QED BY <1>11, <2>2, SameRounds DEF commandVars, OnRoute
<1>12. CASE UNCHANGED allVars
  <2>1. UNCHANGED <<phase, exitCode, mode>> /\ UNCHANGED commandVars
    BY <1>12 DEF allVars, vars, attemptVars, probeVars
  <2>2. OnRoute'
    BY <2>1 DEF CommandInv, OnRoute, commandVars, target, turn
  <2>3. RoundsTold
    BY DEF CommandInv
  <2>. QED BY <2>1, <2>2, <2>3, RoundsSplit, SameRounds DEF commandVars
<1>. QED
  BY <1>2, <1>3, <1>4, <1>5, <1>6, <1>7, <1>8, <1>9, <1>10, <1>11, <1>12
     DEF Next, Step, CheckStep, Interrupt

-----------------------------------------------------------------------------
(***************************************************************************)
(* The theorems.                                                           *)
(***************************************************************************)
LEMMA CommandInvInit == CommandInit => CommandInv
<1> SUFFICES ASSUME CommandInit PROVE CommandInv
  OBVIOUS
<1> USE DEF CommandInit, ProbeInit
<1>1. WalkInv /\ Blame
  BY WalkFresh DEF Init, Fresh, Blame
<1>2. outcomes = <<>> /\ rounds = <<>> /\ attempts = <<>> /\ phase = "given" /\ shown = "none"
  OBVIOUS
<1>3. Progress
  <2>1. Len(command.targets) \in Nat /\ outcomes \in Seq(Said) /\ Len(outcomes) = 0
    BY <1>2, CommandAssumption DEF CommandType
  <2>. QED BY <1>2, <2>1 DEF Progress, ProbePhases, CheckPhases
<1>4. Account /\ ExitTells
  BY <1>2, CountAssumption DEF Account, ExitTells
<1>5. Complete
  BY <1>2 DEF Complete
<1>6. OutcomesTold /\ RoundsTold
  <2>1. ToSet(rounds) = {} /\ DOMAIN outcomes = {}
    BY <1>2 DEF ToSet
  <2>. QED BY <1>2, <2>1 DEF OutcomesTold, RoundsTold
<1>. QED BY <1>1, <1>2, <1>3, <1>4, <1>5, <1>6 DEF CommandInv, OnRoute

LEMMA CommandInvStep == CommandInv /\ [Next]_allVars => CommandInv'
<1> SUFFICES ASSUME CommandInv, [Next]_allVars PROVE CommandInv'
  OBVIOUS
<1>1. /\ outcomes' \in Seq(Said) /\ Len(outcomes') <= Len(command.targets)
      /\ OnRoute' /\ Complete' /\ OutcomesTold' /\ RoundsTold'
  BY CheckPart
<1>2. Progress'
  <2>1. command \in Command
    BY DEF CommandInv, Progress
  <2>2. phase' = "given" => outcomes' = <<>> /\ rounds' = <<>>
    BY ProgressStep DEF CommandInv, Progress, allVars, vars, probeVars, commandVars
  <2>3. command' = command
    BY ProgressStep
  <2>4. phase' \in CheckPhases => ~Rejects(command')
    BY <2>3, ProgressStep
  <2>. QED BY <1>1, <2>1, <2>2, <2>3, <2>4, ProgressStep DEF Progress
<1>. QED BY <1>1, <1>2, RunStep, AttemptInvStep DEF CommandInv

\* Every attempt of `net check` and `net probe`, on whatever route, closes its
\* sockets.
THEOREM CommandSockets == CommandSpec => []SocketOwned
<1>1. CommandInv => SocketOwned
  BY DEF CommandInv, WalkInv
<1>. QED BY <1>1, CommandInvInit, CommandInvStep, PTL DEF CommandSpec

\* Every attempt of `net check` and `net probe` reports what the network said.
THEOREM CommandOutcomes == CommandSpec => []OutcomeTrue
<1>1. CommandInv => OutcomeTrue
  BY WalkTold DEF CommandInv
<1>. QED BY <1>1, CommandInvInit, CommandInvStep, PTL DEF CommandSpec

\* A probe run reports the attempts it made; every target that is checked has an
\* outcome that is about the route asked for; the exit code sums up the last
\* complete round and "no change" compares two complete rounds.
THEOREM CommandReports == CommandSpec => []CommandTold
<1>1. CommandInv => CommandTold
  <2> SUFFICES ASSUME CommandInv PROVE RunAccounts
    BY DEF CommandInv, CommandTold, RunReported
  <2>1. Account /\ Progress /\ Len(attempts) \in Nat
    BY DEF CommandInv, Account
  <2>2. Len(attempts) <= count /\ streamed <= Len(attempts) /\ Len(attempts) <= streamed + 1
    BY <2>1 DEF Account, Progress, ProbePhases, CheckPhases
  <2>3. phase = "exited" /\ exitCode \notin {"ERROR", "none"} /\ attempts # <<>> /\ ~interrupted
          => Len(attempts) = count /\ streamed = count
    BY <2>1 DEF Account
  <2>. QED BY <2>2, <2>3 DEF RunAccounts
<1>. QED BY <1>1, CommandInvInit, CommandInvStep, PTL DEF CommandSpec

-----------------------------------------------------------------------------
(***************************************************************************)
(* `net listen` (module Listener), for any limits and any number of peers: *)
(* the sockets of a session, its counts and the reason in its summary.     *)
(***************************************************************************)

\* Phases before the session has begun to end.
Running == {"bind", "banner", "poll", "select", "receive", "yielded", "resume"}

\* Nothing has named a reason, or failed, while the session runs.
Quiet == stage \in Running => stopReason = "none" /\ ~raised /\ ~ctrlC

-----------------------------------------------------------------------------
(***************************************************************************)
(* Types.                                                                  *)
(***************************************************************************)
\* A limit is a positive number, or none.
LEMMA LimitType ==
  ASSUME ListenerTypeOK, maxEvents # NoLimit
  PROVE  maxEvents \in Nat /\ maxEvents > 0
BY LimitAssumption DEF ListenerTypeOK

\* What is told is an exit code, or what a library call did.
LEMMA ToldType ==
  ASSUME ListenerTypeOK
  PROVE  \A reason : ToldCaller(reason) \in {"raised", "aborted", "timeout", "ok"}
<1>. TAKE reason
<1>. QED BY DEF ToldCaller, ListenerTypeOK

LEMMA TypeInit == ListenerInit => ListenerTypeOK
<1> SUFFICES ASSUME ListenerInit
             PROVE  ListenerTypeOK
  OBVIOUS
<1>1. todo \in Seq(Family) /\ bindErrors \in Seq(BindError)
  BY DEF ListenerInit, Family
<1>2. backlog \in [Family -> Nat] /\ sockets \subseteq Family /\ ready \subseteq Family
  BY DEF ListenerInit
<1>3. expired \in BOOLEAN /\ raised \in BOOLEAN /\ ctrlC \in BOOLEAN
  BY Zenon DEF ListenerInit
<1>. QED BY <1>1, <1>2, <1>3, ArrivalAssumption DEF ListenerInit, ListenerTypeOK


LEMMA TypeStep ==
  ASSUME ListenerTypeOK, [ListenerNext]_listenerVars
  PROVE  ListenerTypeOK'
<1> USE DEF config, binding, peers, counts, ending
<1>1. ASSUME Bind
      PROVE  ListenerTypeOK'
  <2>1. Head(todo) \in Family /\ Tail(todo) \in Seq(Family) /\ <<>> \in Seq(Family)
    BY <1>1 DEF Bind, ListenerTypeOK
  <2>2. \A e \in BindError : Append(bindErrors, e) \in Seq(BindError)
    BY DEF ListenerTypeOK
  <2>3. todo' \in Seq(Family)
    BY <1>1, <2>1 DEF Bind
  <2>4. bindErrors' \in Seq(BindError)
    BY <1>1, <2>2 DEF Bind, ListenerTypeOK
  <2>5. sockets' \subseteq Family
    BY <1>1, <2>1 DEF Bind, ListenerTypeOK
  <2>. QED BY <1>1, <2>3, <2>4, <2>5 DEF Bind, ListenerTypeOK
<1>2. ASSUME Enter
      PROVE  ListenerTypeOK'
  <2>1. BindFailure \in BindReport
    BY DEF BindFailure, BindReport
  <2>. QED BY <1>2, <2>1 DEF Enter, ListenerTypeOK, SessionReport
<1>3. ASSUME Banner
      PROVE  ListenerTypeOK'
  BY <1>3 DEF Banner, ListenerTypeOK
<1>4. ASSUME Poll
      PROVE  ListenerTypeOK'
  BY <1>4 DEF Poll, FinalizeSession, ListenerTypeOK, Reason
<1>5. ASSUME Select
      PROVE  ListenerTypeOK'
  BY <1>5 DEF Select, ListenerTypeOK
<1>6. ASSUME NEW f \in Family, Take(f)
      PROVE  backlog' \in [Family -> Nat] /\ arrivals' = arrivals
  BY <1>6 DEF Take, ListenerTypeOK
<1>7. ASSUME NEW f \in Family, Receive(f)
      PROVE  ListenerTypeOK'
  <2>1. backlog' \in [Family -> Nat] /\ arrivals' = arrivals
    BY <1>6, <1>7 DEF Receive, ListenerTypeOK
  <2>2. received' \in Nat /\ late' \in Nat
    BY <1>7 DEF Receive, Count, ListenerTypeOK
  <2>3. stage' \in {"yielded", "receive"}
    BY <1>7 DEF Receive
  <2>. QED BY <1>7, <2>1, <2>2, <2>3 DEF Receive, ListenerTypeOK
<1>8. ASSUME RoundEnds
      PROVE  ListenerTypeOK'
  BY <1>8 DEF RoundEnds, ListenerTypeOK
<1>9. ASSUME Consume
      PROVE  ListenerTypeOK'
  BY <1>9 DEF Consume, ListenerTypeOK
<1>10. ASSUME Resume
       PROVE  ListenerTypeOK'
  BY <1>10 DEF Resume, FinalizeSession, ListenerTypeOK, Reason
<1>11. ASSUME Break
       PROVE  ListenerTypeOK'
  BY <1>11 DEF Break, ListenerTypeOK
<1>12. ASSUME ConsumerFails
       PROVE  ListenerTypeOK'
  BY <1>12 DEF ConsumerFails, ListenerTypeOK
<1>13. ASSUME Leave
       PROVE  ListenerTypeOK'
  <2>1. stopReason' \in Reason
    BY <1>13 DEF Leave, FinalizeSession, ListenerTypeOK, Reason
  <2>2. report' \in SessionReport
    BY <1>13, ToldType DEF Leave, SessionReport
  <2>. QED BY <1>13, <2>1, <2>2 DEF Leave, ListenerTypeOK
<1>14. ASSUME InterruptEvents
       PROVE  ListenerTypeOK'
  <2>1. backlog' \in [Family -> Nat] /\ arrivals' = arrivals
    BY <1>6, <1>14 DEF InterruptEvents, ListenerTypeOK
  <2>2. received' \in Nat /\ late' \in Nat /\ delivered' \in Nat
    BY <1>14 DEF InterruptEvents, Count, ListenerTypeOK
  <2>3. stopReason' \in Reason
    BY <1>14 DEF InterruptEvents, FinalizeSession, ListenerTypeOK, Reason
  <2>4. raised' \in BOOLEAN
    BY <1>14, Zenon DEF InterruptEvents
  <2>. QED BY <1>14, <2>1, <2>2, <2>3, <2>4 DEF InterruptEvents, ListenerTypeOK
<1>15. ASSUME InterruptConsumer
       PROVE  ListenerTypeOK'
  <2>1. raised' \in BOOLEAN
    BY <1>15, Zenon DEF InterruptConsumer
  <2>. QED BY <1>15, <2>1 DEF InterruptConsumer, ListenerTypeOK
<1>16. ASSUME InterruptBanner
       PROVE  ListenerTypeOK'
  BY <1>16 DEF InterruptBanner, ListenerTypeOK
<1>17. ASSUME InterruptBind
       PROVE  ListenerTypeOK'
  BY <1>17 DEF InterruptBind, ListenerTypeOK, SessionReport
<1>18. ASSUME Expire
       PROVE  ListenerTypeOK'
  BY <1>18 DEF Expire, ListenerTypeOK
<1>19. ASSUME NEW f \in Family, Arrive(f)
       PROVE  ListenerTypeOK'
  BY <1>19, ArrivalAssumption DEF Arrive, ListenerTypeOK
<1>20. ASSUME NEW f \in Family, Vanish(f)
       PROVE  ListenerTypeOK'
  BY <1>6, <1>20 DEF Vanish, Take, ListenerTypeOK
<1>21. ASSUME UNCHANGED listenerVars
       PROVE  ListenerTypeOK'
  BY <1>21 DEF listenerVars, ListenerTypeOK
<1>. QED
  BY <1>1, <1>2, <1>3, <1>4, <1>5, <1>7, <1>8, <1>9, <1>10, <1>11, <1>12, <1>13, <1>14,
     <1>15, <1>16, <1>17, <1>18, <1>19, <1>20, <1>21 DEF ListenerNext, ListenerStep, CtrlC
-----------------------------------------------------------------------------
(***************************************************************************)
(* The reason in the summary.                                              *)
(***************************************************************************)
\* A reason that was given stands: of all who finalize only the first is heard.
LEMMA ReasonKept ==
  ASSUME [ListenerNext]_listenerVars, stopReason # "none"
  PROVE  stopReason' = stopReason
<1> USE DEF config, binding, peers, counts, ending
<1>1. ASSUME Poll
      PROVE  stopReason' = stopReason
  BY <1>1 DEF Poll, FinalizeSession
<1>2. ASSUME Resume
      PROVE  stopReason' = stopReason
  BY <1>2 DEF Resume, FinalizeSession
<1>3. ASSUME Leave
      PROVE  stopReason' = stopReason
  BY <1>3 DEF Leave, FinalizeSession
<1>4. ASSUME InterruptEvents
      PROVE  stopReason' = stopReason
  BY <1>4 DEF InterruptEvents, FinalizeSession, Take, Count
<1>5. ASSUME Bind \/ Enter \/ Banner \/ Select
             \/ (\E f \in Family : Receive(f)) \/ RoundEnds \/ Consume
             \/ Break \/ ConsumerFails \/ InterruptConsumer
             \/ InterruptBanner \/ InterruptBind \/ Expire
             \/ (\E f \in Family : Arrive(f))
             \/ (\E f \in Family : Vanish(f)) \/ UNCHANGED listenerVars
      PROVE  stopReason' = stopReason
  BY <1>5 DEF Bind, Enter, Banner, Select, Receive, Take, Count, RoundEnds,
     Consume, Break, ConsumerFails, InterruptConsumer, InterruptBanner,
     InterruptBind, Expire, Serving, Arrive, Vanish, listenerVars
<1>. QED BY <1>1, <1>2, <1>3, <1>4, <1>5 DEF ListenerNext, ListenerStep, CtrlC

\* A stop reason is never revised.
THEOREM ReasonNeverRevised == ListenerSpec => ReasonStands
<1>1. [ListenerNext]_listenerVars => [stopReason # "none" => stopReason' = stopReason]_listenerVars
  BY ReasonKept
<1>. QED BY <1>1, PTL DEF ListenerSpec, ReasonStands

\* Once the session has begun to end, its reason has its cause; and it lacks a
\* reason only where __exit__ will find one, or after a refusal.
Caused ==
  /\ stopReason = "max_duration" => timed /\ expired
  /\ stopReason = "error" => raised
  /\ stopReason = "interrupt" => ctrlC \/ caller = "library"
  /\ stage = "leave" /\ stopReason = "none" /\ ~raised => ctrlC \/ caller = "library"
  /\ stage = "ended" /\ stopReason = "none" => report \in BindReport \cup {"aborted"}

ReasonInv == ListenerTypeOK /\ Quiet /\ Caused

LEMMA ReasonStep ==
  ASSUME ReasonInv, [ListenerNext]_listenerVars
  PROVE  ReasonInv'
<1>0. ListenerTypeOK'
  BY TypeStep DEF ReasonInv
<1> USE DEF config, binding, peers, counts, ending, ReasonInv, Quiet, Running, Caused
<1>1. ASSUME Enter
      PROVE  Quiet' /\ Caused'
  <2>1. BindFailure \in BindReport
    BY DEF BindFailure, BindReport
  <2>. QED BY <1>1, <2>1 DEF Enter, ListenerTypeOK
<1>2. ASSUME Poll
      PROVE  Quiet' /\ Caused'
  BY <1>2 DEF Poll, FinalizeSession, ListenerTypeOK
<1>3. ASSUME Resume
      PROVE  Quiet' /\ Caused'
  BY <1>3 DEF Resume, FinalizeSession, ListenerTypeOK
<1>4. ASSUME Break
      PROVE  Quiet' /\ Caused'
  BY <1>4 DEF Break, ListenerTypeOK
<1>5. ASSUME ConsumerFails
      PROVE  Quiet' /\ Caused'
  BY <1>5 DEF ConsumerFails, ListenerTypeOK
<1>6. ASSUME Leave
      PROVE  Quiet' /\ Caused'
  BY <1>6 DEF Leave, FinalizeSession, ListenerTypeOK
<1>7. ASSUME InterruptEvents
      PROVE  Quiet' /\ Caused'
  BY <1>7 DEF InterruptEvents, FinalizeSession, Take, Count, ListenerTypeOK
<1>8. ASSUME InterruptConsumer
      PROVE  Quiet' /\ Caused'
  BY <1>8 DEF InterruptConsumer, ListenerTypeOK
<1>9. ASSUME InterruptBanner
      PROVE  Quiet' /\ Caused'
  BY <1>9 DEF InterruptBanner, ListenerTypeOK
<1>10. ASSUME InterruptBind
       PROVE  Quiet' /\ Caused'
  BY <1>10 DEF InterruptBind, ListenerTypeOK
<1>11. ASSUME Expire
       PROVE  Quiet' /\ Caused'
  BY <1>11 DEF Expire, Serving, ListenerTypeOK
<1>12. ASSUME Bind \/ Banner \/ Select \/ (\E f \in Family : Receive(f))
              \/ RoundEnds \/ Consume \/ (\E f \in Family : Arrive(f))
              \/ (\E f \in Family : Vanish(f)) \/ UNCHANGED listenerVars
       PROVE  Quiet' /\ Caused'
  BY <1>12 DEF Bind, Banner, Select, Receive, Take, Count, RoundEnds, Consume,
     Arrive, Vanish, listenerVars, ListenerTypeOK
<1>. QED
  BY <1>0, <1>1, <1>2, <1>3, <1>4, <1>5, <1>6, <1>7, <1>8, <1>9, <1>10,
     <1>11, <1>12
     DEF ListenerNext, ListenerStep, CtrlC

-----------------------------------------------------------------------------
(***************************************************************************)
(* Sockets.                                                                *)
(***************************************************************************)
LEMMA SessionSocketStep ==
  ASSUME ReasonInv, SocketsClosed, [ListenerNext]_listenerVars
  PROVE  SocketsClosed'
<1>0. ListenerTypeOK'
  BY TypeStep DEF ReasonInv
<1> USE DEF config, binding, peers, counts, ending, ReasonInv, Quiet, Running
<1> DEFINE Closed == stage = "ended" /\ ~(ctrlC /\ stopReason = "none") => sockets = {}
<1>. SUFFICES Closed'
  BY <1>0 DEF SocketsClosed
<1>c. Closed
  BY DEF SocketsClosed
<1>1. ASSUME Bind
      PROVE  Closed'
  BY <1>1, <1>c DEF Bind, ListenerTypeOK
<1>2. ASSUME Enter
      PROVE  Closed'
  BY <1>2, <1>c DEF Enter, ListenerTypeOK
<1>3. ASSUME Leave
      PROVE  Closed'
  BY <1>3, <1>c DEF Leave, FinalizeSession, ListenerTypeOK
<1>4. ASSUME InterruptBind
      PROVE  Closed'
  BY <1>4, <1>c DEF InterruptBind, ListenerTypeOK
<1>5. ASSUME Banner \/ Poll \/ Select \/ (\E f \in Family : Receive(f))
             \/ RoundEnds \/ Consume \/ Resume \/ Break \/ ConsumerFails
             \/ InterruptEvents \/ InterruptConsumer \/ InterruptBanner
             \/ Expire \/ (\E f \in Family : Arrive(f))
             \/ (\E f \in Family : Vanish(f)) \/ UNCHANGED listenerVars
      PROVE  Closed'
  BY <1>5, <1>c DEF Banner, Poll, FinalizeSession, Select, Receive, Take, Count,
     RoundEnds, Consume, Resume, Break, ConsumerFails, InterruptEvents,
     InterruptConsumer, InterruptBanner, Expire, Serving, Arrive, Vanish, listenerVars,
     ListenerTypeOK
<1>. QED BY <1>1, <1>2, <1>3, <1>4, <1>5 DEF ListenerNext, ListenerStep, CtrlC

-----------------------------------------------------------------------------
(***************************************************************************)
(* Counts.                                                                 *)
(***************************************************************************)
\* How many sockets are ready and not yet reached.
Left == (IF "ipv4" \in ready THEN 1 ELSE 0) + (IF "ipv6" \in ready THEN 1 ELSE 0)

\* The limit has room while peers are accepted.
Room ==
  maxEvents # NoLimit =>
    /\ received <= maxEvents
    /\ stage \in {"bind", "banner", "poll", "select", "receive"} => received < maxEvents

\* The events that were received and not dealt with.
Pending ==
  /\ stage \in Running \ {"yielded"} => received = delivered
  /\ stage = "yielded" => received = delivered + 1
  /\ delivered <= received /\ received <= delivered + 1
  /\ stage \in {"leave", "ended"} /\ ~ctrlC /\ ~raised => received = delivered
  /\ stopReason = "max_events" => received = maxEvents

\* Late events are those of the round in which the deadline passed.
Overshoot ==
  /\ expired => timed
  /\ late > 0 => expired
  /\ stage \in {"bind", "banner", "select"} => late = 0
  /\ stage \in {"receive", "yielded", "resume"} => late + Left <= 2
  /\ late <= 2

CountInv == ReasonInv /\ Room /\ Pending /\ Overshoot


\* A session begins with room, and without events.
LEMMA CountInit == ListenerInit => CountInv /\ SocketsClosed
<1> SUFFICES ASSUME ListenerInit
             PROVE  CountInv /\ SocketsClosed
  OBVIOUS
<1>1. ListenerTypeOK
  BY TypeInit
<1>2. Quiet /\ Caused
  BY DEF ListenerInit, Quiet, Caused
<1>3. Room
  BY <1>1, LimitType DEF ListenerInit, Room
<1>4. Pending
  BY <1>1, LimitType DEF ListenerInit, Pending, Running
<1>5. Overshoot
  BY DEF ListenerInit, Overshoot
<1>. QED BY <1>1, <1>2, <1>3, <1>4, <1>5 DEF CountInv, ReasonInv, SocketsClosed, ListenerInit

LEMMA RoomStep ==
  ASSUME ListenerTypeOK, Room, [ListenerNext]_listenerVars
  PROVE  Room'
<1>l. NoLimit \notin Nat /\ (maxEvents # NoLimit => maxEvents \in Nat)
  BY LimitType, LimitAssumption
<1> USE DEF config, binding, peers, counts, ending, Room
<1>1. ASSUME NEW f \in Family, Receive(f)
      PROVE  Room'
  BY <1>1, <1>l DEF Receive, Take, Count, ListenerTypeOK
<1>2. ASSUME Resume
      PROVE  Room'
  BY <1>2, <1>l DEF Resume, FinalizeSession, ListenerTypeOK
<1>3. ASSUME InterruptEvents
      PROVE  Room'
  BY <1>3, <1>l DEF InterruptEvents, FinalizeSession, Take, Count, ListenerTypeOK
<1>4. ASSUME Bind \/ Enter \/ Banner \/ Poll \/ Select \/ RoundEnds
             \/ Consume \/ Break \/ ConsumerFails \/ Leave
             \/ InterruptConsumer \/ InterruptBanner \/ InterruptBind
             \/ Expire \/ (\E f \in Family : Arrive(f))
             \/ (\E f \in Family : Vanish(f)) \/ UNCHANGED listenerVars
      PROVE  Room'
  BY <1>4, <1>l DEF Bind, Enter, Banner, Poll, FinalizeSession, Select, RoundEnds,
     Consume, Break, ConsumerFails, Leave, InterruptConsumer, InterruptBanner,
     InterruptBind, Expire, Serving, Arrive, Vanish, Take, listenerVars, ListenerTypeOK
<1>. QED BY <1>1, <1>2, <1>3, <1>4 DEF ListenerNext, ListenerStep, CtrlC

LEMMA PendingStep ==
  ASSUME ReasonInv, Room, Pending, [ListenerNext]_listenerVars
  PROVE  Pending'
<1>l. maxEvents \in Nat \/ maxEvents = NoLimit
  BY LimitType DEF ReasonInv
<1> USE DEF config, binding, peers, counts, ending, ReasonInv, Quiet, Running, Pending, Room
<1>1. ASSUME NEW f \in Family, Receive(f)
      PROVE  Pending'
  BY <1>1, <1>l DEF Receive, Take, Count, ListenerTypeOK
<1>2. ASSUME Consume
      PROVE  Pending'
  BY <1>2, <1>l DEF Consume, ListenerTypeOK
<1>3. ASSUME Resume
      PROVE  Pending'
  BY <1>3, <1>l DEF Resume, FinalizeSession, ListenerTypeOK
<1>4. ASSUME Break
      PROVE  Pending'
  BY <1>4, <1>l DEF Break, ListenerTypeOK
<1>5. ASSUME ConsumerFails
      PROVE  Pending'
  BY <1>5, <1>l DEF ConsumerFails, ListenerTypeOK
<1>6. ASSUME Leave
      PROVE  Pending'
  BY <1>6, <1>l DEF Leave, FinalizeSession, ListenerTypeOK
<1>7. ASSUME InterruptEvents
      PROVE  Pending'
  BY <1>7, <1>l DEF InterruptEvents, FinalizeSession, Take, Count, ListenerTypeOK
<1>8. ASSUME InterruptConsumer
      PROVE  Pending'
  BY <1>8, <1>l DEF InterruptConsumer, ListenerTypeOK
<1>9. ASSUME Bind \/ Enter \/ Banner \/ Poll \/ Select \/ RoundEnds
             \/ InterruptBanner \/ InterruptBind \/ Expire
             \/ (\E f \in Family : Arrive(f))
             \/ (\E f \in Family : Vanish(f)) \/ UNCHANGED listenerVars
      PROVE  Pending'
  BY <1>9, <1>l DEF Bind, Enter, Banner, Poll, FinalizeSession, Select, RoundEnds,
     InterruptBanner, InterruptBind, Expire, Serving, Arrive, Vanish, Take,
     listenerVars, ListenerTypeOK
<1>. QED
  BY <1>1, <1>2, <1>3, <1>4, <1>5, <1>6, <1>7, <1>8, <1>9
     DEF ListenerNext, ListenerStep, CtrlC

\* At most one event more, and one socket less.
LEMMA OneLess ==
  ASSUME NEW n \in Nat, NEW m \in Nat, NEW l \in 0 .. 2, NEW k \in 0 .. 2,
         m <= n + 1, k = l - 1, n + l <= 2
  PROVE  m + k <= 2 /\ m <= 2
OBVIOUS

LEMMA OvershootStep ==
  ASSUME ListenerTypeOK, Overshoot, [ListenerNext]_listenerVars
  PROVE  Overshoot'
<1> USE DEF config, binding, peers, counts, ending, Overshoot
<1>1. ASSUME Poll
      PROVE  Overshoot'
  BY <1>1 DEF Poll, FinalizeSession, Left, ListenerTypeOK
<1>2. ASSUME Select
      PROVE  Overshoot'
  BY <1>2 DEF Select, Left, ListenerTypeOK
<1>3. ASSUME NEW f \in Family, Receive(f)
      PROVE  Overshoot'
  <2>1. Left \in 0 .. 2 /\ Left' \in 0 .. 2
    BY DEF Left
  <2>2. Left' = Left - 1
    BY <1>3 DEF Receive, Family, Left
  <2>3. late' \in Nat /\ late' <= late + 1 /\ (late' = late \/ expired)
    BY <1>3 DEF Receive, Count, ListenerTypeOK
  <2>4. /\ stage' \in {"receive", "yielded"} /\ late \in Nat
        /\ expired' = expired /\ timed' = timed
    BY <1>3 DEF Receive, ListenerTypeOK
  <2>5. late + Left <= 2
    BY <2>4, <1>3 DEF Receive
  <2>6. late' + Left' <= 2 /\ late' <= 2
    BY <2>1, <2>2, <2>3, <2>4, <2>5, OneLess, Zenon
  <2>7. (expired => timed)' /\ (late > 0 => expired)'
    BY <2>3, <2>4
  <2>8. stage' \notin {"bind", "banner", "select"}
    BY <2>4
  <2>. QED BY <2>6, <2>7, <2>8
<1>4. ASSUME RoundEnds
      PROVE  Overshoot'
  BY <1>4 DEF RoundEnds, Left, ListenerTypeOK
<1>5. ASSUME Resume
      PROVE  Overshoot'
  BY <1>5 DEF Resume, FinalizeSession, Left, ListenerTypeOK
<1>6. ASSUME InterruptEvents
      PROVE  Overshoot'
  <2>1. ASSUME NEW f \in ready, stage = "receive"
        PROVE  late + 1 <= 2
    BY <2>1 DEF ListenerTypeOK, Family, Left
  <2>2. stage' = "leave" /\ expired' = expired /\ timed' = timed
    BY <1>6 DEF InterruptEvents
  <2>3. late' = late \/ (late' = late + 1 /\ expired /\ late + 1 <= 2)
    BY <1>6, <2>1 DEF InterruptEvents, Count, ListenerTypeOK
  <2>. QED BY <2>2, <2>3
<1>7. ASSUME Expire
      PROVE  Overshoot'
  BY <1>7 DEF Expire, Serving, Left, ListenerTypeOK
<1>8. ASSUME Bind \/ Enter \/ Banner \/ Consume \/ Break \/ ConsumerFails
             \/ Leave \/ InterruptConsumer \/ InterruptBanner
             \/ InterruptBind \/ (\E f \in Family : Arrive(f))
             \/ (\E f \in Family : Vanish(f)) \/ UNCHANGED listenerVars
      PROVE  Overshoot'
  BY <1>8, SMTT(20) DEF Bind, Enter, Banner, Consume, Break, ConsumerFails, Leave,
     FinalizeSession, InterruptConsumer, InterruptBanner, InterruptBind, Arrive,
     Vanish, Take, listenerVars, Left, ListenerTypeOK
<1>. QED
  BY <1>1, <1>2, <1>3, <1>4, <1>5, <1>6, <1>7, <1>8
     DEF ListenerNext, ListenerStep, CtrlC

-----------------------------------------------------------------------------
(***************************************************************************)
(* The theorems.                                                           *)
(***************************************************************************)
LEMMA Invariance == ListenerSpec => [](CountInv /\ SocketsClosed)
<1>1. CountInv /\ SocketsClosed /\ [ListenerNext]_listenerVars => (CountInv /\ SocketsClosed)'
  BY ReasonStep, SessionSocketStep, RoomStep, PendingStep, OvershootStep DEF CountInv, ReasonInv
<1>. QED BY CountInit, <1>1, PTL DEF ListenerSpec

\* Every variable of a session keeps its type.
THEOREM ListenerTyped == ListenerSpec => []ListenerTypeOK
<1>1. CountInv => ListenerTypeOK
  BY DEF CountInv, ReasonInv
<1>. QED BY <1>1, Invariance, PTL

\* A session that is over, or was refused, holds no socket.
THEOREM ListenerSockets == ListenerSpec => []SocketsClosed
BY Invariance, PTL

\* The limit is kept, at most two events come after the deadline, the summary
\* counts what the consumer got, and its reason is why the session stopped.
THEOREM ListenerSummary == ListenerSpec => []SummaryTrue
<1>1. ASSUME CountInv
      PROVE  SummaryTrue
  <2> USE DEF CountInv, ReasonInv
  <2>1. WithinLimit /\ BoundedOvershoot
    BY <1>1 DEF WithinLimit, Room, BoundedOvershoot, Overshoot
  <2>2. SummaryCounts
    BY <1>1 DEF SummaryCounts, Pending, Running
  <2>3. ASSUME stage = "ended", report \notin BindReport, report # "aborted"
        PROVE  /\ stopReason = "max_duration" => timed /\ expired
               /\ stopReason = "max_events" => received = maxEvents
               /\ stopReason = "error" => raised
               /\ stopReason = "interrupt" => ctrlC \/ caller = "library"
               /\ stopReason \in Reason
    BY <1>1, <2>3 DEF Caused, Pending, ListenerTypeOK
  <2>4. ReasonTrue
    BY <2>3 DEF ReasonTrue, Reason
  <2>. QED BY <2>1, <2>2, <2>4 DEF SummaryTrue
<1>. QED BY <1>1, Invariance, PTL
=============================================================================
