------------------------------ MODULE TlsCommand ------------------------------
(***************************************************************************)
(* `opskit tls check` (tls/cli.py) and a program that calls tls.api.check. *)
(* The command makes one check of TlsCheck for each target, whatever came  *)
(* of the others, one exit code of what came of them, and under --watch    *)
(* does so again after a pause and says whether anything changed.  Time    *)
(* passes while it does.                                                   *)
(***************************************************************************)
EXTENDS TlsCheck, ExitCodes

CONSTANTS
  Command,      \* what can be asked, see CommandType
  MaxRounds     \* rounds of --watch (bound)

NoName == [kind |-> "none", name |-> <<>>]

\* parsed: parse_target and _validate_controls accept the target and the
\* options.  host: the identity of the target.
Target == [host : Wanted, parsed : BOOLEAN]

\* sni: --sni, for all targets.  accepted: there is a target, and --watch is an
\* interval.  offers: the
\* case of Offers while the command runs.
CommandType ==
  [program : BOOLEAN, targets : Seq(Target), sni : Wanted \cup {NoName}, warnDays : WarnDays,
   retries : 0 .. MaxRetries, strict : BOOLEAN, watch : BOOLEAN, accepted : BOOLEAN,
   offers : DOMAIN Offers]

ASSUME CommandAssumption ==
  /\ MaxRounds \in Nat
  /\ \A c \in Command :
       /\ c \in CommandType
       /\ c.program => Len(c.targets) = 1 /\ c.targets[1].parsed
       /\ c.strict => c.program
       /\ c.accepted => c.targets # <<>>

VARIABLES
  command,
  phase,
  outcomes,     \* of this round, target by target
  rounds,       \* the outcomes of the last two complete rounds
  begun,        \* rounds begun
  said,         \* what --watch said of the last round
  exitCode

commandVars == <<command, phase, outcomes, rounds, begun, said, exitCode>>
allVars == <<vars, commandVars>>

turn == Len(outcomes) + 1
target == command.targets[turn]

\* effective_name: --sni replaces the name of the target.
Effective(c, t) == IF c.sni = NoName THEN t.host ELSE c.sni

CommandInit ==
  /\ TlsInit
  /\ command \in Command
  /\ retries = command.retries /\ warnDays = command.warnDays /\ strict = command.strict
  /\ offers = command.offers
  /\ wanted = IF command.targets = <<>> THEN NoName
              ELSE Effective(command, command.targets[1])
  /\ phase = IF command.program THEN "library" ELSE "given"
  /\ outcomes = <<>> /\ rounds = <<>> /\ begun = 0 /\ said = "none"
  /\ exitCode = "none"

RejectOptions ==
  /\ phase = "given" /\ ~command.accepted
  /\ phase' = "exited" /\ exitCode' = "USAGE"
  /\ UNCHANGED <<vars, command, outcomes, rounds, begun, said>>

BeginRound ==
  /\ phase' = "target"
  /\ outcomes' = <<>>
  /\ begun' = begun + 1
  /\ UNCHANGED <<vars, command, rounds, said, exitCode>>

Check == phase = "given" /\ command.accepted /\ BeginRound

Undecided == [says |-> "none", leaf |-> Nothing.leaf, version |-> "none"]

\* Mutant: a target that is no target ends the command.
RefuseTargetAborts ==
  /\ phase = "target" /\ turn <= Len(command.targets) /\ ~target.parsed
  /\ phase' = "exited" /\ exitCode' = "USAGE"
  /\ UNCHANGED <<vars, command, outcomes, rounds, begun, said>>

\* The error of one target; the next one may be fine.
RefuseTarget ==
  /\ phase = "target" /\ turn <= Len(command.targets) /\ ~target.parsed
  /\ outcomes' = Append(outcomes, [Undecided EXCEPT !.says = "UsageError"])
  /\ UNCHANGED <<vars, command, phase, rounds, begun, said, exitCode>>

\* A check of its own, for the name w.
Take(w) ==
  /\ phase = "target" /\ turn <= Len(command.targets) /\ target.parsed
  /\ phase' = "checking"
  /\ wanted' = w
  /\ pc' = "resolve" /\ addrs' = 0 /\ round' = 0 /\ pass' = 0 /\ at' = 1
  /\ refused' = FALSE /\ open' = {} /\ chunks' = 0 /\ log' = <<>> /\ outcome' = "none"
  /\ stage' = "connect" /\ elapsed' = 0 /\ shown' = Nothing /\ days' = 0
  /\ findings' = <<>> /\ result' = "none"
  /\ UNCHANGED <<asking, warnDays, strict, offers>>
  /\ UNCHANGED <<command, outcomes, rounds, begun, said, exitCode>>

\* Mutant: the name that is checked stays that of the first target.
TakeTargetStale == Take(Effective(command, command.targets[1]))

TakeTarget == Take(Effective(command, target))

CheckTarget ==
  /\ phase \in {"checking", "library"}
  /\ CheckStep
  /\ UNCHANGED commandVars

Verdicts == {"ok", "cert_invalid", "expiring_soon"}
Raw == {"OSError", "SSLError"}

\* A result, or an OpskitError.
Conclude ==
  /\ phase = "checking" /\ stage = "done" /\ result \notin Raw
  /\ outcomes' =
       Append(outcomes, IF result \in Verdicts
                          THEN [says |-> result, leaf |-> shown.leaf, version |-> shown.version]
                          ELSE [Undecided EXCEPT !.says = result])
  /\ phase' = "target"
  /\ UNCHANGED <<vars, command, rounds, begun, said, exitCode>>

\* What is no OpskitError goes up through the command.
ConcludeRaises ==
  /\ phase = "checking" /\ stage = "done" /\ result \in Raw
  /\ phase' = "exited" /\ exitCode' = "traceback"
  /\ UNCHANGED <<vars, command, outcomes, rounds, begun, said>>

\* _result_exit, and the exit code each error declares.
ExitOf(says) ==
  CASE says = "ok" -> "OK"
    [] says = "expiring_soon" -> "CERT_EXPIRING"
    [] says \in {"cert_invalid", "CertificateInvalid"} -> "CERT_INVALID"
    [] says = "HandshakeError" -> "HANDSHAKE_FAILED"
    [] says = "ResolutionError" -> "NXDOMAIN"
    [] says = "ConnectRefused" -> "CONNECT_FAILED"
    [] says = "ConnectTimeout" -> "TIMEOUT"
    [] says = "UsageError" -> "USAGE"

RoundCode(r) == AggregateExit({ExitOf(r[i].says) : i \in DOMAIN r})

\* Mutant: a new certificate with the same verdict goes unnoticed.
SignatureBare(r) == [i \in DOMAIN r |-> r[i].says]

\* _signature: verdict or error, the leaf and its last day, the version.
Signature(r) == [i \in DOMAIN r |-> <<r[i].says, r[i].leaf, r[i].version>>]

EndRound ==
  /\ phase = "target" /\ turn > Len(command.targets)
  /\ rounds' = (IF rounds = <<>> THEN <<>> ELSE <<Last(rounds)>>) \o <<outcomes>>
  /\ IF command.watch
       THEN /\ phase' = "sleeping"
            /\ said' = IF rounds = <<>> THEN "initial"
                       ELSE IF Signature(outcomes) # Signature(Last(rounds)) THEN "changed"
                       ELSE "no change"
            /\ UNCHANGED exitCode
       ELSE phase' = "exited" /\ exitCode' = RoundCode(outcomes) /\ UNCHANGED said
  /\ UNCHANGED <<vars, command, outcomes, begun>>

Wake == phase = "sleeping" /\ begun < MaxRounds /\ BeginRound

\* Ctrl-C: watch returns the code of its last complete round.
Interrupt ==
  /\ phase \in {"target", "checking", "sleeping"}
  /\ phase' = "exited"
  /\ exitCode' = IF ~command.watch THEN "killed"
                 ELSE IF rounds = <<>> THEN "OK" ELSE RoundCode(Last(rounds))
  /\ UNCHANGED <<vars, command, outcomes, rounds, begun, said>>

Steps ==
  \/ RejectOptions \/ Check \/ RefuseTarget \/ TakeTarget \/ Conclude \/ ConcludeRaises
  \/ EndRound \/ Wake

CommandNext == Steps \/ CheckTarget \/ Interrupt

CommandSpec == CommandInit /\ [][CommandNext]_allVars

\* The process keeps running, and time passes.
FairCommandSpec ==
  /\ CommandSpec
  /\ WF_allVars(Steps \/ (CheckTarget /\ Work))
  /\ WF_allVars(CheckTarget /\ Tick)

-----------------------------------------------------------------------------
(* Correctness.                                                            *)

\* FR-013, FR-014 and Art. IX of the constitution: a round has one outcome for
\* every target; a target is called good only with a certificate that covers
\* its own name, or that of --sni; the exit code sums up the last complete
\* round, also when Ctrl-C ends a later one; and "no change" means that each
\* target got the same verdict with the same certificate and version.
RoundsTold ==
  /\ \A r \in ToSet(rounds) :
       /\ Len(r) = Len(command.targets)
       /\ \A i \in DOMAIN r : r[i].says \in {"ok", "expiring_soon"} =>
            NameCovered(r[i].leaf, Effective(command, command.targets[i]))
  /\ phase = "exited" /\ exitCode \notin {"killed", "traceback"} =>
       CASE rounds # <<>> ->
              Summarises(exitCode, [i \in DOMAIN Last(rounds) |-> ExitOf(Last(rounds)[i].says)])
         [] rounds = <<>> -> IF exitCode = "OK" THEN command.watch ELSE ~command.accepted
  /\ said = "no change" =>
       \A i \in DOMAIN command.targets :
         \A part \in {"says", "leaf", "version"} : rounds[1][i][part] = rounds[2][i][part]

\* What is said of a certificate, a batch and a change is so.
ChecksTold == VerdictTrue /\ RoundsTold

\* A check ends, and the command does, however a peer spreads its messages; under --watch, every
\* round does.
ChecksEnd == []<>(phase \in {"exited", "sleeping"} \/ (phase = "library" /\ stage = "done"))
=============================================================================
