----------------------------- MODULE DnsCommand -----------------------------
(***************************************************************************)
(* `opskit dns lookup` and `reverse` (dns/cli.py): every target in turn is *)
(* looked up, compared between resolvers (--diff) or traced (--trace); the *)
(* outcomes make one exit code.  Under --watch that is a round: it is      *)
(* repeated after a pause, says whether anything changed, and Ctrl-C ends  *)
(* the command at any step (core/cliutils.py watch).                       *)
(***************************************************************************)
EXTENDS DnsQuery, DnsTrace, ExitCodes

CONSTANTS
  MaxTargets,   \* targets of a command (bound)
  MaxRounds     \* rounds before Ctrl-C (bound)

ASSUME CommandAssumption == MaxTargets \in Nat \ {0} /\ MaxRounds \in Nat \ {0}

VARIABLES
  tracing, targets, watching,   \* --trace, how many targets, --watch
  phase,
  results,      \* the outcomes of this round, target by target
  rounds,       \* rounds completed
  last,         \* history: the outcomes of the last completed round
  previous,     \* watch: the signature of the last completed round
  shown,        \* what the round was announced as
  code,         \* the exit code of the last completed round
  exitCode

commandOptions == <<tracing, targets, watching>>
commandVars == <<commandOptions, phase, results, rounds, last, previous, shown, code, exitCode>>
vars == <<queryVars, traceVars, commandVars>>

CommandInit ==
  /\ QueryInit /\ TraceInit
  /\ tracing \in BOOLEAN
  /\ targets \in 1 .. MaxTargets
  /\ watching \in BOOLEAN
  /\ phase = "running"
  /\ results = <<>> /\ rounds = 0 /\ last = <<>>
  /\ previous = <<>> /\ shown = "nothing"
  /\ code = "OK" /\ exitCode = "none"

\* One target is being asked about.
Work ==
  /\ phase = "running"
  /\ IF tracing THEN TraceStep /\ UNCHANGED queryVars ELSE QueryStep /\ UNCHANGED traceVars
  /\ UNCHANGED commandVars

Over == IF tracing THEN hop \in {"over", "bad", "raw"} ELSE pc = "over"
Raw  == IF tracing THEN hop = "raw" ELSE outcome.code = "raw"

\* What the command keeps of a target, and prints.
ResultOf ==
  IF ~tracing THEN outcome
  ELSE IF hop = "bad" THEN Failed("usage_error")
  ELSE [code |-> "ok", path |-> steps]

ReadyQuery ==
  /\ pc' = "idle"
  /\ at' = 1 /\ type' = 1 /\ tries' = 0
  /\ records' = {} /\ firstError' = "none"
  /\ answers' = <<>> /\ log' = <<>>
  /\ outcome' = Failed("usage_error")
  /\ UNCHANGED options

ReadyTrace ==
  /\ hop' = "idle" /\ candidates' = <<Root>> /\ zone' = Top
  /\ steps' = <<>> /\ offers' = <<>>

Ready == ReadyQuery /\ ReadyTrace

\* collect_outcomes: an OpskitError is the outcome of its target; anything else
\* goes up through the command.
Collect ==
  /\ phase = "running" /\ Over
  /\ Ready
  /\ IF Raw
       THEN phase' = "exited" /\ exitCode' = "ERROR" /\ UNCHANGED results
       ELSE /\ results' = Append(results, ResultOf)
            /\ phase' = IF Len(results') = targets THEN "round" ELSE "running"
            /\ UNCHANGED exitCode
  /\ UNCHANGED <<commandOptions, rounds, last, previous, shown, code>>

\* The exit code each error declares.
ExitOf(c) ==
  CASE c = "ok" -> "OK"
    [] c = "nxdomain" -> "NXDOMAIN"
    [] c \in {"servfail", "dns_error"} -> "SERVFAIL"
    [] c = "refused" -> "REFUSED"
    [] c = "timeout" -> "TIMEOUT"
    [] c = "usage_error" -> "USAGE"

Answered == {i \in DOMAIN results : results[i].code = "ok"}

\* A comparison is good if the resolvers agree, a trace if it ends in an answer.
Good(r) == IF tracing THEN Last(r.path).response = "answer" ELSE r.consistent

\* Mutant: targets that could not be compared or traced are forgotten.
RoundExitLax ==
  IF ~tracing /\ ~comparing THEN AggregateExit({ExitOf(results[i].code) : i \in DOMAIN results})
  ELSE IF Answered = {} THEN "USAGE"
  ELSE IF \A i \in Answered : Good(results[i]) THEN "OK" ELSE "PARTIAL"

\* _run, _run_compare, _run_trace: the exit code of a round.
RoundExit ==
  IF ~tracing /\ ~comparing THEN AggregateExit({ExitOf(results[i].code) : i \in DOMAIN results})
  ELSE IF Answered = {} THEN "USAGE"
  ELSE IF Answered = DOMAIN results /\ \A i \in Answered : Good(results[i]) THEN "OK"
  ELSE "PARTIAL"

Responses(path) == [i \in DOMAIN path |-> path[i].response]

\* Mutant: a trace is compared by how it ended.
SignatureEnds ==
  IF ~tracing /\ ~comparing
    THEN [i \in DOMAIN results |-> results[i]]
    ELSE [i \in Answered |->
            IF tracing THEN Last(results[i].path).response ELSE results[i].answers]

\* What a round is compared by.  A comparison's or trace's failed targets are
\* not in it, and nothing is when all failed; of a trace only the kinds of the
\* responses are.
Signature ==
  IF ~tracing /\ ~comparing
    THEN [i \in DOMAIN results |-> results[i]]
    ELSE [i \in Answered |->
            IF tracing THEN Responses(results[i].path) ELSE results[i].answers]

\* Mutant: the first round sets the mark for all.
EndRoundStuck ==
  /\ phase = "round"
  /\ rounds' = rounds + 1
  /\ code' = RoundExit
  /\ last' = results
  /\ shown' = IF rounds = 0 THEN "initial"
              ELSE IF Signature # previous THEN "changed" ELSE "no change"
  /\ previous' = IF rounds = 0 THEN Signature ELSE previous
  /\ IF watching
       THEN phase' = "sleep" /\ UNCHANGED exitCode
       ELSE phase' = "exited" /\ exitCode' = RoundExit
  /\ UNCHANGED <<queryVars, traceVars, commandOptions, results>>

EndRound ==
  /\ phase = "round"
  /\ rounds' = rounds + 1
  /\ code' = RoundExit
  /\ last' = results
  /\ IF watching
       THEN /\ shown' = IF rounds = 0 THEN "initial"
                        ELSE IF Signature # previous THEN "changed" ELSE "no change"
            /\ previous' = Signature
            /\ phase' = "sleep"
            /\ UNCHANGED exitCode
       ELSE phase' = "exited" /\ exitCode' = RoundExit /\ UNCHANGED <<shown, previous>>
  /\ UNCHANGED <<queryVars, traceVars, commandOptions, results>>

Sleep ==
  /\ phase = "sleep" /\ rounds < MaxRounds
  /\ phase' = "running"
  /\ results' = <<>>
  /\ UNCHANGED <<queryVars, traceVars, commandOptions, rounds, last, previous, shown, code, exitCode>>

\* Ctrl-C under --watch: the code of the last round that was completed.
Interrupt ==
  /\ watching /\ phase \in {"running", "round", "sleep"}
  /\ phase' = "exited"
  /\ exitCode' = code
  /\ Ready
  /\ UNCHANGED <<commandOptions, results, rounds, last, previous, shown, code>>

Step == Work \/ Collect \/ EndRound \/ Sleep

Next == Step \/ Interrupt

Spec == CommandInit /\ [][Next]_vars

FairSpec == Spec /\ WF_vars(Step)
-----------------------------------------------------------------------------
(* Correctness.                                                            *)

ExitCode == {"OK", "ERROR", "USAGE", "NXDOMAIN", "SERVFAIL", "REFUSED", "TIMEOUT", "PARTIAL"}

\* The types of all variables, and which of them move together.
TypeOK ==
  /\ QueryTypeOK /\ TraceTypeOK
  /\ targets \in 1 .. MaxTargets
  /\ phase \in {"running", "round", "sleep", "exited"}
  /\ Len(results) <= targets /\ rounds \in 0 .. MaxRounds
  /\ \A i \in DOMAIN results : results[i].code \in Code
  /\ rounds > 0 => Len(last) = targets
  /\ shown \in {"nothing", "initial", "changed", "no change"}
  /\ code \in ExitCode /\ exitCode \in ExitCode \cup {"none"}
  /\ exitCode # "none" <=> phase = "exited"

\* Art. IX and the comments of _run_compare and _run_trace ("the exit code
\* degrades to PARTIAL when any target failed (USAGE only when none
\* succeeded)"), of the last round that was completed, whenever Ctrl-C came.
ExitTells ==
  /\ TypeOK
  /\ phase = "exited" /\ exitCode # "ERROR" /\ rounds > 0 =>
    IF ~tracing /\ ~comparing
      THEN Summarises(exitCode, [i \in DOMAIN last |-> ExitOf(last[i].code)])
      ELSE LET done == {i \in DOMAIN last : last[i].code = "ok"}
               good == {i \in done : Good(last[i])}
           IN  /\ exitCode \in {"OK", "PARTIAL", "USAGE"}
               /\ exitCode = "OK" <=> good = DOMAIN last
               /\ exitCode = "USAGE" <=> done = {}

\* What a user is told apart: of two traces that were made, only whether they
\* took as many hops and ended in the same way.
ToldApart(r, l) ==
  IF tracing /\ r.code = "ok" /\ l.code = "ok"
    THEN Len(r.path) # Len(l.path) \/ Last(r.path).response # Last(l.path).response
    ELSE r # l

\* FR-010, "be shown when the answer changes", as far as the code goes: a round
\* after the first is announced as changed exactly if some target came out
\* otherwise than in the round before; one that exits with another code always
\* is.  Of a trace that is less than FR-010 asks: a path through other servers
\* or zones, and other records at its end, are not announced.
ChangeShown ==
  [][phase = "round" /\ phase' = "sleep" =>
       IF rounds = 0 THEN shown' = "initial"
       ELSE /\ shown' = IF \E i \in DOMAIN results : ToldApart(results[i], last[i])
                          THEN "changed" ELSE "no change"
            /\ shown' = "no change" => code' = code]_vars

\* Every round ends, whatever the resolvers do.
RoundsEnd == phase = "running" ~> phase \in {"sleep", "exited"}
=============================================================================
