------------------------------ MODULE AdCommand ------------------------------
(***************************************************************************)
(* One command of `opskit ad` (ad/cli.py) on one client: check, groups and *)
(* member make one call; user, members and show connect and then take      *)
(* their names in turn; user may do so again and again under --watch.  Or  *)
(* the client is that of a Python caller, who calls what he likes.         *)
(*                                                                         *)
(* What a call does is module AdSession; what `user` says of an account is *)
(* module AccountStatus.  Who administers the directory may change an      *)
(* account between any two reads of it.                                    *)
(***************************************************************************)
EXTENDS AdSession, AccountStatus, ExitCodes, SequencesExt

CONSTANTS
  Command,      \* commands, each with the client's configuration
  MaxQueries,   \* searches for one name (bound)
  MaxRounds     \* rounds of --watch (bound)

Batchable == {"user", "members", "show"}
OfPrincipals == {"user", "groups", "member"}

\* accepted: the options and the names are, and a password can be had; accounts:
\* what the directory holds; visible: what the bound account may read of it.
CommandType ==
  [name : Batchable \cup {"check", "groups", "member", "library"}, names : Nat \ {0},
   watch : BOOLEAN, accepted : BOOLEAN, config : Config,
   accounts : SUBSET Account, visible : SUBSET Attribute]

ASSUME CommandAssumption ==
  \A c \in Command :
    /\ c \in CommandType
    /\ c.watch => c.name = "user"
    /\ c.names > 1 => c.name \in Batchable

VARIABLES
  command,
  phase,
  queries,      \* searches for the current name
  outcomes,     \* of this round, name by name
  rounds,       \* the outcomes of the last two complete rounds
  shown,        \* what --watch said of the last round
  exitCode

commandVars == <<command, phase, queries, outcomes, rounds, shown, exitCode>>
allVars == <<vars, commandVars>>

NoStatus == [blockers |-> {}, unavailable |-> {}, stale |-> FALSE, facts |-> <<>>]

CommandInit ==
  /\ Init
  /\ command \in Command /\ config = command.config
  /\ phase = IF command.name = "library" THEN "library" ELSE "given"
  /\ queries = 0 /\ outcomes = <<>> /\ rounds = <<>>
  /\ shown = "none" /\ exitCode = "none"

-----------------------------------------------------------------------------
\* _build_config, _resolve_password, collect_target_list.
RejectOptions ==
  /\ phase = "given" /\ ~command.accepted
  /\ phase' = "over" /\ exitCode' = "USAGE"
  /\ UNCHANGED <<vars, command, queries, outcomes, rounds, shown>>

Starts(name, kind, next) ==
  /\ phase = "given" /\ command.name = name /\ command.accepted
  /\ Begin(kind)
  /\ phase' = next
  /\ UNCHANGED <<calls, command, queries, outcomes, rounds, shown, exitCode>>

Check == Starts("check", "check", "name")
Groups == Starts("groups", "query", "name")
Member == Starts("member", "query", "name")

\* A batch connects before its first name.
User == Starts("user", "connect", "connect")
Members == Starts("members", "connect", "connect")
Show == Starts("show", "connect", "connect")

InCall ==
  /\ phase \in {"connect", "name"}
  /\ Locating \/ Connecting \/ Using
  /\ UNCHANGED commandVars

Returned(results) == pc = "idle" /\ result \in results
Typed == (ConnectError \cup OtherError) \ {"OSError", "KeyboardInterrupt"}

-----------------------------------------------------------------------------
(* _run_batch, and the call of the other commands.                         *)

Connected ==
  /\ phase = "connect" /\ Returned({"connected"})
  /\ Begin("query")
  /\ phase' = "name"
  /\ UNCHANGED <<calls, command, queries, outcomes, rounds, shown, exitCode>>

Failed(e) == [says |-> e, status |-> NoStatus, blocked |-> {}, by |-> 0]

\* Mutant: only the first name gets the error.
ConnectFailsOnce ==
  /\ phase = "connect" /\ Returned(Typed)
  /\ outcomes' = <<Failed(result)>>
  /\ phase' = "emit"
  /\ UNCHANGED <<vars, command, queries, rounds, shown, exitCode>>

\* A connection that cannot be made is the outcome of every name.
ConnectFails ==
  /\ phase = "connect" /\ Returned(Typed)
  /\ outcomes' = [i \in 1 .. command.names |-> Failed(result)]
  /\ phase' = "emit"
  /\ UNCHANGED <<vars, command, queries, rounds, shown, exitCode>>

\* The outcome of a name; the next one is looked up over the same session.
Take(o) ==
  /\ outcomes' = Append(outcomes, o)
  /\ queries' = 0
  /\ IF Len(outcomes') < command.names
       THEN Begin("query") /\ UNCHANGED <<calls, phase>>
       ELSE phase' = "emit" /\ UNCHANGED vars
  /\ UNCHANGED <<command, rounds, shown, exitCode>>

\* A call may need more searches: a redirect to a group, a primary group, the
\* levels of a walk (module Membership).
SearchMore ==
  /\ phase = "name" /\ Returned({"answer"})
  /\ queries + 1 < MaxQueries
  /\ queries' = queries + 1
  /\ Begin("query")
  /\ UNCHANGED <<calls, command, phase, outcomes, rounds, shown, exitCode>>

\* user_status: what is said of an account is what it was when it was read.
user_status ==
  /\ phase = "name" /\ command.name = "user" /\ queries = 0 /\ Returned({"answer"})
  /\ \E a \in command.accounts :
       Take([says |-> "ok", status |-> Derive(a, command.visible), blocked |-> Blocked(a),
             by |-> session.id])

Answer ==
  /\ phase = "name" /\ command.name # "user" /\ Returned({"answer", "report"})
  /\ \E says \in {"ok"} \cup IF command.name = "member" THEN {"not_member"} ELSE {} :
       Take([says |-> says, status |-> NoStatus, blocked |-> {}, by |-> session.id])

\* The name is not found, not the name of one object, or that of a group.
NotOne ==
  /\ phase = "name" /\ command.name # "check" /\ Returned({"answer"})
  /\ \E e \in {"PrincipalNotFound", "AmbiguousPrincipal"}
               \cup IF command.name \in OfPrincipals THEN {"PrincipalIsGroup"} ELSE {} :
       Take(Failed(e))

\* A name that was not found is looked up as that of a group: if that fails, it
\* was not found.
RedirectFails ==
  /\ phase = "name" /\ command.name \in OfPrincipals /\ queries > 0
  /\ Returned({"AdError", "PermissionDenied"})
  /\ Take(Failed("PrincipalNotFound"))

NameFails ==
  /\ phase = "name" /\ Returned(Typed)
  /\ Take(Failed(result))

-----------------------------------------------------------------------------
(* _emit_batch and watch.                                                  *)

ExitOf(says) ==
  CASE says = "ok" -> "OK"
    [] says = "not_member" -> "NOT_MEMBER"
    [] says = "AmbiguousPrincipal" -> "USAGE"
    [] says \in {"DiscoveryError", "ResolutionError"} -> "NXDOMAIN"
    [] says = "ConnectRefused" -> "CONNECT_FAILED"
    [] says = "ConnectTimeout" -> "TIMEOUT"
    [] says = "HandshakeError" -> "HANDSHAKE_FAILED"
    [] says = "CertificateInvalid" -> "CERT_INVALID"
    [] says = "AuthenticationFailed" -> "AUTH_FAILED"
    [] says = "PermissionDenied" -> "PERMISSION_DENIED"
    [] says \in {"PrincipalNotFound", "PrincipalIsGroup"} -> "NOT_FOUND"
    [] says = "AdError" -> "ERROR"

RoundCode(round) == AggregateExit({ExitOf(round[i].says) : i \in DOMAIN round})

\* Mutant: the facts alone.
StatusSignatureBare(round) ==
  [i \in DOMAIN round |-> <<round[i].says, {}, round[i].status.facts>>]

\* _status_signature: blockers and core facts, or the error.
StatusSignature(round) ==
  [i \in DOMAIN round |-> <<round[i].says, round[i].status.blockers, round[i].status.facts>>]

Compared(before, now) ==
  IF before = <<>> THEN "initial"
  ELSE IF StatusSignature(now) # StatusSignature(Last(before)) THEN "changed"
  ELSE "no change"

Emit ==
  /\ phase = "emit"
  /\ rounds' = (IF rounds = <<>> THEN <<>> ELSE <<Last(rounds)>>) \o <<outcomes>>
  /\ outcomes' = <<>>
  /\ IF command.watch
       THEN shown' = Compared(rounds, outcomes) /\ phase' = "sleep" /\ UNCHANGED exitCode
       ELSE exitCode' = RoundCode(outcomes) /\ phase' = "closing" /\ UNCHANGED shown
  /\ UNCHANGED <<vars, command, queries>>

\* The bound of the model is the only end of --watch but Ctrl-C.
Wake(round) ==
  /\ phase = "sleep" /\ round < MaxRounds
  /\ Begin("connect")
  /\ phase' = "connect"
  /\ calls' = round
  /\ UNCHANGED <<command, queries, outcomes, rounds, shown, exitCode>>

\* Ctrl-C, or an exception that is no OpskitError.  watch catches the first and
\* returns the code of the last complete round, which is OK if there is none.
Unwind(interrupted) ==
  /\ phase' = "closing"
  /\ exitCode' = IF ~interrupted THEN "traceback"
                 ELSE IF ~command.watch THEN "killed"
                 ELSE IF rounds = <<>> THEN "OK" ELSE RoundCode(Last(rounds))
  /\ queries' = 0
  /\ UNCHANGED <<vars, command, outcomes, rounds, shown>>

Raised ==
  /\ phase \in {"connect", "name"}
  /\ \/ Returned({"KeyboardInterrupt"}) /\ Unwind(TRUE)
     \/ Returned({"OSError"}) /\ Unwind(FALSE)

Interrupt == phase \in {"emit", "sleep"} /\ Unwind(TRUE)

\* Mutant: the client is closed only after a report.
LeaveReported ==
  /\ phase = "closing" /\ phase' = "over"
  /\ IF session # NoConn /\ exitCode \notin {"killed", "traceback"} THEN Close ELSE UNCHANGED vars
  /\ UNCHANGED <<command, queries, outcomes, rounds, shown, exitCode>>

\* `with client`
Leave ==
  /\ phase = "closing" /\ phase' = "over"
  /\ IF session # NoConn THEN Close ELSE UNCHANGED vars
  /\ UNCHANGED <<command, queries, outcomes, rounds, shown, exitCode>>

Outside == Vanish /\ UNCHANGED commandVars
Library == phase = "library" /\ Next /\ UNCHANGED commandVars

Progress ==
  \/ RejectOptions \/ Check \/ Groups \/ Member \/ User \/ Members \/ Show \/ InCall \/ Connected \/ ConnectFails \/ SearchMore
  \/ user_status \/ Answer \/ NotOne \/ RedirectFails \/ NameFails \/ Emit
  \/ Wake(calls + 1) \/ Raised \/ Leave

CommandNext == Progress \/ Interrupt \/ Outside \/ Library

CommandSpec == CommandInit /\ [][CommandNext]_allVars

-----------------------------------------------------------------------------
(* Correctness.                                                            *)

Codes(round) == [i \in DOMAIN round |-> ExitOf(round[i].says)]

\* Art. IX, SC-004: a round has one outcome for every name, and the exit code
\* sums up the last complete one, also when Ctrl-C ends a later one under
\* --watch; every answer came over one session, which was bound once; and
\* however the command ended, no connection is left open.
NamesTold ==
  /\ \A r \in Range(rounds) : Len(r) = command.names
  /\ phase = "over" /\ rounds # <<>> /\ exitCode \notin {"killed", "traceback"} =>
       Summarises(exitCode, Codes(Last(rounds)))
  /\ \A r, t \in Range(rounds) \cup {outcomes} : \A i \in DOMAIN r, j \in DOMAIN t :
       r[i].by # 0 /\ t[j].by # 0 => r[i].by = t[j].by
  /\ phase = "over" => open = {} /\ session = NoConn

\* FR-009, US1 and R10: what `user` says of an account is so, as far as the
\* bound account can see; and --watch does not say "no change" when the reasons
\* why an account cannot sign in have changed before its eyes.
StatusTrue ==
  /\ \A i \in DOMAIN outcomes : command.name = "user" /\ outcomes[i].says = "ok" =>
       Faithful(outcomes[i].status, outcomes[i].blocked)
  /\ shown = "no change" /\ command.visible = Attribute =>
       \A i \in 1 .. command.names :
         /\ rounds[1][i].says = rounds[2][i].says
         /\ rounds[1][i].blocked = rounds[2][i].blocked
=============================================================================
