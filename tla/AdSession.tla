------------------------------ MODULE AdSession ------------------------------
(***************************************************************************)
(* The directory session of an AdClient (src/opskit/ad/api.py): it is      *)
(* opened by the first call that needs it, kept for the calls that follow, *)
(* and closed with the client.  Candidate servers come from --server or    *)
(* from SRV records (ad/discovery.py) and are tried in turn; one of them   *)
(* is opened, secured and bound (ad/directory.py connect_session).         *)
(*                                                                         *)
(* A query reads the rootDSE once and then follows the pages of one        *)
(* search; module Membership continues from there.  The server may answer  *)
(* anything at each step, and may go away while the session is kept.       *)
(***************************************************************************)
EXTENDS Naturals, Sequences, FiniteSets, Functions

CONSTANTS
  Server,     \* names of directory servers
  Answers,    \* SRV answers with a usable record: sequences of records
  NoConn,
  MaxCalls,   \* calls made on one client (bound)
  MaxPages    \* pages of a search result (bound)

Record == [host : Server, priority : Nat, weight : Nat]

ASSUME ServerAssumption == IsFiniteSet(Server)
ASSUME AnswerAssumption == Answers \subseteq Seq(Record) \ {<<>>}
ASSUME BoundAssumption == MaxCalls \in Nat /\ MaxPages \in Nat

Security == {"ldaps", "starttls", "plaintext"}

\* discover: a domain was given and no server.  DirectoryConfig.__post_init__
\* refuses a password in the clear that was not asked for.
Config ==
  {c \in [security : Security, discover : BOOLEAN, password : BOOLEAN,
          cleartext : BOOLEAN] :
     ~(c.password /\ c.security = "plaintext" /\ ~c.cleartext)}

\* Errors that make _connect_any go on to the next candidate, the errors that
\* classify_connect_error can make of an exception, and what else is raised.
ReachError == {"ConnectRefused", "ConnectTimeout", "ResolutionError"}
ConnectError == ReachError \cup {"CertificateInvalid", "HandshakeError", "AdError"}
OtherError == {"OSError", "AuthenticationFailed", "PermissionDenied",
               "DiscoveryError", "KeyboardInterrupt"}
Stage == {"reached", "secured", "authenticated"}

\* A connection: its server, and whether what is sent over it is encrypted.
Connection == [id : Nat, server : Server, tls : BOOLEAN]
ASSUME ConnectionAssumption == NoConn \notin Connection

VARIABLES
  config,
  pc,
  call,        \* "connect", "query" or "check"
  calls,
  records,     \* the SRV records that were found
  candidates, tried,
  lastError,   \* the reach failure of the last candidate
  stages,      \* stages the last candidate has completed
  made,        \* connections opened so far
  open,        \* ids of the open ones
  conn,        \* the connection being set up
  session,     \* self._session
  alive,       \* the server of the session is there
  root,        \* the session's copy of the rootDSE
  rows,        \* pages received
  fresh,       \* the check found no session
  clear,       \* history: a password was sent unencrypted
  rejected,    \* history: servers that rejected the credentials in this call
  result

vars == <<config, pc, call, calls, records, candidates, tried, lastError, stages,
          made, open, conn, session, alive, root, rows, fresh, clear, rejected, result>>

connecting == <<records, candidates, tried, lastError>>
connections == <<made, open, conn>>
state == <<session, alive, root>>
secrets == <<clear, rejected>>

Init ==
  /\ config \in Config
  /\ pc = "idle" /\ call = "query" /\ calls = 0
  /\ records = <<>> /\ candidates = <<>> /\ tried = <<>>
  /\ lastError = "none" /\ stages = <<>>
  /\ made = 0 /\ open = {} /\ conn = NoConn
  /\ session = NoConn /\ alive = TRUE /\ root = "unread"
  /\ rows = 0 /\ fresh = TRUE /\ clear = FALSE /\ rejected = 0
  /\ result = "none"

-----------------------------------------------------------------------------
(***************************************************************************)
(* A call, and the servers it may connect to.                              *)
(***************************************************************************)
\* _ensure hands out the session; check always connects.
Begin(kind) ==
  /\ pc = "idle"
  /\ call' = kind
  /\ fresh' = (session = NoConn)
  /\ IF kind = "check" \/ session = NoConn THEN pc' = "locate" /\ result' = "none"
     ELSE IF kind = "query" THEN pc' = "base" /\ result' = "none"
     ELSE result' = "connected" /\ UNCHANGED pc
  /\ tried' = <<>> /\ candidates' = <<>> /\ records' = <<>>
  /\ lastError' = "none" /\ stages' = <<>> /\ rows' = 0 /\ rejected' = 0
  /\ UNCHANGED <<config, connections, state, clear>>

\* A Python caller makes any call.
Call ==
  /\ calls < MaxCalls
  /\ calls' = calls + 1
  /\ \E kind \in {"connect", "query", "check"} : Begin(kind)

\* _candidates with --server.
Explicit ==
  /\ pc = "locate" /\ ~config.discover
  /\ \E s \in Server : candidates' = <<s>>
  /\ pc' = "next"
  /\ UNCHANGED <<config, call, calls, records, tried, lastError, stages,
                 connections, state, rows, fresh, secrets, result>>

\* Record i is preferred to record j: by priority, weight and order.
Preferred(answer, i, j) ==
  LET p == answer[i]
      q == answer[j]
  IN \/ p.priority < q.priority
     \/ p.priority = q.priority /\ p.weight > q.weight
     \/ p.priority = q.priority /\ p.weight = q.weight /\ i < j

\* The hosts of an answer, each once, at the place of its preferred record.
IsOrdering(answer, hosts) ==
  /\ Range(hosts) = {answer[i].host : i \in DOMAIN answer}
  /\ IsInjective(hosts)
  /\ \A m, n \in DOMAIN hosts : m < n =>
       \E i \in DOMAIN answer :
         /\ answer[i].host = hosts[m]
         /\ \A j \in DOMAIN answer : answer[j].host = hosts[n] => Preferred(answer, i, j)

HostLists == UNION {[1 .. n -> Server] : n \in 1 .. Cardinality(Server)}

\* Mutant: the records are taken in the order of the answer.
UnsortedHosts(answer) ==
  {hosts \in HostLists :
     /\ Range(hosts) = {answer[i].host : i \in DOMAIN answer}
     /\ IsInjective(hosts)
     /\ hosts[1] = answer[1].host}

Hosts(answer) == {hosts \in HostLists : IsOrdering(answer, hosts)}

\* discover_dcs: the first of the two names that has a usable record.
Discover ==
  /\ pc \in {"locate", "fallback"} /\ config.discover
  /\ records' \in Answers
  /\ candidates' \in Hosts(records')
  /\ pc' = "next"
  /\ UNCHANGED <<config, call, calls, tried, lastError, stages, connections,
                 state, rows, fresh, secrets, result>>

Raise(e) == pc' = "idle" /\ result' = e

\* A DnsError, or an answer without a usable record.
DiscoverNothing ==
  /\ config.discover
  /\ \/ pc = "locate" /\ pc' = "fallback" /\ UNCHANGED result
     \/ pc = "fallback" /\ Raise("DiscoveryError")
  /\ UNCHANGED <<config, call, calls, connecting, stages, connections, state,
                 rows, fresh, secrets>>

\* Mutant: the stages of the candidate before are kept.
TryNextKeeps ==
  /\ pc = "next" /\ Len(tried) < Len(candidates)
  /\ tried' = Append(tried, candidates[Len(tried) + 1])
  /\ pc' = IF call = "check" /\ config.security = "ldaps" THEN "reach" ELSE "open"
  /\ UNCHANGED <<config, call, calls, records, candidates, lastError, stages,
                 connections, state, rows, fresh, secrets, result>>

TryNext ==
  /\ pc = "next" /\ Len(tried) < Len(candidates)
  /\ tried' = Append(tried, candidates[Len(tried) + 1])
  /\ stages' = <<>>
  /\ pc' = IF call = "check" /\ config.security = "ldaps" THEN "reach" ELSE "open"
  /\ UNCHANGED <<config, call, calls, records, candidates, lastError, connections,
                 state, rows, fresh, secrets, result>>

Exhausted ==
  /\ pc = "next" /\ Len(tried) = Len(candidates)
  /\ Raise(lastError)
  /\ UNCHANGED <<config, call, calls, connecting, stages, connections, state,
                 rows, fresh, secrets>>

-----------------------------------------------------------------------------
(***************************************************************************)
(* connect_session, with one candidate.                                    *)
(***************************************************************************)
At == tried[Len(tried)]

\* Mutant: every failure sends the call to the next candidate.
FailWithAny(e) ==
  /\ lastError' = e /\ pc' = "next"
  /\ UNCHANGED <<config, call, calls, records, candidates, tried, stages, state,
                 rows, fresh, result>>

\* A failure either ends the call or sends it to the next candidate.
FailWith(e) ==
  /\ IF e \in ReachError
       THEN lastError' = e /\ pc' = "next" /\ UNCHANGED result
       ELSE Raise(e) /\ UNCHANGED lastError
  /\ UNCHANGED <<config, call, calls, records, candidates, tried, stages, state,
                 rows, fresh>>

\* Only check asks for the stages.
Done(stage) == stages' = IF call = "check" THEN Append(stages, stage) ELSE stages

\* The staged check of an LDAPS port begins with a plain connection.
Reach ==
  /\ pc = "reach"
  /\ Done("reached")
  /\ pc' = "open"
  /\ UNCHANGED <<config, call, calls, connecting, connections, state, rows, fresh,
                 secrets, result>>

ReachFails ==
  /\ pc = "reach"
  /\ \E e \in ReachError \cup {"OSError"} : FailWith(e)
  /\ UNCHANGED <<connections, secrets>>

Open ==
  /\ pc = "open"
  /\ made' = made + 1
  /\ open' = open \cup {made'}
  /\ conn' = [id |-> made', server |-> At, tls |-> config.security = "ldaps"]
  /\ Done(IF config.security = "ldaps" THEN "secured" ELSE "reached")
  /\ pc' = IF config.security = "starttls" THEN "starttls" ELSE "bind"
  /\ UNCHANGED <<config, call, calls, connecting, state, rows, fresh, secrets, result>>

OpenFails ==
  /\ pc = "open"
  /\ \E e \in ConnectError : FailWith(e)
  /\ UNCHANGED <<connections, secrets>>

\* Any failure past the opening closes the connection first.
Unbind ==
  /\ open' = open \ {conn.id}
  /\ conn' = NoConn
  /\ UNCHANGED made

StartTls ==
  /\ pc = "starttls"
  /\ conn' = [conn EXCEPT !.tls = TRUE]
  /\ Done("secured")
  /\ pc' = "bind"
  /\ UNCHANGED <<config, call, calls, connecting, made, open, state, rows, fresh,
                 secrets, result>>

\* Mutant: a refused upgrade is ignored.
StartTlsIgnored ==
  /\ pc = "starttls"
  /\ pc' = "bind"
  /\ UNCHANGED <<config, call, calls, connecting, stages, connections, state, rows,
                 fresh, secrets, result>>

\* The upgrade raises, or the server answers that it cannot.
StartTlsFails ==
  /\ pc = "starttls"
  /\ \E e \in ConnectError \cup {"KeyboardInterrupt"} : FailWith(e)
  /\ Unbind
  /\ UNCHANGED secrets

SendPassword == clear' = (clear \/ (config.password /\ ~conn.tls))

\* A query or connect keeps the session; check looks first whether there is one.
Bind ==
  /\ pc = "bind"
  /\ SendPassword
  /\ Done("authenticated")
  /\ IF call = "check"
       THEN pc' = "adopt" /\ UNCHANGED <<conn, state, result>>
       ELSE /\ session' = conn /\ alive' = TRUE /\ root' = "unread"
            /\ conn' = NoConn
            /\ IF call = "query" THEN pc' = "base" /\ UNCHANGED result
               ELSE Raise("connected")
  /\ UNCHANGED <<config, call, calls, connecting, made, open, rows, fresh, rejected>>

\* Mutant: the connection of a rejected bind is forgotten.
BindFailsOpen ==
  /\ pc = "bind"
  /\ SendPassword
  /\ \E e \in ConnectError \cup {"AuthenticationFailed", "KeyboardInterrupt"} :
       /\ FailWith(e)
       /\ rejected' = IF e = "AuthenticationFailed" THEN rejected + 1 ELSE rejected
  /\ conn' = NoConn
  /\ UNCHANGED <<made, open>>

BindFails ==
  /\ pc = "bind"
  /\ SendPassword
  /\ \E e \in ConnectError \cup {"AuthenticationFailed", "KeyboardInterrupt"} :
       /\ FailWith(e)
       /\ rejected' = IF e = "AuthenticationFailed" THEN rejected + 1 ELSE rejected
  /\ Unbind

\* check keeps its connection, or drops it for the session that was there.
Adopt ==
  /\ pc = "adopt"
  /\ IF session = NoConn
       THEN /\ session' = conn /\ alive' = TRUE /\ root' = "unread"
            /\ conn' = NoConn
            /\ UNCHANGED <<made, open>>
       ELSE Unbind /\ UNCHANGED state
  /\ pc' = "info"
  /\ UNCHANGED <<config, call, calls, connecting, stages, rows, fresh, secrets, result>>

-----------------------------------------------------------------------------
(***************************************************************************)
(* What a call does with the session.                                      *)
(***************************************************************************)
\* _read_root_dse: read once and remembered, also when it could not be read.
ReadRoot ==
  IF root = "unread"
    THEN root' \in IF alive THEN {"known", "unknown"} ELSE {"unknown"}
    ELSE UNCHANGED root

\* server_info, the end of a check.
Info ==
  /\ pc = "info"
  /\ ReadRoot
  /\ Raise("report")
  /\ UNCHANGED <<config, call, calls, connecting, stages, connections, session,
                 alive, rows, fresh, secrets>>

\* Ctrl-C while the rootDSE is read: it counts as read.
RootInterrupted ==
  /\ pc \in {"info", "base"} /\ root = "unread"
  /\ root' = "unknown"
  /\ Raise("KeyboardInterrupt")
  /\ UNCHANGED <<config, call, calls, connecting, stages, connections, session,
                 alive, rows, fresh, secrets>>

\* default_base.  With --base-dn, or a name that is a distinguished name, the
\* rootDSE is not needed.
Base ==
  /\ pc = "base"
  /\ \/ pc' = "search" /\ UNCHANGED <<root, result>>
     \/ /\ ReadRoot
        /\ IF root' = "known"
             THEN pc' = "search" /\ UNCHANGED result
             ELSE Raise("AdError")
  /\ UNCHANGED <<config, call, calls, connecting, stages, connections, session,
                 alive, rows, fresh, secrets>>

\* One page; the answer is complete when its cookie is empty.
Page ==
  /\ pc = "search" /\ alive
  /\ rows' = rows + 1
  /\ \/ rows' < MaxPages /\ UNCHANGED <<pc, result>>
     \/ Raise("answer")
  /\ UNCHANGED <<config, call, calls, connecting, stages, connections, state,
                 fresh, secrets>>

SearchFails ==
  /\ pc = "search"
  /\ \E e \in ConnectError \cup {"KeyboardInterrupt"}
                 \cup IF alive THEN {"PermissionDenied"} ELSE {} : Raise(e)
  /\ UNCHANGED <<config, call, calls, connecting, stages, connections, state, rows,
                 fresh, secrets>>

Close ==
  /\ pc = "idle" /\ session # NoConn
  /\ open' = open \ {session.id}
  /\ session' = NoConn
  /\ result' = "none"
  /\ UNCHANGED <<config, pc, call, calls, connecting, stages, made, conn, alive, root,
                 rows, fresh, secrets>>

\* The server of the session goes away.
Vanish ==
  /\ session # NoConn /\ alive
  /\ alive' = FALSE
  /\ UNCHANGED <<config, pc, call, calls, connecting, stages, connections, session,
                 root, rows, fresh, secrets, result>>

-----------------------------------------------------------------------------
Locating == Explicit \/ Discover \/ DiscoverNothing \/ TryNext \/ Exhausted
Connecting == Reach \/ ReachFails \/ Open \/ OpenFails \/ StartTls \/ StartTlsFails
              \/ Bind \/ BindFails \/ Adopt
Using == Info \/ RootInterrupted \/ Base \/ Page \/ SearchFails

Next == Call \/ Locating \/ Connecting \/ Using \/ Close \/ Vanish

Spec == Init /\ [][Next]_vars

-----------------------------------------------------------------------------
(***************************************************************************)
(* Properties                                                              *)
(***************************************************************************)
Phase == {"idle", "locate", "fallback", "next", "reach", "open", "starttls", "bind",
          "adopt", "info", "base", "search"}

\* Types.
TypeOK ==
  /\ config \in Config /\ pc \in Phase /\ call \in {"connect", "query", "check"}
  /\ calls \in Nat /\ made \in Nat /\ rows \in Nat
  /\ candidates \in Seq(Server) /\ tried \in Seq(Server)
  /\ lastError \in ReachError \cup {"none"}
  /\ stages \in Seq(Stage)
  /\ open \subseteq 1 .. made
  /\ conn \in Connection \cup {NoConn} /\ session \in Connection \cup {NoConn}
  /\ alive \in BOOLEAN /\ fresh \in BOOLEAN /\ clear \in BOOLEAN /\ rejected \in Nat
  /\ root \in {"unread", "known", "unknown"}
  /\ result \in ConnectError \cup OtherError \cup {"none", "connected", "report", "answer"}

\* connect_session closes what it opened before it raises, check drops its
\* second connection, close drops the session: every open connection belongs
\* to the client, and between calls only its session is open.
ConnectionsOwned ==
  /\ TypeOK
  /\ open = {c.id : c \in {conn, session} \ {NoConn}}
  /\ pc = "idle" => conn = NoConn
  /\ conn # NoConn /\ session # NoConn => conn.id # session.id

\* specs/004-ad-diagnostics/spec.md, Cleartext protection: a password travels
\* unencrypted only when the caller has opted in.  And _connect_any rotates only
\* on reach failures: credentials that one server rejected are not tried on the
\* next, where they would count towards a lockout again.
CredentialsCovered ==
  /\ clear => config.cleartext /\ config.security = "plaintext"
  /\ rejected <= 1

\* research.md R4 and the comments of _connect_any: candidates are tried in the
\* order of their SRV records, none twice; and the caller hears that servers
\* cannot be reached only when that is so of every one of them.
TriedInOrder ==
  /\ IsInjective(tried)
  /\ records # <<>> =>
       \A m, n \in DOMAIN tried : m < n =>
         \E i \in DOMAIN records :
           /\ records[i].host = tried[m]
           /\ \A j \in DOMAIN records : records[j].host = tried[n] => Preferred(records, i, j)
  /\ pc = "idle" /\ result \in ReachError /\ (session = NoConn \/ call = "check") =>
       /\ \A s \in Range(candidates) : s \in Range(tried)
       /\ tried # <<>>

\* The stages in a report of check are those of one candidate and complete, and
\* they are those of the server it names when the client had no session before.
ReportTrue ==
  result = "report" =>
    /\ stages = IF config.security = "plaintext"
                  THEN <<"reached", "authenticated">>
                  ELSE <<"reached", "secured", "authenticated">>
    /\ fresh => session # NoConn /\ session.server = At
=============================================================================
