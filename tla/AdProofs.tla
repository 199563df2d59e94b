------------------------------ MODULE AdProofs ------------------------------
(***************************************************************************)
(* Proofs about AdSession and AdCommand, for any servers, SRV answers,     *)
(* configurations, names and calls: the connections of a client, what      *)
(* passwords travel over, the order of the candidates, the report of check *)
(* and what `user` says of an account.                                     *)
(***************************************************************************)
EXTENDS AdCommand, ExitCodeProofs, SequenceTheorems, TLAPS

Kind == {"connect", "query", "check"}

\* A step of the session, whoever makes it: the library, which counts its
\* calls, or a command, which does not.
SessionStep ==
  /\ calls' \in Nat
  /\ \/ \E kind \in Kind : Begin(kind)
     \/ Locating \/ Connecting \/ Using \/ Close \/ Vanish \/ UNCHANGED vars

\* Phases in which a connection is being set up, and in which a candidate is tried.
Setup == {"starttls", "bind", "adopt"}
Trying == {"reach", "open"} \cup Setup
Choosing == {"locate", "fallback", "next"}

\* What is there in which phase.
Phased ==
  /\ conn # NoConn <=> pc \in Setup
  /\ pc \in Trying => tried # <<>>
  /\ pc \in {"adopt", "info"} => call = "check"
  /\ pc \in {"base", "search"} => call = "query"
  /\ pc \in {"base", "search", "info"} => session # NoConn
  /\ pc \in Choosing \cup Trying /\ session # NoConn => call = "check"

\* Who owns which connection.
Owned ==
  /\ \A n : n \in open <=> (conn # NoConn /\ n = conn.id) \/ (session # NoConn /\ n = session.id)
  /\ conn # NoConn /\ session # NoConn => conn.id # session.id

\* When a password is sent, the connection is encrypted unless it was not to be.
Guarded ==
  /\ pc = "starttls" => config.security = "starttls"
  /\ pc = "bind" => (conn.tls <=> config.security # "plaintext")
  /\ clear => config.cleartext /\ config.security = "plaintext"
  /\ pc # "idle" => rejected = 0
  /\ rejected <= 1

\* The candidates, and how far the call has come with them.
Routed ==
  /\ records # <<>> => IsOrdering(records, candidates)
  /\ IsInjective(candidates)
  /\ Len(tried) <= Len(candidates)
  /\ \A i \in 1 .. Len(tried) : tried[i] = candidates[i]

Walked ==
  /\ pc \in {"locate", "fallback"} => candidates = <<>> /\ tried = <<>> /\ records = <<>>
  /\ pc = "next" => candidates # <<>>
  /\ pc = "idle" /\ result \in ReachError /\ (session = NoConn \/ call = "check") =>
       Len(tried) = Len(candidates) /\ tried # <<>>

Complete == IF config.security = "plaintext" THEN <<"reached", "authenticated">>
            ELSE <<"reached", "secured", "authenticated">>

\* The stages that a check has completed, phase by phase.
Staged ==
  /\ pc # "idle" => result = "none"
  /\ pc = "reach" => config.security = "ldaps"
  /\ call = "check" =>
       /\ pc = "reach" => stages = <<>>
       /\ pc = "open" => stages = IF config.security = "ldaps" THEN <<"reached">> ELSE <<>>
       /\ pc = "starttls" => stages = <<"reached">>
       /\ pc = "bind" => stages = IF config.security = "plaintext" THEN <<"reached">>
                                  ELSE <<"reached", "secured">>
  /\ pc \in {"adopt", "info"} \/ result = "report" => stages = Complete

\* Whose they are: those of the session, when there was none before.
Whose ==
  /\ conn # NoConn => conn.server = At
  /\ pc \in Choosing \cup Trying => (fresh <=> session = NoConn)
  /\ (pc = "info" \/ result = "report") /\ fresh => session # NoConn /\ session.server = At

SessionInv == TypeOK /\ Phased /\ Owned /\ Guarded /\ Routed /\ Walked /\ Staged /\ Whose

Errors == ConnectError \cup OtherError
-----------------------------------------------------------------------------
(***************************************************************************)
(* Types.                                                                  *)
(***************************************************************************)
\* An ordering of an answer is a sequence of servers, each once.
LEMMA HostsType ==
  ASSUME NEW answer, NEW hosts \in Hosts(answer)
  PROVE  /\ hosts \in Seq(Server) /\ hosts # <<>>
         /\ IsInjective(hosts) /\ IsOrdering(answer, hosts)
<1>1. hosts \in HostLists /\ IsOrdering(answer, hosts)
  BY DEF Hosts
<1>2. PICK n \in 1 .. Cardinality(Server) : hosts \in [1 .. n -> Server]
  BY <1>1 DEF HostLists
<1>3. n \in Nat /\ n > 0
  BY <1>2
<1>4. hosts \in Seq(Server) /\ Len(hosts) = n
  BY <1>2, <1>3
<1>. QED BY <1>1, <1>3, <1>4 DEF IsOrdering

\* A failure ends the call or sends it to the next candidate.
LEMMA FailSplit ==
  ASSUME NEW e \in Errors, FailWith(e)
  PROVE  /\ UNCHANGED <<config, call, calls, records, candidates, tried, stages, state,
                         rows, fresh>>
         /\ \/ e \in ReachError /\ lastError' = e /\ pc' = "next" /\ result' = result
            \/ e \notin ReachError /\ lastError' = lastError /\ pc' = "idle" /\ result' = e
BY DEF FailWith, Raise

LEMMA FailType ==
  ASSUME TypeOK, NEW e \in Errors, FailWith(e)
  PROVE  /\ pc' \in {"next", "idle"} /\ lastError' \in ReachError \cup {"none"}
         /\ result' \in Errors \cup {"none", "connected", "report", "answer"}
         /\ config' \in Config /\ call' \in Kind /\ calls' \in Nat /\ rows' \in Nat
         /\ candidates' \in Seq(Server) /\ tried' \in Seq(Server) /\ stages' \in Seq(Stage)
         /\ session' \in Connection \cup {NoConn} /\ alive' \in BOOLEAN
         /\ fresh' \in BOOLEAN /\ root' \in {"unread", "known", "unknown"}
BY FailSplit DEF TypeOK, Errors, Kind, state

\* The stages so far, and the last candidate.
LEMMA DoneType ==
  ASSUME TypeOK, NEW s \in Stage, Done(s)
  PROVE  stages' \in Seq(Stage)
BY DEF TypeOK, Done

LEMMA AtType ==
  ASSUME TypeOK, tried # <<>>
  PROVE  At \in Server
BY DEF TypeOK, At

LEMMA TypeStep ==
  ASSUME TypeOK, Phased, SessionStep
  PROVE  TypeOK'
<1> USE DEF connecting, connections, state, secrets
<1>0. calls' \in Nat
  BY DEF SessionStep
<1>1. ASSUME NEW kind \in Kind, Begin(kind)
      PROVE  TypeOK'
  <2>1. fresh' \in BOOLEAN
    BY <1>1, Zenon DEF Begin
  <2>. QED BY <1>1, <1>0, <2>1 DEF Begin, TypeOK, Phase, Kind, OtherError
<1>2. ASSUME Explicit
      PROVE  TypeOK'
  BY <1>2, <1>0 DEF Explicit, TypeOK, Phase
<1>3. ASSUME Discover
      PROVE  TypeOK'
  <2>1. candidates' \in Seq(Server)
    BY <1>3, HostsType DEF Discover
  <2>. QED BY <1>3, <1>0, <2>1 DEF Discover, TypeOK, Phase
<1>4. ASSUME DiscoverNothing
      PROVE  TypeOK'
  BY <1>4, <1>0 DEF DiscoverNothing, Raise, TypeOK, Phase, OtherError
<1>5. ASSUME TryNext
      PROVE  TypeOK'
  <2>1. tried' \in Seq(Server)
    BY <1>5 DEF TryNext, TypeOK
  <2>2. stages' \in Seq(Stage)
    BY <1>5 DEF TryNext
  <2>. QED BY <1>5, <1>0, <2>1, <2>2 DEF TryNext, TypeOK, Phase
<1>6. ASSUME Exhausted
      PROVE  TypeOK'
  BY <1>6, <1>0 DEF Exhausted, Raise, TypeOK, Phase, ConnectError
<1>7. ASSUME Reach
      PROVE  TypeOK'
  <2>1. stages' \in Seq(Stage)
    BY <1>7, DoneType DEF Reach, Stage
  <2>. QED BY <1>7, <1>0, <2>1 DEF Reach, TypeOK, Phase
<1>8. ASSUME ReachFails
      PROVE  TypeOK'
  <2>1. PICK e \in Errors : FailWith(e)
    BY <1>8 DEF ReachFails, Errors, ConnectError, OtherError
  <2>. QED BY <1>8, <2>1, FailType DEF ReachFails, TypeOK, Phase, Errors, Kind
<1>9. ASSUME Open
      PROVE  TypeOK'
  <2>1. stages' \in Seq(Stage)
    BY <1>9, DoneType DEF Open, Stage
  <2>2. At \in Server
    BY <1>9, AtType DEF Open, Phased, Trying
  <2>3. made' \in Nat /\ made' = made + 1
    BY <1>9 DEF Open, TypeOK
  <2>4. open' \subseteq 1 .. made'
    BY <1>9, <2>3 DEF Open, TypeOK
  <2>5. conn' \in Connection
    BY <1>9, <2>2, <2>3 DEF Open, Connection
  <2>. QED BY <1>9, <1>0, <2>1, <2>3, <2>4, <2>5 DEF Open, TypeOK, Phase
<1>10. ASSUME OpenFails
       PROVE  TypeOK'
  <2>1. PICK e \in Errors : FailWith(e)
    BY <1>10 DEF OpenFails, Errors
  <2>. QED BY <1>10, <2>1, FailType DEF OpenFails, TypeOK, Phase, Errors, Kind
<1>11. ASSUME StartTls
       PROVE  TypeOK'
  <2>1. stages' \in Seq(Stage)
    BY <1>11, DoneType DEF StartTls, Stage
  <2>2. conn' \in Connection
    BY <1>11 DEF StartTls, Phased, Setup, TypeOK, Connection
  <2>. QED BY <1>11, <1>0, <2>1, <2>2 DEF StartTls, TypeOK, Phase
<1>12. ASSUME StartTlsFails
       PROVE  TypeOK'
  <2>1. PICK e \in Errors : FailWith(e)
    BY <1>12 DEF StartTlsFails, Errors, OtherError
  <2>. QED BY <1>12, <2>1, FailType DEF StartTlsFails, Unbind, TypeOK, Phase, Errors, Kind
<1>13. ASSUME Bind
       PROVE  TypeOK'
  <2>1. stages' \in Seq(Stage)
    BY <1>13, DoneType DEF Bind, Stage
  <2>2. clear' \in BOOLEAN
    BY <1>13, Zenon DEF Bind, SendPassword
  <2>. QED BY <1>13, <1>0, <2>1, <2>2 DEF Bind, Raise, TypeOK, Phase
<1>14. ASSUME BindFails
       PROVE  TypeOK'
  <2>1. PICK e \in Errors : FailWith(e)
    BY <1>14 DEF BindFails, Errors, OtherError
  <2>2. clear' \in BOOLEAN
    BY <1>14, Zenon DEF BindFails, SendPassword
  <2>3. rejected' \in Nat
    BY <1>14 DEF BindFails, TypeOK
  <2>. QED BY <1>14, <2>1, <2>2, <2>3, FailType DEF BindFails, Unbind, TypeOK, Phase, Errors, Kind
<1>15. ASSUME Adopt
       PROVE  TypeOK'
  <2>1. CASE session = NoConn
    BY <1>15, <1>0, <2>1 DEF Adopt, TypeOK, Phase
  <2>2. CASE session # NoConn
    BY <1>15, <1>0, <2>2 DEF Adopt, Unbind, TypeOK, Phase
  <2>. QED BY <2>1, <2>2
<1>16. ASSUME Info
       PROVE  TypeOK'
  BY <1>16, <1>0 DEF Info, Raise, ReadRoot, TypeOK, Phase
<1>17. ASSUME RootInterrupted
       PROVE  TypeOK'
  BY <1>17, <1>0 DEF RootInterrupted, Raise, TypeOK, Phase, OtherError
<1>18. ASSUME Base
       PROVE  TypeOK'
  BY <1>18, <1>0 DEF Base, Raise, ReadRoot, TypeOK, Phase, ConnectError
<1>19. ASSUME Page
       PROVE  TypeOK'
  BY <1>19, <1>0 DEF Page, Raise, TypeOK, Phase
<1>20. ASSUME SearchFails
       PROVE  TypeOK'
  BY <1>20, <1>0 DEF SearchFails, Raise, TypeOK, Phase, OtherError
<1>21. ASSUME Close
       PROVE  TypeOK'
  BY <1>21, <1>0 DEF Close, TypeOK
<1>22. ASSUME Vanish
       PROVE  TypeOK'
  BY <1>22, <1>0 DEF Vanish, TypeOK
<1>23. ASSUME UNCHANGED vars
       PROVE  TypeOK'
  BY <1>23, <1>0 DEF vars, TypeOK
<1>. QED
  BY <1>1, <1>2, <1>3, <1>4, <1>5, <1>6, <1>7, <1>8, <1>9, <1>10, <1>11,
     <1>12, <1>13, <1>14, <1>15, <1>16, <1>17, <1>18, <1>19, <1>20, <1>21,
     <1>22, <1>23
     DEF SessionStep, Locating, Connecting, Using

-----------------------------------------------------------------------------
(***************************************************************************)
(* What holds in each phase, part by part.                                 *)
(***************************************************************************)
LEMMA PhasedStep ==
  ASSUME TypeOK, Phased, SessionStep
  PROVE  Phased'
<1>c. NoConn \notin Connection
  BY ConnectionAssumption
<1> USE DEF connecting, connections, state, secrets, Phased, Setup, Trying, Choosing
<1>1. ASSUME NEW kind \in Kind, Begin(kind)
      PROVE  Phased'
  BY <1>1, <1>c DEF Begin, TypeOK
<1>2. ASSUME Explicit
      PROVE  Phased'
  BY <1>2, <1>c DEF Explicit, TypeOK
<1>3. ASSUME Discover
      PROVE  Phased'
  BY <1>3, <1>c DEF Discover, TypeOK
<1>4. ASSUME DiscoverNothing
      PROVE  Phased'
  BY <1>4, <1>c DEF DiscoverNothing, Raise, TypeOK
<1>5. ASSUME TryNext
      PROVE  Phased'
  <2>1. tried' # <<>>
    BY <1>5 DEF TryNext, TypeOK
  <2>. QED BY <1>5, <2>1 DEF TryNext, TypeOK
<1>6. ASSUME Exhausted
      PROVE  Phased'
  BY <1>6, <1>c DEF Exhausted, Raise, TypeOK
<1>7. ASSUME Reach
      PROVE  Phased'
  BY <1>7, <1>c DEF Reach, Done, TypeOK
<1>8. ASSUME ReachFails
      PROVE  Phased'
  <2>1. PICK e \in Errors : FailWith(e)
    BY <1>8 DEF ReachFails, Errors, ConnectError, OtherError
  <2>. QED BY <1>8, <2>1, FailSplit DEF ReachFails, TypeOK, state, Errors
<1>9. ASSUME Open
      PROVE  Phased'
  <2>1. conn' # NoConn
    <3>1. At \in Server /\ made' \in Nat
      BY <1>9, AtType DEF Open, TypeOK
    <3>2. conn' \in Connection
      BY <1>9, <3>1 DEF Open, Connection
    <3>. QED BY <3>2, <1>c
  <2>. QED BY <1>9, <2>1 DEF Open, TypeOK
<1>10. ASSUME OpenFails
       PROVE  Phased'
  <2>1. PICK e \in Errors : FailWith(e)
    BY <1>10 DEF OpenFails, Errors, ConnectError, OtherError
  <2>. QED BY <1>10, <2>1, FailSplit DEF OpenFails, TypeOK, state, Errors
<1>11. ASSUME StartTls
       PROVE  Phased'
  <2>1. conn' # NoConn
    <3>1. conn' \in Connection
      BY <1>11 DEF StartTls, TypeOK, Connection
    <3>. QED BY <3>1, <1>c
  <2>. QED BY <1>11, <2>1 DEF StartTls, TypeOK
<1>12. ASSUME StartTlsFails
       PROVE  Phased'
  <2>1. PICK e \in Errors : FailWith(e)
    BY <1>12 DEF StartTlsFails, Errors, ConnectError, OtherError
  <2>. QED BY <1>12, <2>1, FailSplit DEF StartTlsFails, Unbind, TypeOK, state, Errors
<1>13. ASSUME Bind
       PROVE  Phased'
  BY <1>13, <1>c DEF Bind, Done, SendPassword, Raise, TypeOK
<1>14. ASSUME BindFails
       PROVE  Phased'
  <2>1. PICK e \in Errors : FailWith(e)
    BY <1>14 DEF BindFails, Errors, ConnectError, OtherError
  <2>. QED BY <1>14, <2>1, FailSplit DEF BindFails, Unbind, TypeOK, state, Errors
<1>15. ASSUME Adopt
       PROVE  Phased'
  BY <1>15, <1>c DEF Adopt, Unbind, TypeOK
<1>16. ASSUME Info
       PROVE  Phased'
  BY <1>16, <1>c DEF Info, Raise, ReadRoot, TypeOK
<1>17. ASSUME RootInterrupted
       PROVE  Phased'
  BY <1>17, <1>c DEF RootInterrupted, Raise, TypeOK
<1>18. ASSUME Base
       PROVE  Phased'
  BY <1>18, <1>c DEF Base, Raise, ReadRoot, TypeOK
<1>19. ASSUME Page
       PROVE  Phased'
  BY <1>19, <1>c DEF Page, Raise, TypeOK
<1>20. ASSUME SearchFails
       PROVE  Phased'
  BY <1>20, <1>c DEF SearchFails, Raise, TypeOK
<1>21. ASSUME Close
       PROVE  Phased'
  BY <1>21, <1>c DEF Close, TypeOK
<1>22. ASSUME Vanish
       PROVE  Phased'
  BY <1>22, <1>c DEF Vanish, TypeOK
<1>23. ASSUME UNCHANGED vars
       PROVE  Phased'
  BY <1>23, <1>c DEF vars, TypeOK
<1>. QED
  BY <1>1, <1>2, <1>3, <1>4, <1>5, <1>6, <1>7, <1>8, <1>9, <1>10, <1>11,
     <1>12, <1>13, <1>14, <1>15, <1>16, <1>17, <1>18, <1>19, <1>20, <1>21,
     <1>22, <1>23
     DEF SessionStep, Locating, Connecting, Using

LEMMA OwnedStep ==
  ASSUME TypeOK, Phased, Owned, SessionStep
  PROVE  Owned'
<1>c. NoConn \notin Connection
  BY ConnectionAssumption
<1> USE DEF connecting, connections, state, secrets, Owned
<1>1. ASSUME ReachFails
      PROVE  Owned'
  <2>1. PICK e \in Errors : FailWith(e)
    BY <1>1 DEF ReachFails, Errors, ConnectError, OtherError
  <2>. QED BY <1>1, <2>1, FailSplit DEF ReachFails, TypeOK, state, Phased, Setup
<1>2. ASSUME Open
      PROVE  Owned'
  <2>1. conn = NoConn /\ made' \notin open /\ open' = open \cup {made'}
    BY <1>2 DEF Open, TypeOK, Phased, Setup
  <2>2. conn'.id = made' /\ session' = session
    BY <1>2 DEF Open
  <2>3. conn' # NoConn
    BY <1>2, PhasedStep DEF Phased, Setup, Open, SessionStep, Connecting
  <2>. QED BY <2>1, <2>2, <2>3
<1>3. ASSUME OpenFails
      PROVE  Owned'
  <2>1. PICK e \in Errors : FailWith(e)
    BY <1>3 DEF OpenFails, Errors, ConnectError, OtherError
  <2>. QED BY <1>3, <2>1, FailSplit DEF OpenFails, TypeOK, state, Phased, Setup
<1>4. ASSUME StartTls
      PROVE  Owned'
  <2>1. conn' # NoConn /\ conn'.id = conn.id /\ conn # NoConn
    <3>1. conn \in Connection /\ conn' \in Connection /\ conn'.id = conn.id
      BY <1>4 DEF StartTls, TypeOK, Connection, Phased, Setup
    <3>. QED BY <3>1, <1>c
  <2>. QED BY <1>4, <2>1 DEF StartTls
<1>5. ASSUME StartTlsFails
      PROVE  Owned'
  <2>1. PICK e \in Errors : FailWith(e)
    BY <1>5 DEF StartTlsFails, Errors, ConnectError, OtherError
  <2>. QED BY <1>5, <2>1, FailSplit DEF StartTlsFails, Unbind, TypeOK, state, Phased, Setup
<1>6. ASSUME Bind
      PROVE  Owned'
  <2>1. conn # NoConn /\ (session # NoConn => call = "check")
    BY <1>6 DEF Bind, Phased, Setup, Trying
  <2>. QED BY <1>6, <2>1 DEF Bind, Raise
<1>7. ASSUME BindFails
      PROVE  Owned'
  <2>1. PICK e \in Errors : FailWith(e)
    BY <1>7 DEF BindFails, Errors, ConnectError, OtherError
  <2>. QED BY <1>7, <2>1, FailSplit DEF BindFails, Unbind, TypeOK, state, Phased, Setup
<1>8. ASSUME Adopt
      PROVE  Owned'
  <2>1. conn # NoConn
    BY <1>8 DEF Adopt, Phased, Setup
  <2>. QED BY <1>8, <2>1 DEF Adopt, Unbind
<1>9. ASSUME Close
      PROVE  Owned'
  BY <1>9, <1>c DEF Close, TypeOK
<1>10. ASSUME (\E kind \in Kind : Begin(kind)) \/ Explicit \/ Discover
              \/ DiscoverNothing \/ TryNext \/ Exhausted \/ Reach \/ Info
              \/ RootInterrupted \/ Base \/ Page \/ SearchFails \/ Vanish
              \/ UNCHANGED vars
       PROVE  Owned'
  BY <1>10, <1>c DEF Begin, Explicit, Discover, DiscoverNothing, Raise, TryNext,
     Exhausted, Reach, Done, Info, ReadRoot, RootInterrupted, Base, Page,
     SearchFails, Vanish, vars, TypeOK
<1>. QED
  BY <1>1, <1>2, <1>3, <1>4, <1>5, <1>6, <1>7, <1>8, <1>9, <1>10
     DEF SessionStep, Locating, Connecting, Using

LEMMA GuardedStep ==
  ASSUME TypeOK, Phased, Guarded, SessionStep
  PROVE  Guarded'
<1> USE DEF connecting, connections, state, secrets, Guarded
<1>1. ASSUME NEW kind \in Kind, Begin(kind)
      PROVE  Guarded'
  BY <1>1 DEF Begin, TypeOK
<1>2. ASSUME ReachFails
      PROVE  Guarded'
  <2>1. PICK e \in Errors : FailWith(e)
    BY <1>2 DEF ReachFails, Errors, ConnectError, OtherError
  <2>. QED BY <1>2, <2>1, FailSplit DEF ReachFails, TypeOK, state
<1>3. ASSUME Open
      PROVE  Guarded'
  <2>1. conn'.tls = (config.security = "ldaps") /\ config.security \in Security
    BY <1>3 DEF Open, TypeOK, Config
  <2>. QED BY <1>3, <2>1 DEF Open, Security
<1>4. ASSUME OpenFails
      PROVE  Guarded'
  <2>1. PICK e \in Errors : FailWith(e)
    BY <1>4 DEF OpenFails, Errors, ConnectError, OtherError
  <2>. QED BY <1>4, <2>1, FailSplit DEF OpenFails, TypeOK, state
<1>5. ASSUME StartTls
      PROVE  Guarded'
  <2>1. conn'.tls = TRUE
    BY <1>5 DEF StartTls, TypeOK, Connection, Phased, Setup
  <2>2. config.security # "plaintext"
    BY <1>5 DEF StartTls
  <2>. QED BY <1>5, <2>1, <2>2 DEF StartTls
<1>6. ASSUME StartTlsFails
      PROVE  Guarded'
  <2>1. PICK e \in Errors : FailWith(e)
    BY <1>6 DEF StartTlsFails, Errors, ConnectError, OtherError
  <2>. QED BY <1>6, <2>1, FailSplit DEF StartTlsFails, Unbind, TypeOK, state
<1>7. ASSUME Bind
      PROVE  Guarded'
  <2>1. config.password /\ config.security = "plaintext" => config.cleartext
    BY DEF TypeOK, Config
  <2>2. clear' = (clear \/ (config.password /\ ~conn.tls)) /\ config' = config /\ pc' # "bind"
    BY <1>7 DEF Bind, SendPassword, Raise
  <2>3. rejected' = rejected /\ pc' # "starttls" /\ pc = "bind"
    BY <1>7 DEF Bind, Raise
  <2>. QED BY <2>1, <2>2, <2>3
<1>8. ASSUME BindFails
      PROVE  Guarded'
  <2>1. PICK e \in Errors :
          /\ FailWith(e)
          /\ rejected' = IF e = "AuthenticationFailed" THEN rejected + 1 ELSE rejected
    BY <1>8 DEF BindFails, Errors, OtherError
  <2>2. e = "AuthenticationFailed" => e \notin ReachError
    BY DEF ReachError
  <2>3. rejected = 0 /\ rejected' \in {0, 1} /\ pc' \in {"idle", "next"}
        /\ (pc' # "idle" => rejected' = 0) /\ config' = config
    BY <1>8, <2>1, <2>2, FailSplit DEF BindFails
  <2>4. config.password /\ config.security = "plaintext" => config.cleartext
    BY DEF TypeOK, Config
  <2>5. (clear' => clear \/ (config.password /\ ~conn.tls)) /\ pc = "bind"
    BY <1>8 DEF BindFails, SendPassword
  <2>6. clear' => config.cleartext /\ config.security = "plaintext"
    BY <2>4, <2>5
  <2>7. pc' # "bind" /\ pc' # "starttls"
    BY <2>3
  <2>. QED BY <2>3, <2>6, <2>7
<1>9. ASSUME Explicit \/ Discover \/ DiscoverNothing \/ TryNext
             \/ Exhausted \/ Reach \/ Adopt \/ Info \/ RootInterrupted
             \/ Base \/ Page \/ SearchFails \/ Close \/ Vanish
             \/ UNCHANGED vars
      PROVE  Guarded'
  BY <1>9 DEF Explicit, Discover, DiscoverNothing, Raise, TryNext, Exhausted,
     Reach, Done, Adopt, Unbind, Info, ReadRoot, RootInterrupted, Base, Page,
     SearchFails, Close, Vanish, vars, TypeOK
<1>. QED
  BY <1>1, <1>2, <1>3, <1>4, <1>5, <1>6, <1>7, <1>8, <1>9
     DEF SessionStep, Locating, Connecting, Using

LEMMA RoutedStep ==
  ASSUME TypeOK, Routed, Walked, SessionStep
  PROVE  Routed'
<1> USE DEF connecting, connections, state, secrets
<1>s. ASSUME UNCHANGED <<records, candidates, tried>>
      PROVE  Routed'
  BY <1>s DEF Routed
<1>1. ASSUME NEW kind \in Kind, Begin(kind)
      PROVE  Routed'
  <2>1. records' = <<>> /\ candidates' = <<>> /\ tried' = <<>>
    BY <1>1 DEF Begin
  <2>. QED BY <2>1 DEF Routed, IsInjective
<1>2. ASSUME Explicit
      PROVE  Routed'
  <2>1. PICK s \in Server : candidates' = <<s>>
    BY <1>2 DEF Explicit
  <2>2. records' = <<>> /\ tried' = <<>>
    BY <1>2 DEF Explicit, Walked
  <2>. QED BY <2>1, <2>2 DEF Routed, IsInjective
<1>3. ASSUME Discover
      PROVE  Routed'
  <2>1. tried' = <<>>
    BY <1>3 DEF Discover, Walked
  <2>2. IsInjective(candidates') /\ IsOrdering(records', candidates') /\ candidates' \in Seq(Server)
    BY <1>3, HostsType DEF Discover
  <2>. QED BY <2>1, <2>2 DEF Routed
<1>4. ASSUME DiscoverNothing
      PROVE  Routed'
  BY <1>4, <1>s DEF DiscoverNothing, Raise
<1>5. ASSUME TryNext
      PROVE  Routed'
  <2>1. /\ tried' \in Seq(Server) /\ Len(tried') = Len(tried) + 1
        /\ \A i \in 1 .. Len(tried) : tried'[i] = tried[i]
        /\ tried'[Len(tried) + 1] = candidates[Len(tried) + 1]
    BY <1>5 DEF TryNext, TypeOK
  <2>2. records' = records /\ candidates' = candidates /\ Len(tried) < Len(candidates)
    BY <1>5 DEF TryNext
  <2>3. Len(tried) \in Nat /\ Len(candidates) \in Nat
    BY DEF TypeOK
  <2>. QED BY <2>1, <2>2, <2>3 DEF Routed
<1>6. ASSUME Exhausted
      PROVE  Routed'
  BY <1>6, <1>s DEF Exhausted, Raise
<1>7. ASSUME Reach
      PROVE  Routed'
  BY <1>7, <1>s DEF Reach, Done
<1>8. ASSUME ReachFails
      PROVE  Routed'
  <2>1. PICK e \in Errors : FailWith(e)
    BY <1>8 DEF ReachFails, Errors, ConnectError, OtherError
  <2>. QED BY <2>1, FailSplit, <1>s
<1>9. ASSUME Open
      PROVE  Routed'
  BY <1>9, <1>s DEF Open, Done
<1>10. ASSUME OpenFails
       PROVE  Routed'
  <2>1. PICK e \in Errors : FailWith(e)
    BY <1>10 DEF OpenFails, Errors, ConnectError, OtherError
  <2>. QED BY <2>1, FailSplit, <1>s
<1>11. ASSUME StartTls
       PROVE  Routed'
  BY <1>11, <1>s DEF StartTls, Done
<1>12. ASSUME StartTlsFails
       PROVE  Routed'
  <2>1. PICK e \in Errors : FailWith(e)
    BY <1>12 DEF StartTlsFails, Errors, ConnectError, OtherError
  <2>. QED BY <2>1, FailSplit, <1>s
<1>13. ASSUME Bind
       PROVE  Routed'
  BY <1>13, <1>s DEF Bind, Done, SendPassword, Raise
<1>14. ASSUME BindFails
       PROVE  Routed'
  <2>1. PICK e \in Errors : FailWith(e)
    BY <1>14 DEF BindFails, Errors, ConnectError, OtherError
  <2>. QED BY <2>1, FailSplit, <1>s
<1>15. ASSUME Adopt
       PROVE  Routed'
  BY <1>15, <1>s DEF Adopt, Unbind
<1>16. ASSUME Info
       PROVE  Routed'
  BY <1>16, <1>s DEF Info, Raise, ReadRoot
<1>17. ASSUME RootInterrupted
       PROVE  Routed'
  BY <1>17, <1>s DEF RootInterrupted, Raise
<1>18. ASSUME Base
       PROVE  Routed'
  BY <1>18, <1>s DEF Base, Raise, ReadRoot
<1>19. ASSUME Page
       PROVE  Routed'
  BY <1>19, <1>s DEF Page, Raise
<1>20. ASSUME SearchFails
       PROVE  Routed'
  BY <1>20, <1>s DEF SearchFails, Raise
<1>21. ASSUME Close
       PROVE  Routed'
  BY <1>21, <1>s DEF Close
<1>22. ASSUME Vanish
       PROVE  Routed'
  BY <1>22, <1>s DEF Vanish
<1>23. ASSUME UNCHANGED vars
       PROVE  Routed'
  BY <1>23, <1>s DEF vars
<1>. QED
  BY <1>1, <1>2, <1>3, <1>4, <1>5, <1>6, <1>7, <1>8, <1>9, <1>10, <1>11,
     <1>12, <1>13, <1>14, <1>15, <1>16, <1>17, <1>18, <1>19, <1>20, <1>21,
     <1>22, <1>23
     DEF SessionStep, Locating, Connecting, Using

LEMMA WalkedStep ==
  ASSUME TypeOK, Phased, Routed, Walked, SessionStep
  PROVE  Walked'
<1> USE DEF connecting, connections, state, secrets, Walked
<1>1. ASSUME NEW kind \in Kind, Begin(kind)
      PROVE  Walked'
  BY <1>1 DEF Begin, ReachError
<1>2. ASSUME Explicit
      PROVE  Walked'
  BY <1>2 DEF Explicit, ReachError
<1>3. ASSUME Discover
      PROVE  Walked'
  <2>1. candidates' # <<>> /\ pc' = "next"
    BY <1>3, HostsType DEF Discover
  <2>. QED BY <2>1
<1>4. ASSUME TryNext
      PROVE  Walked'
  BY <1>4 DEF TryNext, ReachError
<1>5. ASSUME Exhausted
      PROVE  Walked'
  <2>1. Len(tried) = Len(candidates) /\ candidates # <<>>
    BY <1>5 DEF Exhausted
  <2>2. tried # <<>>
    BY <2>1 DEF TypeOK
  <2>. QED BY <1>5, <2>1, <2>2 DEF Exhausted, Raise
<1>6. ASSUME ReachFails
      PROVE  Walked'
  <2>1. PICK e \in Errors : FailWith(e)
    BY <1>6 DEF ReachFails, Errors, ConnectError, OtherError
  <2>2. candidates # <<>>
    BY <1>6 DEF ReachFails, Phased, Trying, Setup, Routed, TypeOK
  <2>. QED BY <1>6, <2>1, <2>2, FailSplit DEF state
<1>7. ASSUME OpenFails
      PROVE  Walked'
  <2>1. PICK e \in Errors : FailWith(e)
    BY <1>7 DEF OpenFails, Errors, ConnectError, OtherError
  <2>2. candidates # <<>>
    BY <1>7 DEF OpenFails, Phased, Trying, Setup, Routed, TypeOK
  <2>. QED BY <1>7, <2>1, <2>2, FailSplit DEF state
<1>8. ASSUME StartTlsFails
      PROVE  Walked'
  <2>1. PICK e \in Errors : FailWith(e)
    BY <1>8 DEF StartTlsFails, Errors, ConnectError, OtherError
  <2>2. candidates # <<>>
    BY <1>8 DEF StartTlsFails, Phased, Trying, Setup, Routed, TypeOK
  <2>. QED BY <1>8, <2>1, <2>2, FailSplit DEF state
<1>9. ASSUME Bind
      PROVE  Walked'
  <2>1. (result' = result /\ pc' # "idle") \/ result' = "connected"
    BY <1>9 DEF Bind, Raise
  <2>2. pc' \in {"adopt", "base", "idle"}
    BY <1>9 DEF Bind, Raise
  <2>. QED BY <2>1, <2>2 DEF ReachError
<1>10. ASSUME BindFails
       PROVE  Walked'
  <2>1. PICK e \in Errors : FailWith(e)
    BY <1>10 DEF BindFails, Errors, ConnectError, OtherError
  <2>2. candidates # <<>>
    BY <1>10 DEF BindFails, Phased, Trying, Setup, Routed, TypeOK
  <2>. QED BY <1>10, <2>1, <2>2, FailSplit DEF state
<1>11. ASSUME SearchFails
       PROVE  Walked'
  <2>1. session' = session /\ session # NoConn /\ call' = "query" /\ pc' = "idle"
    BY <1>11 DEF SearchFails, Raise, Phased
  <2>. QED BY <2>1
<1>12. ASSUME DiscoverNothing \/ Reach \/ Open \/ StartTls \/ Adopt
              \/ Info \/ RootInterrupted \/ Base \/ Page \/ Close
              \/ Vanish \/ UNCHANGED vars
       PROVE  Walked'
  BY <1>12 DEF DiscoverNothing, Raise, Reach, Done, Open, StartTls, Adopt,
     Unbind, Info, ReadRoot, RootInterrupted, Base, Page, Close, Vanish, vars,
     ReachError
<1>. QED
  BY <1>1, <1>2, <1>3, <1>4, <1>5, <1>6, <1>7, <1>8, <1>9, <1>10, <1>11, <1>12
     DEF SessionStep, Locating, Connecting, Using

LEMMA AppendPair ==
  ASSUME NEW a, NEW b
  PROVE  Append(<<a>>, b) = <<a, b>>
<1> DEFINE S == {a, b}
           s == <<a>>
           t == <<a, b>>
           u == Append(s, b)
<1>1. s \in Seq(S) /\ t \in Seq(S) /\ b \in S
  OBVIOUS
<1>2. Len(s) = 1 /\ s[1] = a /\ Len(t) = 2 /\ t[1] = a /\ t[2] = b
  OBVIOUS
<1> HIDE DEF s, t, S
<1>3. /\ u \in Seq(S) /\ Len(u) = Len(s) + 1
      /\ \A i \in 1 .. Len(s) : u[i] = s[i]
      /\ u[Len(s) + 1] = b
  BY <1>1, AppendProperties
<1> HIDE DEF u
<1>4. Len(u) = 2 /\ u[1] = a /\ u[2] = b
  BY <1>2, <1>3
<1>5. u = t
  BY <1>1, <1>2, <1>3, <1>4, SeqEqual
<1>. QED BY <1>5 DEF s, t, u

LEMMA AppendTriple ==
  ASSUME NEW a, NEW b, NEW c
  PROVE  Append(<<a, b>>, c) = <<a, b, c>>
<1> DEFINE S == {a, b, c}
           s == <<a, b>>
           t == <<a, b, c>>
           u == Append(s, c)
<1>1. s \in Seq(S) /\ t \in Seq(S) /\ c \in S
  OBVIOUS
<1>2. /\ Len(s) = 2 /\ s[1] = a /\ s[2] = b
      /\ Len(t) = 3 /\ t[1] = a /\ t[2] = b /\ t[3] = c
  OBVIOUS
<1> HIDE DEF s, t, S
<1>3. /\ u \in Seq(S) /\ Len(u) = Len(s) + 1
      /\ \A i \in 1 .. Len(s) : u[i] = s[i]
      /\ u[Len(s) + 1] = c
  BY <1>1, AppendProperties
<1> HIDE DEF u
<1>4. Len(u) = 3 /\ u[1] = a /\ u[2] = b /\ u[3] = c
  BY <1>2, <1>3
<1>5. u = t
  BY <1>1, <1>2, <1>3, <1>4, SeqEqual
<1>. QED BY <1>5 DEF s, t, u

\* One more stage of a check.
LEMMA StageSequences ==
  /\ Append(<<>>, "reached") = <<"reached">>
  /\ Append(<<"reached">>, "secured") = <<"reached", "secured">>
  /\ Append(<<"reached">>, "authenticated") = <<"reached", "authenticated">>
  /\ Append(<<"reached", "secured">>, "authenticated") = <<"reached", "secured", "authenticated">>
BY AppendPair, AppendTriple

LEMMA StagedStep ==
  ASSUME TypeOK, Phased, Guarded, Staged, SessionStep
  PROVE  Staged'
<1> USE DEF connecting, connections, state, secrets, Staged, Complete
<1>0. config.security \in Security
  BY DEF TypeOK, Config
<1>1. ASSUME NEW kind \in Kind, Begin(kind)
      PROVE  Staged'
  <2>1. pc' # "idle" => result' = "none"
    BY <1>1 DEF Begin
  <2>2. result' # "report" /\ pc' \in {"idle", "locate", "base"}
    BY <1>1 DEF Begin
  <2>. QED BY <2>1, <2>2
<1>2. ASSUME TryNext
      PROVE  Staged'
  BY <1>2, <1>0 DEF TryNext
<1>3. ASSUME Exhausted
      PROVE  Staged'
  <2>1. lastError # "report"
    BY DEF TypeOK, ReachError
  <2>. QED BY <1>3, <2>1 DEF Exhausted, Raise
<1>4. ASSUME Reach
      PROVE  Staged'
  <2>1. call = "check" => stages' = <<"reached">>
    BY <1>4, StageSequences DEF Reach, Done
  <2>. QED BY <1>4, <2>1 DEF Reach
<1>5. ASSUME ReachFails
      PROVE  Staged'
  <2>1. PICK e \in Errors : FailWith(e)
    BY <1>5 DEF ReachFails, Errors, ConnectError, OtherError
  <2>2. e # "report"
    BY DEF Errors, ConnectError, OtherError, ReachError
  <2>. QED BY <1>5, <2>1, <2>2, FailSplit DEF ReachFails
<1>6. ASSUME Open
      PROVE  Staged'
  <2>1. call = "check" => stages' = IF config.security = "ldaps" THEN <<"reached", "secured">>
                                     ELSE <<"reached">>
    BY <1>6, StageSequences DEF Open, Done
  <2>2. pc' = (IF config.security = "starttls" THEN "starttls" ELSE "bind")
        /\ config' = config /\ call' = call /\ result' = result /\ pc # "idle"
    BY <1>6 DEF Open
  <2>. QED BY <1>0, <2>1, <2>2 DEF Security
<1>7. ASSUME OpenFails
      PROVE  Staged'
  <2>1. PICK e \in Errors : FailWith(e)
    BY <1>7 DEF OpenFails, Errors, ConnectError, OtherError
  <2>2. e # "report"
    BY DEF Errors, ConnectError, OtherError, ReachError
  <2>. QED BY <1>7, <2>1, <2>2, FailSplit DEF OpenFails
<1>8. ASSUME StartTls
      PROVE  Staged'
  <2>1. call = "check" => stages' = <<"reached", "secured">>
    BY <1>8, StageSequences DEF StartTls, Done
  <2>. QED BY <1>8, <2>1 DEF StartTls, Guarded
<1>9. ASSUME StartTlsFails
      PROVE  Staged'
  <2>1. PICK e \in Errors : FailWith(e)
    BY <1>9 DEF StartTlsFails, Errors, ConnectError, OtherError
  <2>2. e # "report"
    BY DEF Errors, ConnectError, OtherError, ReachError
  <2>. QED BY <1>9, <2>1, <2>2, FailSplit DEF StartTlsFails
<1>10. ASSUME Bind
       PROVE  Staged'
  <2>1. call = "check" => stages' = Complete
    BY <1>10, StageSequences DEF Bind, Done
  <2>2. call # "check" => pc' \in {"base", "idle"} /\ result' # "report"
    BY <1>10 DEF Bind, Raise
  <2>3. pc' # "idle" => result' = result
    BY <1>10 DEF Bind, Raise
  <2>. QED BY <1>10, <2>1, <2>2, <2>3 DEF Bind
<1>11. ASSUME BindFails
       PROVE  Staged'
  <2>1. PICK e \in Errors : FailWith(e)
    BY <1>11 DEF BindFails, Errors, ConnectError, OtherError
  <2>2. e # "report"
    BY DEF Errors, ConnectError, OtherError, ReachError
  <2>. QED BY <1>11, <2>1, <2>2, FailSplit DEF BindFails
<1>12. ASSUME Info
       PROVE  Staged'
  BY <1>12, <1>0 DEF Info, Raise, ReadRoot
<1>13. ASSUME SearchFails
       PROVE  Staged'
  <2>1. pc' = "idle" /\ result' # "report"
    BY <1>13 DEF SearchFails, Raise, ConnectError, ReachError
  <2>. QED BY <1>13, <2>1 DEF SearchFails
<1>14. ASSUME Explicit \/ Discover \/ DiscoverNothing \/ Adopt
              \/ RootInterrupted \/ Base \/ Page \/ Close \/ Vanish
              \/ UNCHANGED vars
       PROVE  Staged'
  BY <1>14, <1>0 DEF Explicit, Discover, DiscoverNothing, Raise, Adopt, Unbind,
     RootInterrupted, Base, ReadRoot, Page, Close, Vanish, vars
<1>. QED
  BY <1>1, <1>2, <1>3, <1>4, <1>5, <1>6, <1>7, <1>8, <1>9, <1>10, <1>11,
     <1>12, <1>13, <1>14
     DEF SessionStep, Locating, Connecting, Using

LEMMA WhoseStep ==
  ASSUME TypeOK, Phased, Staged, Whose, SessionStep
  PROVE  Whose'
<1> USE DEF connecting, connections, state, secrets, Whose, Choosing, Trying, Setup
<1>1. ASSUME NEW kind \in Kind, Begin(kind)
      PROVE  Whose'
  <2>1. fresh' <=> session = NoConn
    BY <1>1, Zenon DEF Begin
  <2>2. conn = NoConn
    BY <1>1 DEF Begin, Phased
  <2>3. result' # "report" /\ pc' \in {"idle", "locate", "base"}
        /\ conn' = conn /\ session' = session
    BY <1>1 DEF Begin
  <2>. QED BY <2>1, <2>2, <2>3
<1>2. ASSUME TryNext
      PROVE  Whose'
  <2>1. conn = NoConn
    BY <1>2 DEF TryNext, Phased
  <2>. QED BY <1>2, <2>1 DEF TryNext, Staged
<1>3. ASSUME Exhausted
      PROVE  Whose'
  <2>1. lastError # "report"
    BY DEF TypeOK, ReachError
  <2>. QED BY <1>3, <2>1 DEF Exhausted, Raise, At
<1>4. ASSUME ReachFails
      PROVE  Whose'
  <2>1. PICK e \in Errors : FailWith(e)
    BY <1>4 DEF ReachFails, Errors, ConnectError, OtherError
  <2>2. e # "report" /\ pc \in Trying
    BY <1>4 DEF ReachFails, Errors, ConnectError, OtherError, ReachError
  <2>3. /\ UNCHANGED <<session, fresh, tried>>
        /\ pc' \in {"next", "idle"} /\ result' # "report"
    BY <2>1, <2>2, FailSplit DEF Staged
  <2>4. conn' = NoConn
    BY <1>4 DEF ReachFails, Phased
  <2>. QED BY <2>2, <2>3, <2>4 DEF At
<1>5. ASSUME Open
      PROVE  Whose'
  BY <1>5 DEF Open, Done, At
<1>6. ASSUME OpenFails
      PROVE  Whose'
  <2>1. PICK e \in Errors : FailWith(e)
    BY <1>6 DEF OpenFails, Errors, ConnectError, OtherError
  <2>2. e # "report" /\ pc \in Trying
    BY <1>6 DEF OpenFails, Errors, ConnectError, OtherError, ReachError
  <2>3. /\ UNCHANGED <<session, fresh, tried>>
        /\ pc' \in {"next", "idle"} /\ result' # "report"
    BY <2>1, <2>2, FailSplit DEF Staged
  <2>4. conn' = NoConn
    BY <1>6 DEF OpenFails, Phased
  <2>. QED BY <2>2, <2>3, <2>4 DEF At
<1>7. ASSUME StartTls
      PROVE  Whose'
  <2>1. conn'.server = conn.server /\ conn # NoConn
    BY <1>7 DEF StartTls, Phased, TypeOK, Connection
  <2>. QED BY <1>7, <2>1 DEF StartTls, At
<1>8. ASSUME StartTlsFails
      PROVE  Whose'
  <2>1. PICK e \in Errors : FailWith(e)
    BY <1>8 DEF StartTlsFails, Errors, ConnectError, OtherError
  <2>2. e # "report" /\ pc \in Trying
    BY <1>8 DEF StartTlsFails, Errors, ConnectError, OtherError, ReachError
  <2>3. /\ UNCHANGED <<session, fresh, tried>>
        /\ pc' \in {"next", "idle"} /\ result' # "report"
    BY <2>1, <2>2, FailSplit DEF Staged
  <2>4. conn' = NoConn
    BY <1>8 DEF StartTlsFails, Phased, Unbind
  <2>. QED BY <2>2, <2>3, <2>4 DEF At
<1>9. ASSUME Bind
      PROVE  Whose'
  BY <1>9 DEF Bind, Done, SendPassword, Raise, At
<1>10. ASSUME BindFails
       PROVE  Whose'
  <2>1. PICK e \in Errors : FailWith(e)
    BY <1>10 DEF BindFails, Errors, ConnectError, OtherError
  <2>2. e # "report" /\ pc \in Trying
    BY <1>10 DEF BindFails, Errors, ConnectError, OtherError, ReachError
  <2>3. /\ UNCHANGED <<session, fresh, tried>>
        /\ pc' \in {"next", "idle"} /\ result' # "report"
    BY <2>1, <2>2, FailSplit DEF Staged
  <2>4. conn' = NoConn
    BY <1>10 DEF BindFails, Phased, Unbind
  <2>. QED BY <2>2, <2>3, <2>4 DEF At
<1>11. ASSUME Adopt
       PROVE  Whose'
  <2>1. conn # NoConn /\ conn.server = At /\ (fresh <=> session = NoConn)
    BY <1>11 DEF Adopt, Phased
  <2>2. tried' = tried /\ pc' = "info" /\ conn' = NoConn /\ fresh' = fresh
    BY <1>11 DEF Adopt, Unbind
  <2>3. session' = IF session = NoConn THEN conn ELSE session
    BY <1>11 DEF Adopt
  <2>. QED BY <2>1, <2>2, <2>3 DEF At
<1>12. ASSUME Info
       PROVE  Whose'
  BY <1>12 DEF Info, Raise, ReadRoot, At
<1>13. ASSUME SearchFails
       PROVE  Whose'
  <2>1. pc' = "idle" /\ result' # "report"
    BY <1>13 DEF SearchFails, Raise, ConnectError, ReachError
  <2>. QED BY <1>13, <2>1 DEF SearchFails, At
<1>14. ASSUME Close
       PROVE  Whose'
  BY <1>14 DEF Close, At
<1>15. ASSUME Explicit \/ Discover \/ DiscoverNothing \/ Reach
              \/ RootInterrupted \/ Base \/ Page \/ Vanish
              \/ UNCHANGED vars
       PROVE  Whose'
  BY <1>15 DEF Explicit, Discover, DiscoverNothing, Raise, Reach, Done,
     RootInterrupted, Base, ReadRoot, Page, Vanish, vars, At
<1>. QED
  BY <1>1, <1>2, <1>3, <1>4, <1>5, <1>6, <1>7, <1>8, <1>9, <1>10, <1>11,
     <1>12, <1>13, <1>14, <1>15
     DEF SessionStep, Locating, Connecting, Using

-----------------------------------------------------------------------------
(***************************************************************************)
(* The invariant, and what it says of the runs' properties.                *)
(***************************************************************************)
LEMMA SessionInit == Init => SessionInv
<1> SUFFICES ASSUME Init
             PROVE  SessionInv
  OBVIOUS
<1>1. /\ clear \in BOOLEAN /\ fresh \in BOOLEAN /\ alive \in BOOLEAN
  BY Zenon DEF Init
<1>2. candidates \in Seq(Server) /\ tried \in Seq(Server) /\ stages \in Seq(Stage)
  BY DEF Init
<1>3. TypeOK
  BY <1>1, <1>2 DEF Init, TypeOK, Phase
<1>4. Phased /\ Owned
  BY DEF Init, Phased, Setup, Trying, Choosing, Owned
<1>5. Guarded
  BY DEF Init, Guarded
<1>6. Routed /\ Walked
  BY DEF Init, Routed, Walked, IsInjective, ReachError
<1>7. Staged /\ Whose
  BY DEF Init, Staged, Whose, Choosing, Trying, Setup
<1>. QED BY <1>3, <1>4, <1>5, <1>6, <1>7 DEF SessionInv

LEMMA SessionKeeps == SessionInv /\ SessionStep => SessionInv'
BY TypeStep, PhasedStep, OwnedStep, GuardedStep, RoutedStep, WalkedStep, StagedStep,
   WhoseStep DEF SessionInv

\* A step of the library, or none, is a step of the session.
LEMMA LibraryStep ==
  ASSUME TypeOK, [Next]_vars
  PROVE  SessionStep
<1>1. CASE Call
  BY <1>1 DEF Call, TypeOK, SessionStep, Kind
<1>2. CASE Locating
  BY <1>2 DEF Locating, Explicit, Discover, DiscoverNothing, TryNext, Exhausted, TypeOK,
       SessionStep
<1>3. CASE Connecting
  <2>1. calls' = calls
    BY <1>3 DEF Connecting, Reach, ReachFails, Open, OpenFails, StartTls, StartTlsFails,
         Bind, BindFails, Adopt, FailWith
  <2>. QED BY <1>3, <2>1 DEF TypeOK, SessionStep
<1>4. CASE Using
  BY <1>4 DEF Using, Info, RootInterrupted, Base, Page, SearchFails, TypeOK, SessionStep
<1>5. CASE Close \/ Vanish
  BY <1>5 DEF Close, Vanish, TypeOK, SessionStep
<1>6. CASE UNCHANGED vars
  BY <1>6 DEF vars, TypeOK, SessionStep
<1>. QED BY <1>1, <1>2, <1>3, <1>4, <1>5, <1>6 DEF Next

\* So is a step of a command: it begins a call, goes on with it, closes the
\* client, or leaves the session alone.
LEMMA CommandStep ==
  ASSUME TypeOK, [CommandNext]_allVars
  PROVE  SessionStep
<1>1. ASSUME NEW kind \in Kind, Begin(kind), calls' \in Nat
      PROVE  SessionStep
  BY <1>1 DEF SessionStep
<1>2. UNCHANGED vars => SessionStep
  BY LibraryStep
<1>3. calls \in Nat
  BY DEF TypeOK
<1>4. CASE Check \/ Groups \/ Member \/ User \/ Members \/ Show
  BY <1>1, <1>3, <1>4 DEF Check, Groups, Member, User, Members, Show, Starts, Kind
<1>5. CASE RejectOptions \/ ConnectFails \/ Emit \/ Raised \/ Interrupt
  BY <1>2, <1>5 DEF RejectOptions, ConnectFails, Emit, Raised, Interrupt, Unwind
<1>6. CASE InCall
  BY <1>6, LibraryStep DEF InCall, Next
<1>7. CASE Connected \/ SearchMore
  BY <1>1, <1>3, <1>7 DEF Connected, SearchMore, Kind
<1>8. ASSUME NEW o, Take(o)
      PROVE  SessionStep
  BY <1>1, <1>2, <1>3, <1>8 DEF Take, Kind
<1>9. CASE user_status \/ Answer \/ NotOne \/ RedirectFails \/ NameFails
  BY <1>8, <1>9 DEF user_status, Answer, NotOne, RedirectFails, NameFails
<1>10. CASE Wake(calls + 1)
  BY <1>1, <1>3, <1>10 DEF Wake, Kind
<1>11. CASE Leave
  BY <1>2, <1>11, LibraryStep DEF Leave, Next
<1>12. CASE Outside \/ Library
  BY <1>12, LibraryStep DEF Outside, Library, Next
<1>13. CASE UNCHANGED allVars
  BY <1>2, <1>13 DEF allVars
<1>. QED
  BY <1>4, <1>5, <1>6, <1>7, <1>9, <1>10, <1>11, <1>12, <1>13 DEF CommandNext, Progress

LEMMA Connections == SessionInv => ConnectionsOwned
<1> SUFFICES ASSUME SessionInv
             PROVE  ConnectionsOwned
  OBVIOUS
<1>1. \A n : n \in open <=> n \in {c.id : c \in {conn, session} \ {NoConn}}
  BY DEF SessionInv, Owned
<1>2. open = {c.id : c \in {conn, session} \ {NoConn}}
  BY <1>1
<1>. QED BY <1>2 DEF SessionInv, Phased, Setup, Owned, ConnectionsOwned

LEMMA Credentials == SessionInv => CredentialsCovered
BY DEF SessionInv, Guarded, CredentialsCovered

\* What was tried is the beginning of the candidates.
LEMMA Order == SessionInv => TriedInOrder
<1> SUFFICES ASSUME SessionInv
             PROVE  TriedInOrder
  OBVIOUS
<1>1. /\ Len(tried) \in Nat /\ Len(candidates) \in Nat /\ Len(tried) <= Len(candidates)
      /\ DOMAIN tried = 1 .. Len(tried) /\ DOMAIN candidates = 1 .. Len(candidates)
      /\ \A i \in DOMAIN tried : i \in DOMAIN candidates /\ tried[i] = candidates[i]
  BY DEF SessionInv, Routed, TypeOK
<1>2. IsInjective(tried)
  BY <1>1 DEF SessionInv, Routed, IsInjective
<1>3. ASSUME records # <<>>, NEW m \in DOMAIN tried, NEW n \in DOMAIN tried, m < n
      PROVE  \E i \in DOMAIN records :
               /\ records[i].host = tried[m]
               /\ \A j \in DOMAIN records :
                    records[j].host = tried[n] => Preferred(records, i, j)
  <2>1. IsOrdering(records, candidates)
    BY <1>3 DEF SessionInv, Routed
  <2>. QED BY <1>1, <1>3, <2>1 DEF IsOrdering
<1>4. ASSUME pc = "idle", result \in ReachError, session = NoConn \/ call = "check"
      PROVE  (\A s \in Range(candidates) : s \in Range(tried)) /\ tried # <<>>
  <2>1. Len(tried) = Len(candidates) /\ tried # <<>>
    BY <1>4 DEF SessionInv, Walked
  <2>. QED BY <1>1, <2>1 DEF Range
<1>. QED BY <1>2, <1>3, <1>4 DEF TriedInOrder

LEMMA Report == SessionInv => ReportTrue
BY DEF SessionInv, Staged, Whose, Complete, ReportTrue

LEMMA LibraryInvariance == Spec => []SessionInv
<1>1. SessionInv /\ [Next]_vars => SessionInv'
  BY SessionKeeps, LibraryStep DEF SessionInv
<1>. QED BY SessionInit, <1>1, PTL DEF Spec

LEMMA CommandInvariance == CommandSpec => []SessionInv
<1>1. CommandInit => SessionInv
  BY SessionInit DEF CommandInit
<1>2. SessionInv /\ [CommandNext]_allVars => SessionInv'
  BY SessionKeeps, CommandStep DEF SessionInv
<1>. QED BY <1>1, <1>2, PTL DEF CommandSpec

-----------------------------------------------------------------------------
(***************************************************************************)
(* Names and rounds.                                                       *)
(***************************************************************************)
Listed(s) == \E S : s \in Seq(S)

\* A round has one outcome for every name.
Rounded ==
  /\ command \in Command
  /\ phase \in {"library", "given", "connect", "name", "emit", "sleep", "closing", "over"}
  /\ Listed(outcomes) /\ Listed(rounds)
  /\ phase \in {"library", "given"} => rounds = <<>>
  /\ phase \in {"library", "given", "connect", "sleep"} => outcomes = <<>>
  /\ phase = "name" => Len(outcomes) < command.names
  /\ phase = "emit" => Len(outcomes) = command.names
  /\ \A r \in Range(rounds) : Listed(r) /\ Len(r) = command.names

\* The exit code is that of the last round.
Coded ==
  phase \in {"closing", "over"} /\ rounds # <<>> /\ exitCode \notin {"killed", "traceback"} =>
    exitCode = RoundCode(Last(rounds))

\* All answers are of the session that is there, or was until it was closed.
Current == IF session = NoConn THEN 0 ELSE session.id

By(n) == \A r \in Range(rounds) \cup {outcomes} : \A i \in DOMAIN r : r[i].by \in {0, n}

OneSession == \E n : By(n) /\ (phase # "over" => n = Current)

\* No call is under way between the names, and no session before or after them.
Settled ==
  /\ phase \notin {"library", "connect", "name"} => pc = "idle"
  /\ phase \in {"given", "over"} => session = NoConn
  /\ result \in {"answer", "report"} => session # NoConn

NamesInv == Rounded /\ Coded /\ OneSession /\ Settled

\* A call keeps the session that is there, and answers over one.
LEMMA SessionStays ==
  ASSUME SessionInv, Settled, Locating \/ Connecting \/ Using
  PROVE  /\ session # NoConn => session' = session
         /\ result' \in {"answer", "report"} => session' # NoConn
<1> USE DEF connecting, connections, state, secrets
<1>1. ASSUME NEW e \in Errors, FailWith(e)
      PROVE  /\ session' = session
             /\ result' \in {"answer", "report"} => session' # NoConn
  BY <1>1, FailSplit DEF Errors, ConnectError, OtherError, ReachError, Settled
<1>2. CASE Locating
  BY <1>2 DEF Locating, Explicit, Discover, DiscoverNothing, TryNext, Exhausted, Raise, Settled,
       SessionInv, TypeOK, ReachError
<1>3. CASE Reach \/ Open \/ StartTls
  BY <1>3 DEF Reach, Open, StartTls, Settled
<1>4. CASE ReachFails \/ OpenFails \/ StartTlsFails \/ BindFails
  <2>1. PICK e \in Errors : FailWith(e)
    BY <1>4 DEF ReachFails, OpenFails, StartTlsFails, BindFails, Errors, ConnectError, OtherError
  <2>. QED BY <1>1, <2>1
<1>5. CASE Bind
  <2>1. session # NoConn => call = "check"
    BY <1>5 DEF Bind, SessionInv, Phased, Setup, Trying
  <2>2. result = "none"
    BY <1>5 DEF Bind, SessionInv, Staged
  <2>. QED BY <1>5, <2>1, <2>2 DEF Bind, Raise
<1>6. CASE Adopt
  <2>1. result = "none"
    BY <1>6 DEF Adopt, SessionInv, Staged
  <2>. QED BY <1>6, <2>1 DEF Adopt
<1>7. CASE Info \/ Base \/ Page
  BY <1>7 DEF Info, Base, Page, Raise, ReadRoot, SessionInv, Phased, Settled
<1>8. CASE RootInterrupted \/ SearchFails
  BY <1>8 DEF RootInterrupted, SearchFails, Raise, ConnectError, ReachError
<1>. QED BY <1>2, <1>3, <1>4, <1>5, <1>6, <1>7, <1>8 DEF Connecting, Using

\* A call begins.
LEMMA BeginStays ==
  ASSUME NEW kind \in Kind, Begin(kind)
  PROVE  session' = session /\ result' \notin {"answer", "report"}
BY DEF Begin, Raise, state

\* What was answered was answered over this session, if there is one.
LEMMA OneKept ==
  ASSUME OneSession, UNCHANGED <<outcomes, rounds>>,
         phase' = "over" \/ (phase # "over" /\ (session # NoConn => session' = session))
  PROVE  OneSession'
<1>1. PICK n : By(n) /\ (phase # "over" => n = Current)
  BY DEF OneSession
<1>2. \A m : By(m) => By(m)'
  BY DEF By
<1>3. CASE phase' = "over"
  BY <1>1, <1>2, <1>3 DEF OneSession
<1>4. CASE phase' # "over" /\ session' = session
  BY <1>1, <1>2, <1>4 DEF OneSession, Current
<1>5. CASE phase' # "over" /\ session = NoConn
  <2>1. By(0)
    BY <1>1, <1>5 DEF Current
  <2>2. \A m : By(m)
    BY <2>1 DEF By
  <2>3. By(Current)'
    BY <2>2, <1>2 DEF By
  <2>. QED BY <2>3 DEF OneSession
<1>. QED BY <1>3, <1>4, <1>5

LEMMA Appended ==
  ASSUME NEW s, Listed(s), NEW o
  PROVE  /\ Listed(Append(s, o)) /\ Len(Append(s, o)) = Len(s) + 1 /\ Len(s) \in Nat
         /\ \A i \in DOMAIN Append(s, o) : (i \in DOMAIN s /\ Append(s, o)[i] = s[i]) \/ Append(s, o)[i] = o
<1>1. PICK S : s \in Seq(S)
  BY DEF Listed
<1> DEFINE T == S \cup {o}
<1>2. s \in Seq(T) /\ o \in T
  <2>1. s \in [1 .. Len(s) -> S] /\ Len(s) \in Nat
    BY <1>1
  <2>2. s \in [1 .. Len(s) -> T]
    BY <2>1
  <2>. QED BY <2>1, <2>2
<1> HIDE DEF T
<1>3. Append(s, o) \in Seq(T)
  BY <1>2
<1>. QED BY <1>2, <1>3 DEF Listed

\* The outcome of a name is added to the others.
LEMMA TakeKeeps ==
  ASSUME NamesInv, phase = "name", pc = "idle", NEW o, o.by \in {0, Current}, Take(o)
  PROVE  NamesInv'
<1> DEFINE os == Append(outcomes, o)
<1>1. /\ outcomes' = os /\ UNCHANGED <<command, rounds, exitCode>>
      /\ session' = session
      /\ IF Len(os) < command.names
           THEN phase' = "name" /\ result' \notin {"answer", "report"}
           ELSE phase' = "emit" /\ pc' = "idle" /\ result' = result
  BY BeginStays DEF Take, Kind, vars
<1>2. Listed(outcomes) /\ Len(outcomes) < command.names /\ command.names \in Nat
  BY CommandAssumption DEF NamesInv, Rounded, CommandType
<1>3. /\ Listed(os) /\ Len(os) = Len(outcomes) + 1 /\ Len(outcomes) \in Nat
      /\ \A i \in DOMAIN os : (i \in DOMAIN outcomes /\ os[i] = outcomes[i]) \/ os[i] = o
  BY <1>2, Appended
<1> HIDE DEF os
<1>4. Len(os) < command.names \/ Len(os) = command.names
  BY <1>2, <1>3
<1>5. Rounded'
  BY <1>1, <1>3, <1>4 DEF NamesInv, Rounded
<1>6. Coded'
  BY <1>1 DEF Coded
<1>7. OneSession'
  <2>1. PICK n : By(n) /\ n = Current
    BY DEF NamesInv, OneSession
  <2>2. \A i \in DOMAIN os : os[i].by \in {0, n}
    BY <2>1, <1>3 DEF By
  <2>3. By(n)'
    BY <2>1, <2>2, <1>1 DEF By
  <2>. QED BY <2>1, <2>3, <1>1 DEF OneSession, Current
<1>8. Settled'
  BY <1>1 DEF NamesInv, Settled
<1>. QED BY <1>5, <1>6, <1>7, <1>8 DEF NamesInv

\* A round that ends is kept beside the last one.
LEMMA RoundAdded ==
  ASSUME NamesInv, Emit
  PROVE  /\ Listed(rounds') /\ rounds' # <<>> /\ Last(rounds') = outcomes
         /\ \A r \in Range(rounds') : r \in Range(rounds) \cup {outcomes}
         /\ rounds # <<>> =>
              Len(rounds') = 2 /\ rounds'[1] = Last(rounds) /\ rounds'[2] = outcomes
<1>1. /\ Listed(rounds)
      /\ rounds' = (IF rounds = <<>> THEN <<>> ELSE <<Last(rounds)>>) \o <<outcomes>>
  BY DEF Emit, NamesInv, Rounded
<1>2. CASE rounds = <<>>
  <2>1. rounds' = <<>> \o <<outcomes>>
    BY <1>1, <1>2
  <2>2. /\ <<>> \in Seq({outcomes}) /\ <<outcomes>> \in Seq({outcomes})
        /\ Len(<<>>) = 0 /\ Len(<<outcomes>>) = 1
    OBVIOUS
  <2>3. /\ rounds' \in Seq({outcomes}) /\ Len(rounds') = 1 /\ rounds'[1] = outcomes
    BY <2>1, <2>2, ConcatProperties
  <2>. QED BY <1>2, <2>3 DEF Range, Listed, Last
<1>3. CASE rounds # <<>>
  <2> DEFINE l == Last(rounds)
             S == {l, outcomes}
  <2>1. l \in Range(rounds)
    <3>1. PICK S0 : rounds \in Seq(S0)
      BY <1>1 DEF Listed
    <3>2. Len(rounds) \in DOMAIN rounds
      BY <3>1, <1>3
    <3>. QED BY <3>2 DEF Last, Range
  <2>2. rounds' = <<l>> \o <<outcomes>>
    BY <1>1, <1>3
  <2>3. /\ <<l>> \in Seq(S) /\ <<outcomes>> \in Seq(S)
        /\ Len(<<l>>) = 1 /\ Len(<<outcomes>>) = 1
    OBVIOUS
  <2> HIDE DEF l
  <2>4. /\ rounds' \in Seq(S) /\ Len(rounds') = 2
        /\ rounds'[1] = l /\ rounds'[2] = outcomes
    BY <2>2, <2>3, ConcatProperties
  <2>5. DOMAIN rounds' = 1 .. 2
    BY <2>4
  <2>6. \A r \in Range(rounds') : r = l \/ r = outcomes
    BY <2>4, <2>5 DEF Range
  <2>7. Listed(rounds') /\ rounds' # <<>> /\ Last(rounds') = outcomes
    BY <2>4 DEF Listed, Last
  <2>. QED BY <2>1, <2>4, <2>6, <2>7 DEF l
<1>. QED BY <1>2, <1>3

\* A round ends: it joins the one before it.
LEMMA EmitKeeps ==
  ASSUME NamesInv, Emit
  PROVE  NamesInv'
<1>1. /\ phase = "emit" /\ UNCHANGED <<vars, command>> /\ outcomes' = <<>>
      /\ rounds' = (IF rounds = <<>> THEN <<>> ELSE <<Last(rounds)>>) \o <<outcomes>>
      /\ \/ phase' = "sleep" /\ exitCode' = exitCode
         \/ phase' = "closing" /\ exitCode' = RoundCode(outcomes)
  BY DEF Emit
<1>2. /\ Listed(outcomes) /\ Len(outcomes) = command.names /\ Listed(rounds)
      /\ \A r \in Range(rounds) : Listed(r) /\ Len(r) = command.names
  BY <1>1 DEF NamesInv, Rounded
<1>3. /\ Listed(rounds') /\ rounds' # <<>> /\ Last(rounds') = outcomes
      /\ \A r \in Range(rounds') : r \in Range(rounds) \cup {outcomes}
  BY RoundAdded
<1>4. <<>> \in Seq({}) /\ DOMAIN <<>> = {}
  OBVIOUS
<1>5. Rounded'
  BY <1>1, <1>2, <1>3, <1>4 DEF NamesInv, Rounded, Listed
<1>6. Coded'
  BY <1>1, <1>3 DEF Coded, RoundCode
<1>7. OneSession'
  <2>1. PICK n : By(n) /\ n = Current
    BY <1>1 DEF NamesInv, OneSession
  <2>2. By(n)'
    BY <2>1, <1>1, <1>3, <1>4 DEF By
  <2>. QED BY <2>1, <2>2, <1>1 DEF OneSession, Current, vars
<1>8. Settled'
  BY <1>1 DEF NamesInv, Settled, vars
<1>. QED BY <1>5, <1>6, <1>7, <1>8 DEF NamesInv

\* A command is given up.
LEMMA UnwindKeeps ==
  ASSUME NamesInv, phase \in {"connect", "name", "emit", "sleep"}, pc = "idle",
         NEW i \in BOOLEAN, Unwind(i)
  PROVE  NamesInv'
<1>1. /\ phase' = "closing" /\ UNCHANGED <<vars, command, outcomes, rounds>>
      /\ exitCode' \in {"killed", "traceback"} \/ rounds = <<>> \/ exitCode' = RoundCode(Last(rounds))
  BY DEF Unwind
<1>2. Rounded'
  BY <1>1 DEF NamesInv, Rounded
<1>3. Coded'
  BY <1>1 DEF Coded, RoundCode
<1>4. OneSession'
  BY <1>1, OneKept DEF NamesInv, vars
<1>5. Settled'
  BY <1>1 DEF NamesInv, Settled, vars
<1>. QED BY <1>2, <1>3, <1>4, <1>5 DEF NamesInv

\* The first call of a command begins, or the next one of a batch.
LEMMA StartsKeep ==
  ASSUME NamesInv, SessionInv, NEW kind \in Kind, Begin(kind),
         UNCHANGED <<command, outcomes, rounds, exitCode>>,
         \/ phase \in {"given", "sleep"} /\ phase' \in {"connect", "name"}
         \/ phase \in {"connect", "name"} /\ phase' = "name"
  PROVE  NamesInv'
<1>1. session' = session /\ result' \notin {"answer", "report"}
  BY BeginStays
<1>2. Rounded'
  <2>1. command.names \in Nat \ {0} /\ Len(<<>>) = 0
    BY CommandAssumption DEF NamesInv, Rounded, CommandType
  <2>. QED BY <2>1 DEF NamesInv, Rounded
<1>3. Coded'
  BY DEF Coded
<1>4. OneSession'
  BY <1>1, OneKept DEF NamesInv
<1>5. Settled'
  BY <1>1 DEF NamesInv, Settled
<1>. QED BY <1>2, <1>3, <1>4, <1>5 DEF NamesInv

\* The session moves, and the command does not.
LEMMA InCallKeeps ==
  ASSUME NamesInv, UNCHANGED commandVars,
         session # NoConn /\ phase # "library" => session' = session,
         phase = "library" => outcomes = <<>> /\ rounds = <<>>,
         result' \in {"answer", "report"} => session' # NoConn,
         phase \notin {"library", "connect", "name"} => session' = session /\ pc' = pc
  PROVE  NamesInv'
<1>1. Rounded'
  BY DEF NamesInv, Rounded, commandVars
<1>2. Coded'
  BY DEF NamesInv, Coded, RoundCode, commandVars
<1>3. OneSession'
  <2>1. CASE phase = "library"
    <3>1. DOMAIN <<>> = {}
      OBVIOUS
    <3>2. By(Current)'
      BY <2>1, <3>1 DEF By, Range, commandVars
    <3>. QED BY <3>2 DEF OneSession
  <2>2. CASE phase = "over"
    BY <2>2, OneKept DEF NamesInv, commandVars
  <2>3. CASE phase # "library" /\ phase # "over"
    BY <2>3, OneKept DEF NamesInv, commandVars
  <2>. QED BY <2>1, <2>2, <2>3
<1>4. Settled'
  BY DEF NamesInv, Settled, commandVars
<1>. QED BY <1>1, <1>2, <1>3, <1>4 DEF NamesInv

LEMMA NamesStep == NamesInv /\ SessionInv /\ [CommandNext]_allVars => NamesInv'
<1> SUFFICES ASSUME NamesInv, SessionInv, [CommandNext]_allVars PROVE NamesInv'
  OBVIOUS
<1>0. /\ phase = "library" => outcomes = <<>> /\ rounds = <<>>
      /\ result \in {"answer", "report"} => session # NoConn
      /\ phase \notin {"library", "connect", "name"} => pc = "idle"
  BY DEF NamesInv, Rounded, Settled
<1>1. CASE RejectOptions
  <2>1. phase = "given" /\ phase' = "over" /\ UNCHANGED <<vars, command, outcomes, rounds>>
    BY <1>1 DEF RejectOptions
  <2>2. Rounded'
    BY <2>1 DEF NamesInv, Rounded
  <2>3. Coded'
    BY <2>1 DEF NamesInv, Rounded, Coded
  <2>4. OneSession'
    BY <2>1, OneKept DEF NamesInv
  <2>5. Settled'
    BY <2>1 DEF NamesInv, Settled, vars
  <2>. QED BY <2>2, <2>3, <2>4, <2>5 DEF NamesInv
<1>2. CASE Check \/ Groups \/ Member \/ User \/ Members \/ Show
  BY <1>2, StartsKeep DEF Check, Groups, Member, User, Members, Show, Starts, Kind
<1>3. CASE InCall
  <2>1. /\ session # NoConn => session' = session
        /\ result' \in {"answer", "report"} => session' # NoConn
    BY <1>3, SessionStays DEF InCall, NamesInv
  <2>. QED BY <1>0, <1>3, <2>1, InCallKeeps DEF InCall
<1>4. CASE Connected \/ SearchMore
  BY <1>4, StartsKeep DEF Connected, SearchMore, Kind
<1>5. CASE ConnectFails
  <2> DEFINE os == [i \in 1 .. command.names |-> Failed(result)]
  <2>1. phase = "connect" /\ pc = "idle" /\ outcomes' = os /\ phase' = "emit"
        /\ UNCHANGED <<vars, command, rounds>>
    BY <1>5 DEF ConnectFails, Returned
  <2>2. command.names \in Nat \ {0}
    BY CommandAssumption DEF NamesInv, Rounded, CommandType
  <2>3. os \in Seq({Failed(result)}) /\ Len(os) = command.names
    BY <2>2
  <2>4. \A i \in DOMAIN os : os[i].by = 0
    BY DEF Failed
  <2> HIDE DEF os
  <2>5. Rounded'
    BY <2>1, <2>3 DEF NamesInv, Rounded, Listed
  <2>6. Coded'
    BY <2>1 DEF Coded
  <2>7. OneSession'
    <3>1. PICK n : By(n) /\ n = Current
      BY <2>1 DEF NamesInv, OneSession
    <3>2. By(n)'
      BY <2>1, <2>4, <3>1 DEF By
    <3>. QED BY <2>1, <3>1, <3>2 DEF OneSession, Current, vars
  <2>8. Settled'
    BY <2>1 DEF NamesInv, Settled, vars
  <2>. QED BY <2>5, <2>6, <2>7, <2>8 DEF NamesInv
<1>6. CASE user_status \/ Answer
  <2>1. \E o : Take(o) /\ o.by = session.id
    <3>1. CASE user_status
      <4>1. PICK a \in command.accounts :
              Take([says |-> "ok", status |-> Derive(a, command.visible), blocked |-> Blocked(a),
                    by |-> session.id])
        BY <3>1, Zenon DEF user_status
      <4> DEFINE o == [says |-> "ok", status |-> Derive(a, command.visible),
                       blocked |-> Blocked(a), by |-> session.id]
      <4>2. o.by = session.id /\ Take(o)
        BY <4>1
      <4> HIDE DEF o
      <4>. QED BY <4>2
    <3>2. CASE Answer
      <4>1. PICK says : Take([says |-> says, status |-> NoStatus, blocked |-> {}, by |-> session.id])
        BY <3>2, Zenon DEF Answer
      <4> DEFINE o == [says |-> says, status |-> NoStatus, blocked |-> {}, by |-> session.id]
      <4>2. o.by = session.id /\ Take(o)
        BY <4>1
      <4> HIDE DEF o
      <4>. QED BY <4>2
    <3>. QED BY <1>6, <3>1, <3>2
  <2>2. phase = "name" /\ pc = "idle" /\ session # NoConn
    BY <1>0, <1>6 DEF user_status, Answer, Returned
  <2>3. PICK o : Take(o) /\ o.by = session.id
    BY <2>1
  <2>. QED BY <2>2, <2>3, TakeKeeps DEF Current
<1>7. CASE NotOne \/ RedirectFails \/ NameFails
  <2>1. PICK e : Take(Failed(e))
    BY <1>7 DEF NotOne, RedirectFails, NameFails
  <2>2. phase = "name" /\ pc = "idle" /\ Failed(e).by = 0
    BY <1>7 DEF NotOne, RedirectFails, NameFails, Returned, Failed
  <2>. QED BY <2>1, <2>2, TakeKeeps
<1>8. CASE Emit
  BY <1>8, EmitKeeps
<1>9. CASE Wake(calls + 1)
  BY <1>9, StartsKeep DEF Wake, Kind
<1>10. CASE Raised \/ Interrupt
  <2>1. phase \in {"connect", "name", "emit", "sleep"} /\ pc = "idle"
    BY <1>0, <1>10 DEF Raised, Interrupt, Returned
  <2>2. \E i \in BOOLEAN : Unwind(i)
    BY <1>10 DEF Raised, Interrupt
  <2>. QED BY <2>1, <2>2, UnwindKeeps
<1>11. CASE Leave
  <2>1. /\ phase = "closing" /\ phase' = "over" /\ pc = "idle"
        /\ UNCHANGED <<command, outcomes, rounds, exitCode>>
    BY <1>0, <1>11 DEF Leave
  <2>2. /\ session' = NoConn /\ pc' = pc
        /\ result' \notin {"answer", "report"}
    BY <1>0, <1>11 DEF Leave, Close, vars
  <2>3. Rounded'
    BY <2>1 DEF NamesInv, Rounded
  <2>4. Coded'
    BY <2>1 DEF NamesInv, Coded, RoundCode
  <2>5. OneSession'
    BY <2>1, OneKept DEF NamesInv
  <2>6. Settled'
    BY <2>1, <2>2 DEF Settled
  <2>. QED BY <2>3, <2>4, <2>5, <2>6 DEF NamesInv
<1>12. CASE Outside
  BY <1>0, <1>12, InCallKeeps DEF Outside, Vanish
<1>13. CASE Library
  <2>1. result' \in {"answer", "report"} => session' # NoConn
    <3>1. CASE Call
      BY <3>1, BeginStays DEF Call, Kind
    <3>2. CASE Locating \/ Connecting \/ Using
      BY <3>2, SessionStays DEF NamesInv
    <3>3. CASE Close \/ Vanish
      BY <1>0, <3>3 DEF Close, Vanish
    <3>. QED BY <1>13, <3>1, <3>2, <3>3 DEF Library, Next
  <2>. QED BY <1>0, <1>13, <2>1, InCallKeeps DEF Library
<1>14. CASE UNCHANGED allVars
  BY <1>0, <1>14, InCallKeeps DEF allVars, vars
<1>. QED
  BY <1>1, <1>2, <1>3, <1>4, <1>5, <1>6, <1>7, <1>8, <1>9, <1>10, <1>11, <1>12, <1>13, <1>14
  DEF CommandNext, Progress

LEMMA NamesAlways == CommandSpec => [](NamesInv /\ SessionInv)
<1>1. CommandInit => NamesInv
  <2> SUFFICES ASSUME CommandInit PROVE NamesInv
    OBVIOUS
  <2>1. <<>> \in Seq({}) /\ DOMAIN <<>> = {}
    OBVIOUS
  <2>2. Rounded
    BY <2>1 DEF CommandInit, Rounded, Listed, Range
  <2>3. OneSession
    BY <2>1 DEF CommandInit, Init, OneSession, By, Range
  <2>. QED BY <2>2, <2>3 DEF CommandInit, Init, NamesInv, Coded, Settled
<1>. QED BY <1>1, NamesStep, CommandInvariance, PTL DEF CommandSpec

LEMMA Names == NamesInv /\ SessionInv => NamesTold
<1> SUFFICES ASSUME NamesInv, SessionInv PROVE NamesTold
  OBVIOUS
<1>1. \A r \in Range(rounds) : Len(r) = command.names
  BY DEF NamesInv, Rounded
<1>2. ASSUME phase = "over", rounds # <<>>, exitCode \notin {"killed", "traceback"}
      PROVE  Summarises(exitCode, Codes(Last(rounds)))
  <2> DEFINE l == Last(rounds)
  <2>1. exitCode = RoundCode(l)
    BY <1>2 DEF NamesInv, Coded
  <2>2. l \in Range(rounds)
    <3>1. PICK S : rounds \in Seq(S)
      BY DEF NamesInv, Rounded, Listed
    <3>2. Len(rounds) \in DOMAIN rounds
      BY <1>2, <3>1
    <3>. QED BY <3>2 DEF Last, Range
  <2>3. command.names \in Nat \ {0}
    BY CommandAssumption DEF NamesInv, Rounded, CommandType
  <2> HIDE DEF l
  <2>4. DOMAIN l = 1 .. command.names
    <3>1. Listed(l) /\ Len(l) = command.names
      BY <2>2 DEF NamesInv, Rounded
    <3>. QED BY <3>1 DEF Listed
  <2> DEFINE codes == Codes(l)
  <2>5. DOMAIN codes = 1 .. command.names
    BY <2>4 DEF Codes
  <2>6. {codes[i] : i \in DOMAIN codes} = {ExitOf(l[i].says) : i \in DOMAIN l}
    BY DEF Codes
  <2> HIDE DEF codes
  <2>7. Summarises(AggregateExit({codes[i] : i \in DOMAIN codes}), codes)
    BY <2>3, <2>5, AggregateSummarises
  <2>. QED BY <2>1, <2>6, <2>7 DEF RoundCode, l, codes
<1>3. ASSUME NEW r \in Range(rounds) \cup {outcomes}, NEW t \in Range(rounds) \cup {outcomes},
             NEW i \in DOMAIN r, NEW j \in DOMAIN t, r[i].by # 0, t[j].by # 0
      PROVE  r[i].by = t[j].by
  BY <1>3 DEF NamesInv, OneSession, By
<1>4. phase = "over" => open = {} /\ session = NoConn
  BY DEF NamesInv, Settled, SessionInv, Owned, Phased, Setup
<1>. QED BY <1>1, <1>2, <1>3, <1>4 DEF NamesTold

-----------------------------------------------------------------------------
(***************************************************************************)
(* The order of the candidates.                                            *)
(***************************************************************************)
TotalOrder(R, S) ==
  /\ \A x \in S : <<x, x>> \notin R
  /\ \A x, y \in S : x # y => <<x, y>> \in R \/ <<y, x>> \in R
  /\ \A x, y, z \in S : <<x, y>> \in R /\ <<y, z>> \in R => <<x, z>> \in R

LeastOf(x, S, R) == x \in S /\ \A y \in S \ {x} : <<x, y>> \in R

\* The sequence s holds the n members of S in the order R.
Enumerates(s, n, S, R) ==
  /\ s \in [1 .. n -> S]
  /\ \A x \in S : \E i \in 1 .. n : s[i] = x
  /\ \A i, j \in 1 .. n : i < j => <<s[i], s[j]>> \in R

\* A finite set has a least element under every total order, if it has any.
LEMMA FiniteLeast ==
  ASSUME NEW S, IsFiniteSet(S), S # {}, NEW R, TotalOrder(R, S)
  PROVE  \E x \in S : LeastOf(x, S, R)
<1> DEFINE T == {n \in Nat : \A A \in SUBSET S :
                   IsFiniteSet(A) /\ Cardinality(A) = n /\ A # {} => \E x \in A : LeastOf(x, A, R)}
<1>1. 0 \in T
  BY FS_EmptySet
<1>2. ASSUME NEW n \in Nat, n \in T PROVE n + 1 \in T
  <2> SUFFICES ASSUME NEW A \in SUBSET S, IsFiniteSet(A), Cardinality(A) = n + 1, NEW x \in A
               PROVE  \E y \in A : LeastOf(y, A, R)
    OBVIOUS
  <2>1. IsFiniteSet(A \ {x}) /\ Cardinality(A \ {x}) = n /\ A \ {x} \in SUBSET S
    BY FS_RemoveElement
  <2>2. CASE A \ {x} = {}
    BY <2>2 DEF LeastOf
  <2>3. CASE A \ {x} # {}
    <3>1. PICK y \in A \ {x} : LeastOf(y, A \ {x}, R)
      BY <1>2, <2>1, <2>3
    <3>2. x \in S /\ y \in S /\ x # y
      BY <3>1
    <3>3. CASE <<y, x>> \in R
      BY <3>1, <3>3 DEF LeastOf
    <3>4. CASE <<x, y>> \in R
      <4>1. \A z \in A \ {x} : <<x, z>> \in R
        BY <3>1, <3>2, <3>4 DEF LeastOf, TotalOrder
      <4>. QED BY <4>1 DEF LeastOf
    <3>. QED BY <3>2, <3>3, <3>4 DEF TotalOrder
  <2>. QED BY <2>2, <2>3
<1>3. Cardinality(S) \in Nat
  BY FS_CardinalityType
<1>4. Cardinality(S) \in T
  <2> HIDE DEF T
  <2>. QED BY <1>1, <1>2, <1>3, NatInduct
<1>. QED BY <1>4

\* A finite set can be put in order.
LEMMA OrderExists ==
  ASSUME NEW S, IsFiniteSet(S), NEW R, TotalOrder(R, S)
  PROVE  \E s : Enumerates(s, Cardinality(S), S, R)
<1> DEFINE T == {n \in Nat : \A A \in SUBSET S :
                   IsFiniteSet(A) /\ Cardinality(A) = n => \E s : Enumerates(s, n, A, R)}
<1>1. 0 \in T
  <2> SUFFICES ASSUME NEW A \in SUBSET S, IsFiniteSet(A), Cardinality(A) = 0
               PROVE  \E s : Enumerates(s, 0, A, R)
    OBVIOUS
  <2>1. A = {} /\ 1 .. 0 = {}
    BY FS_EmptySet
  <2>2. [i \in 1 .. 0 |-> i] \in [1 .. 0 -> A]
    BY <2>1
  <2>. QED BY <2>1, <2>2 DEF Enumerates
<1>2. ASSUME NEW n \in Nat, n \in T PROVE n + 1 \in T
  <2> SUFFICES ASSUME NEW A \in SUBSET S, IsFiniteSet(A), Cardinality(A) = n + 1
               PROVE  \E s : Enumerates(s, n + 1, A, R)
    OBVIOUS
  <2>1. A # {} /\ TotalOrder(R, A)
    BY FS_EmptySet DEF TotalOrder
  <2>2. PICK x \in A : LeastOf(x, A, R)
    BY <2>1, FiniteLeast
  <2>3. IsFiniteSet(A \ {x}) /\ Cardinality(A \ {x}) = n /\ A \ {x} \in SUBSET S
    <3>1. IsFiniteSet(A \ {x}) /\ Cardinality(A \ {x}) = Cardinality(A) - 1
      BY FS_RemoveElement
    <3>. QED BY <3>1
  <2>4. PICK t : Enumerates(t, n, A \ {x}, R)
    BY <1>2, <2>3
  <2> DEFINE s == [i \in 1 .. n + 1 |-> IF i = 1 THEN x ELSE t[i - 1]]
  <2>5. \A i \in 1 .. n + 1 : i # 1 => i - 1 \in 1 .. n
    OBVIOUS
  <2>6. \A i \in 1 .. n : i + 1 \in 1 .. n + 1 /\ i + 1 # 1 /\ (i + 1) - 1 = i
    OBVIOUS
  <2>7. s \in [1 .. n + 1 -> A]
    BY <2>4, <2>5 DEF Enumerates
  <2>8. \A y \in A : \E i \in 1 .. n + 1 : s[i] = y
    <3> SUFFICES ASSUME NEW y \in A PROVE \E i \in 1 .. n + 1 : s[i] = y
      OBVIOUS
    <3>1. CASE y = x
      <4>1. 1 \in 1 .. n + 1
        OBVIOUS
      <4>. QED BY <3>1, <4>1
    <3>2. CASE y # x
      <4>1. PICK i \in 1 .. n : t[i] = y
        BY <2>4, <3>2 DEF Enumerates
      <4>2. s[i + 1] = y
        BY <2>6, <4>1
      <4>. QED BY <2>6, <4>2
    <3>. QED BY <3>1, <3>2
  <2>9. \A i, j \in 1 .. n + 1 : i < j => <<s[i], s[j]>> \in R
    <3> SUFFICES ASSUME NEW i \in 1 .. n + 1, NEW j \in 1 .. n + 1, i < j
                 PROVE  <<s[i], s[j]>> \in R
      OBVIOUS
    <3>1. j # 1 /\ j - 1 \in 1 .. n /\ s[j] = t[j - 1] /\ t[j - 1] \in A \ {x}
      BY <2>4, <2>5 DEF Enumerates
    <3>2. CASE i = 1
      BY <2>2, <3>1, <3>2 DEF LeastOf
    <3>3. CASE i # 1
      <4>1. i - 1 \in 1 .. n /\ i - 1 < j - 1 /\ s[i] = t[i - 1]
        BY <2>5, <3>3
      <4>. QED BY <2>4, <3>1, <4>1 DEF Enumerates
    <3>. QED BY <3>2, <3>3
  <2> HIDE DEF s
  <2>. QED BY <2>7, <2>8, <2>9 DEF Enumerates
<1>3. Cardinality(S) \in Nat
  BY FS_CardinalityType
<1>4. Cardinality(S) \in T
  <2> HIDE DEF T
  <2>. QED BY <1>1, <1>2, <1>3, NatInduct
<1>. QED BY <1>4

\* There is only one way to do so.
LEMMA OrderUnique ==
  ASSUME NEW S, NEW R, TotalOrder(R, S), NEW n \in Nat, NEW k \in Nat,
         NEW s, Enumerates(s, n, S, R), NEW t, Enumerates(t, k, S, R)
  PROVE  \A m \in 1 .. n : m <= k /\ s[m] = t[m]
<1> DEFINE Bad == {m \in 1 .. n : ~(m <= k /\ s[m] = t[m])}
<1> SUFFICES ASSUME Bad # {} PROVE FALSE
  OBVIOUS
<1>1. PICK m \in Bad : \A l \in Bad : m <= l
  <2>1. Bad \in SUBSET Nat
    OBVIOUS
  <2> HIDE DEF Bad
  <2>. QED BY <2>1, NatLeast
<1>2. \A l \in 1 .. n : l < m => l \in 1 .. k /\ s[l] = t[l]
  <2> SUFFICES ASSUME NEW l \in 1 .. n, l < m PROVE l \in 1 .. k /\ s[l] = t[l]
    OBVIOUS
  <2>1. l \notin Bad
    BY <1>1
  <2>. QED BY <2>1
<1>3. m \in 1 .. n /\ s[m] \in S
  BY DEF Enumerates
<1>4. PICK i \in 1 .. k : t[i] = s[m]
  BY <1>3 DEF Enumerates
<1>5. i >= m
  <2> SUFFICES ASSUME i < m PROVE FALSE
    BY <1>3
  <2>1. i \in 1 .. n /\ s[i] = s[m] /\ i < m
    BY <1>2, <1>3, <1>4
  <2>. QED BY <1>3, <2>1 DEF Enumerates, TotalOrder
<1>6. m \in 1 .. k /\ i # m
  BY <1>1, <1>3, <1>4, <1>5
<1>7. <<t[m], s[m]>> \in R /\ t[m] \in S
  BY <1>4, <1>5, <1>6 DEF Enumerates
<1>8. PICK j \in 1 .. n : s[j] = t[m]
  BY <1>7 DEF Enumerates
<1>9. j > m
  <2>1. ~(j < m)
    <3> SUFFICES ASSUME j < m PROVE FALSE
      OBVIOUS
    <3>1. j \in 1 .. k /\ t[j] = t[m]
      BY <1>2, <1>8
    <3>. QED BY <1>6, <1>7, <3>1 DEF Enumerates, TotalOrder
  <2>2. j # m
    BY <1>1, <1>6, <1>8
  <2>. QED BY <1>3, <2>1, <2>2
<1>10. <<s[m], t[m]>> \in R
  BY <1>3, <1>8, <1>9 DEF Enumerates
<1>. QED BY <1>3, <1>7, <1>10 DEF TotalOrder

HostsIn(answer) == {answer[i].host : i \in DOMAIN answer}

\* Some record of host g is preferred to all of host h.
Before(answer, g, h) ==
  \E i \in DOMAIN answer :
    /\ answer[i].host = g
    /\ \A j \in DOMAIN answer : answer[j].host = h => Preferred(answer, i, j)

Ranking(answer) ==
  {p \in HostsIn(answer) \X HostsIn(answer) : Before(answer, p[1], p[2])}

\* Records are in a total order, since no two have the same place.
LEMMA PreferenceTotal ==
  ASSUME NEW answer \in Seq(Record)
  PROVE  TotalOrder({p \in (DOMAIN answer) \X (DOMAIN answer) : Preferred(answer, p[1], p[2])},
                    DOMAIN answer)
<1> DEFINE R == {p \in (DOMAIN answer) \X (DOMAIN answer) : Preferred(answer, p[1], p[2])}
<1>1. \A i \in DOMAIN answer : i \in Nat /\ answer[i].priority \in Nat /\ answer[i].weight \in Nat
  <2>1. \A i \in DOMAIN answer : i \in Nat /\ answer[i] \in Record
    OBVIOUS
  <2>. QED BY <2>1 DEF Record
<1>2. \A i, j \in DOMAIN answer : <<i, j>> \in R <=> Preferred(answer, i, j)
  OBVIOUS
<1>3. \A i \in DOMAIN answer : ~Preferred(answer, i, i)
  BY <1>1 DEF Preferred
<1>4. \A i, j \in DOMAIN answer : i # j => Preferred(answer, i, j) \/ Preferred(answer, j, i)
  BY <1>1 DEF Preferred
<1>5. \A i, j, k \in DOMAIN answer :
        Preferred(answer, i, j) /\ Preferred(answer, j, k) => Preferred(answer, i, k)
  BY <1>1 DEF Preferred
<1> HIDE DEF R
<1>6. TotalOrder(R, DOMAIN answer)
  BY <1>2, <1>3, <1>4, <1>5 DEF TotalOrder
<1>. QED BY <1>6 DEF R

\* So are hosts: each has one record that is preferred to its others.
LEMMA RankingTotal ==
  ASSUME NEW answer \in Seq(Record)
  PROVE  TotalOrder(Ranking(answer), HostsIn(answer))
<1> DEFINE D == DOMAIN answer
           R == {p \in D \X D : Preferred(answer, p[1], p[2])}
<1>1. TotalOrder(R, D)
  BY PreferenceTotal
<1>2. \A i, j \in D : <<i, j>> \in R <=> Preferred(answer, i, j)
  OBVIOUS
<1>3. IsFiniteSet(D)
  <2>1. D = 1 .. Len(answer) /\ Len(answer) \in Nat
    OBVIOUS
  <2>. QED BY <2>1, FS_Interval
<1> HIDE DEF D, R
<1>4. ASSUME NEW h \in HostsIn(answer)
      PROVE  \E i \in D : /\ answer[i].host = h
                          /\ \A j \in D : answer[j].host = h /\ j # i => <<i, j>> \in R
  <2> DEFINE A == {i \in D : answer[i].host = h}
  <2>1. A # {} /\ A \subseteq D
    BY DEF HostsIn, D
  <2>2. IsFiniteSet(A) /\ TotalOrder(R, A)
    BY <1>1, <1>3, <2>1, FS_Subset DEF TotalOrder
  <2>3. PICK i \in A : LeastOf(i, A, R)
    <3> HIDE DEF A
    <3>. QED BY <2>1, <2>2, FiniteLeast
  <2>. QED BY <2>3 DEF LeastOf
<1>5. \A g, h : Before(answer, g, h) <=>
        \E i \in D : answer[i].host = g /\ \A j \in D : answer[j].host = h => <<i, j>> \in R
  BY <1>2 DEF Before, D
<1>6. ASSUME NEW h \in HostsIn(answer) PROVE ~Before(answer, h, h)
  <2> SUFFICES ASSUME Before(answer, h, h) PROVE FALSE
    OBVIOUS
  <2>1. PICK i \in D : answer[i].host = h /\ \A j \in D : answer[j].host = h => <<i, j>> \in R
    BY <1>5
  <2>2. <<i, i>> \in R
    BY <2>1
  <2>. QED BY <1>1, <2>2 DEF TotalOrder
<1>7. ASSUME NEW g \in HostsIn(answer), NEW h \in HostsIn(answer), g # h
      PROVE  Before(answer, g, h) \/ Before(answer, h, g)
  <2>1. PICK i \in D : /\ answer[i].host = g
                       /\ \A j \in D : answer[j].host = g /\ j # i => <<i, j>> \in R
    BY <1>4
  <2>2. CASE \A j \in D : answer[j].host = h => <<i, j>> \in R
    BY <1>5, <2>1, <2>2
  <2>3. ASSUME NEW j \in D, answer[j].host = h, <<i, j>> \notin R
        PROVE  Before(answer, h, g)
    <3>1. <<j, i>> \in R
      BY <1>1, <1>7, <2>1, <2>3 DEF TotalOrder
    <3>2. \A k \in D : answer[k].host = g => <<j, k>> \in R
      BY <1>1, <2>1, <3>1 DEF TotalOrder
    <3>. QED BY <1>5, <2>3, <3>2
  <2>. QED BY <2>2, <2>3
<1>8. ASSUME NEW f, NEW g \in HostsIn(answer), NEW h, Before(answer, f, g), Before(answer, g, h)
      PROVE  Before(answer, f, h)
  <2>1. PICK i \in D : answer[i].host = f /\ \A j \in D : answer[j].host = g => <<i, j>> \in R
    BY <1>5, <1>8
  <2>2. PICK j \in D : answer[j].host = g /\ \A k \in D : answer[k].host = h => <<j, k>> \in R
    BY <1>5, <1>8
  <2>3. \A k \in D : answer[k].host = h => <<i, k>> \in R
    BY <1>1, <2>1, <2>2 DEF TotalOrder
  <2>. QED BY <1>5, <2>1, <2>3
<1>9. \A g, h \in HostsIn(answer) : <<g, h>> \in Ranking(answer) <=> Before(answer, g, h)
  BY DEF Ranking
<1>. QED BY <1>6, <1>7, <1>8, <1>9 DEF TotalOrder

\* What IsOrdering asks is the enumeration of the hosts in that order.
LEMMA OrderingEnumerates ==
  ASSUME NEW answer \in Seq(Record), NEW n \in Nat, NEW hosts,
         hosts \in [1 .. n -> HostsIn(answer)]
  PROVE  IsOrdering(answer, hosts) <=> Enumerates(hosts, n, HostsIn(answer), Ranking(answer))
<1>1. DOMAIN hosts = 1 .. n /\ \A i \in 1 .. n : hosts[i] \in HostsIn(answer)
  OBVIOUS
<1>2. Range(hosts) = HostsIn(answer) <=> \A x \in HostsIn(answer) : \E i \in 1 .. n : hosts[i] = x
  BY <1>1 DEF Range
<1>3. \A i, j \in 1 .. n :
        <<hosts[i], hosts[j]>> \in Ranking(answer) <=> Before(answer, hosts[i], hosts[j])
  BY <1>1 DEF Ranking
<1>4. (\A i, j \in 1 .. n : i < j => <<hosts[i], hosts[j]>> \in Ranking(answer)) => IsInjective(hosts)
  <2> SUFFICES ASSUME \A i, j \in 1 .. n : i < j => <<hosts[i], hosts[j]>> \in Ranking(answer),
                      NEW i \in 1 .. n, NEW j \in 1 .. n, hosts[i] = hosts[j], i # j
               PROVE  FALSE
    BY <1>1 DEF IsInjective
  <2>1. i < j \/ j < i
    OBVIOUS
  <2>. QED BY <1>1, <2>1, RankingTotal DEF TotalOrder
<1>5. IsOrdering(answer, hosts) <=>
        /\ Range(hosts) = HostsIn(answer) /\ IsInjective(hosts)
        /\ \A i, j \in 1 .. n : i < j => Before(answer, hosts[i], hosts[j])
  BY <1>1 DEF IsOrdering, HostsIn, Before
<1>. QED BY <1>2, <1>3, <1>4, <1>5 DEF Enumerates

\* discover_dcs: sorting by priority and weight and dropping repeated hosts makes
\* exactly one list of candidates of every answer, so TriedInOrder is never
\* about an order that does not exist and never leaves a choice.
THEOREM CandidatesDetermined ==
  \A answer \in Answers : \E hosts : Hosts(answer) = {hosts}
<1> SUFFICES ASSUME NEW answer \in Answers PROVE \E hosts : Hosts(answer) = {hosts}
  OBVIOUS
<1> DEFINE H == HostsIn(answer)
           R == Ranking(answer)
<1>1. answer \in Seq(Record) /\ answer # <<>> /\ 1 \in DOMAIN answer
  BY AnswerAssumption
<1>2. H \subseteq Server /\ H # {}
  <2>1. \A i \in DOMAIN answer : answer[i] \in Record
    BY <1>1
  <2>. QED BY <1>1, <2>1 DEF HostsIn, Record
<1>3. /\ IsFiniteSet(H) /\ Cardinality(H) <= Cardinality(Server)
      /\ Cardinality(H) \in Nat /\ Cardinality(H) # 0 /\ Cardinality(Server) \in Nat
  <2> HIDE DEF H
  <2>. QED BY <1>2, ServerAssumption, FS_Subset, FS_EmptySet, FS_CardinalityType
<1>4. TotalOrder(R, H)
  BY <1>1, RankingTotal
<1> HIDE DEF H, R
<1>5. PICK s : Enumerates(s, Cardinality(H), H, R)
  BY <1>3, <1>4, OrderExists
<1>6. s \in Hosts(answer)
  <2>1. s \in [1 .. Cardinality(H) -> H]
    BY <1>5 DEF Enumerates
  <2>2. IsOrdering(answer, s)
    BY <1>1, <1>3, <1>5, <2>1, OrderingEnumerates DEF H, R
  <2>3. Cardinality(H) \in 1 .. Cardinality(Server) /\ s \in [1 .. Cardinality(H) -> Server]
    BY <1>2, <1>3, <2>1
  <2>. QED BY <2>2, <2>3 DEF Hosts, HostLists
<1>7. ASSUME NEW t \in Hosts(answer) PROVE t = s
  <2>1. PICK k \in 1 .. Cardinality(Server) : t \in [1 .. k -> Server]
    BY DEF Hosts, HostLists
  <2>2. IsOrdering(answer, t) /\ k \in Nat
    BY <1>3, <2>1 DEF Hosts
  <2>3. t \in [1 .. k -> H]
    BY <2>1, <2>2 DEF IsOrdering, Range, H, HostsIn
  <2>4. Enumerates(t, k, H, R)
    BY <1>1, <2>2, <2>3, OrderingEnumerates DEF H, R
  <2>5. \A m \in 1 .. k : m <= Cardinality(H) /\ t[m] = s[m]
    BY <1>3, <1>4, <1>5, <2>2, <2>4, OrderUnique
  <2>6. \A m \in 1 .. Cardinality(H) : m <= k
    BY <1>3, <1>4, <1>5, <2>2, <2>4, OrderUnique
  <2>7. k = Cardinality(H)
    <3>1. k \in 1 .. k /\ Cardinality(H) \in 1 .. Cardinality(H)
      BY <1>3, <2>1
    <3>. QED BY <1>3, <2>2, <2>5, <2>6, <3>1
  <2>8. s \in [1 .. k -> H]
    BY <1>5, <2>7 DEF Enumerates
  <2>. QED BY <2>3, <2>5, <2>8
<1>. QED BY <1>6, <1>7

-----------------------------------------------------------------------------
(***************************************************************************)
(* Accounts.                                                               *)
(***************************************************************************)
Seen(a, v) == [attribute \in v |-> Value(a, attribute)]

\* What an attribute tells of an account, if it can be seen.
LEMMA SeenValues ==
  ASSUME NEW a \in Account, NEW v \in SUBSET Attribute
  PROVE  /\ DOMAIN Seen(a, v) = v
         /\ "uac" \in v => /\ Seen(a, v)["uac"].disabled = a.disabled
                           /\ Seen(a, v)["uac"].never = a.neverExpires
         /\ "computed" \in v => /\ Seen(a, v)["computed"].locked = (a.lockout = "active")
                                /\ Seen(a, v)["computed"].expired = PasswordOver(a)
         /\ "lockoutTime" \in v =>
              Seen(a, v)["lockoutTime"] = IF a.lockout = "none" THEN "zero" ELSE "past"
         /\ "expiry" \in v =>
              Seen(a, v)["expiry"] = IF a.neverExpires THEN "max"
                                     ELSE IF a.mustChange THEN "zero" ELSE a.passwordEnds
         /\ "pwdLastSet" \in v =>
              Seen(a, v)["pwdLastSet"] = IF a.mustChange THEN "zero" ELSE "past"
         /\ "accountExpires" \in v => Seen(a, v)["accountExpires"] = a.accountEnds
BY Zenon DEF Seen, Value

\* The facts as functions of the account.
LEMMA Facts ==
  ASSUME NEW a \in Account, NEW v \in SUBSET Attribute
  PROVE  LET see == Seen(a, v) IN
         /\ Enabled(see) = IF "uac" \in v THEN Fact(~a.disabled) ELSE "null"
         /\ Locked(see) = IF "computed" \in v THEN Fact(a.lockout = "active")
                          ELSE IF "lockoutTime" \in v THEN Fact(a.lockout # "none") ELSE "null"
         /\ StalePossible(see) <=> "computed" \notin v /\ Locked(see) = "yes"
         /\ MustChange(see) = IF "pwdLastSet" \in v THEN Fact(a.mustChange) ELSE "null"
         /\ AccountExpired(see) =
              IF "accountExpires" \in v /\ a.accountEnds # "beyond"
                THEN Fact(a.accountEnds = "past") ELSE "null"
         /\ PasswordExpired(see) =
              IF "computed" \in v THEN Fact(PasswordOver(a))
              ELSE IF (a.neverExpires /\ v \cap {"uac", "expiry"} # {}) \/ (a.mustChange /\ "expiry" \in v)
                THEN "no"
              ELSE IF "expiry" \in v THEN Fact(a.passwordEnds = "past") ELSE "null"
<1> DEFINE see == Seen(a, v)
<1>1. /\ a.lockout \in {"none", "lapsed", "active"} /\ a.passwordEnds \in {"past", "future"}
      /\ a.accountEnds \in Filetime
  BY DEF Account
<1>2. DOMAIN see = v
  BY SeenValues
<1> HIDE DEF see
<1>3. Enabled(see) = IF "uac" \in v THEN Fact(~a.disabled) ELSE "null"
  BY <1>2, SeenValues DEF Enabled, see
<1>4. Locked(see) = IF "computed" \in v THEN Fact(a.lockout = "active")
                    ELSE IF "lockoutTime" \in v THEN Fact(a.lockout # "none") ELSE "null"
  BY <1>2, SeenValues DEF Locked, see, Instant, Fact
<1>5. StalePossible(see) <=> "computed" \notin v /\ Locked(see) = "yes"
  BY <1>2 DEF StalePossible
<1>6. MustChange(see) = IF "pwdLastSet" \in v THEN Fact(a.mustChange) ELSE "null"
  BY <1>2, SeenValues DEF MustChange, see, Fact
<1>7. AccountExpired(see) = IF "accountExpires" \in v /\ a.accountEnds # "beyond"
                              THEN Fact(a.accountEnds = "past") ELSE "null"
  BY <1>1, <1>2, SeenValues DEF AccountExpired, see, Fact, IsNever, Instant, Filetime
<1>8. PasswordExpired(see) =
        IF "computed" \in v THEN Fact(PasswordOver(a))
        ELSE IF (a.neverExpires /\ v \cap {"uac", "expiry"} # {}) \/ (a.mustChange /\ "expiry" \in v)
          THEN "no"
        ELSE IF "expiry" \in v THEN Fact(a.passwordEnds = "past") ELSE "null"
  BY <1>1, <1>2, SeenValues DEF PasswordExpired, NeverExpires, see, IsNever, Instant, Fact
<1>. QED BY <1>3, <1>4, <1>5, <1>6, <1>7, <1>8 DEF see

LEMMA DerivedFaithful ==
  ASSUME NEW a \in Account, NEW v \in SUBSET Attribute
  PROVE  Faithful(Derive(a, v), Blocked(a))
<1> DEFINE see == Seen(a, v)
<1>1. Derive(a, v) = [blockers |-> Blockers(see), unavailable |-> Unavailable(see),
                      stale |-> StalePossible(see),
                      facts |-> <<Enabled(see), Locked(see), PasswordExpired(see), AccountExpired(see)>>]
  BY DEF Derive, Seen
<1> DEFINE named == Blockers(see)
           blocked == Blocked(a)
           told == named \cup {b \in blocked : FactOf(b) \in Unavailable(see)}
<1>2. a.lockout \in {"none", "lapsed", "active"} /\ a.passwordEnds \in {"past", "future"}
      /\ a.accountEnds \in Filetime
  BY DEF Account
<1> HIDE DEF see
<1>3. /\ "disabled" \in named <=> "uac" \in v /\ a.disabled
      /\ "locked_out" \in named <=> Locked(see) = "yes"
      /\ "password_expired" \in named <=> PasswordExpired(see) = "yes"
      /\ "must_change_password" \in named <=> "pwdLastSet" \in v /\ a.mustChange
      /\ "account_expired" \in named <=> "accountExpires" \in v /\ a.accountEnds = "past"
  BY Facts DEF Blockers, Fact, see
<1>4. /\ "disabled" \in blocked <=> a.disabled
      /\ "locked_out" \in blocked <=> a.lockout = "active"
      /\ "password_expired" \in blocked <=> PasswordOver(a)
      /\ "must_change_password" \in blocked <=> a.mustChange
      /\ "account_expired" \in blocked <=> a.accountEnds = "past"
  BY DEF Blocked
<1>5. /\ "enabled" \in Unavailable(see) <=> "uac" \notin v
      /\ "locked" \in Unavailable(see) <=> Locked(see) = "null"
      /\ "password_expired" \in Unavailable(see) <=> PasswordExpired(see) = "null"
      /\ "must_change_password" \in Unavailable(see) <=> "pwdLastSet" \notin v
      /\ "account_expired" \in Unavailable(see) <=> "accountExpires" \notin v
  <2>1. DOMAIN see = v
    BY SeenValues DEF see
  <2>. QED BY <2>1, Facts DEF Unavailable, Fact, see
<1>6. \A b \in named \cup blocked :
        b \in {"disabled", "locked_out", "password_expired", "must_change_password", "account_expired"}
  BY DEF Blockers, Blocked
<1>7. /\ FactOf("disabled") = "enabled" /\ FactOf("locked_out") = "locked"
      /\ FactOf("password_expired") = "password_expired"
      /\ FactOf("must_change_password") = "must_change_password"
      /\ FactOf("account_expired") = "account_expired"
  BY DEF FactOf
<1>8. /\ Locked(see) = IF "computed" \in v THEN Fact(a.lockout = "active")
                       ELSE IF "lockoutTime" \in v THEN Fact(a.lockout # "none") ELSE "null"
      /\ StalePossible(see) <=> "computed" \notin v /\ Locked(see) = "yes"
  BY Facts DEF see
<1>9. PasswordExpired(see) =
        IF "computed" \in v THEN Fact(PasswordOver(a))
        ELSE IF (a.neverExpires /\ v \cap {"uac", "expiry"} # {}) \/ (a.mustChange /\ "expiry" \in v)
          THEN "no"
        ELSE IF "expiry" \in v THEN Fact(a.passwordEnds = "past") ELSE "null"
  BY Facts DEF see
<1>10. /\ PasswordExpired(see) = "yes" => PasswordOver(a)
       /\ PasswordOver(a) => PasswordExpired(see) \in {"yes", "null"} \/ a.mustChange
  <2>1. CASE "computed" \in v
    BY <1>9, <2>1 DEF Fact
  <2>2. CASE "computed" \notin v
    BY <1>2, <1>9, <2>2 DEF Fact, PasswordOver
  <2>. QED BY <2>1, <2>2
<1>11. /\ Locked(see) = "yes" => a.lockout = "active" \/ StalePossible(see)
       /\ a.lockout = "active" => Locked(see) \in {"yes", "null"}
  BY <1>2, <1>8 DEF Fact
<1> HIDE DEF named, blocked
<1>12. \A b \in named \ blocked : StalePossible(see) /\ b = "locked_out"
  BY <1>3, <1>4, <1>6, <1>10, <1>11
<1>13. \A b \in blocked \ told : b = "password_expired" /\ "must_change_password" \in told
  BY <1>3, <1>4, <1>5, <1>6, <1>7, <1>10, <1>11
<1>14. /\ named \ blocked \subseteq (IF StalePossible(see) THEN {"locked_out"} ELSE {})
       /\ blocked \ told \subseteq
            (IF "must_change_password" \in told THEN {"password_expired"} ELSE {})
  BY <1>12, <1>13
<1> DEFINE report == Derive(a, v)
<1>15. report.blockers = named /\ report.unavailable = Unavailable(see)
       /\ report.stale = StalePossible(see)
  BY <1>1 DEF named
<1>. QED BY <1>14, <1>15 DEF Faithful, blocked

\* Who may read every attribute is told what keeps an account from signing in.
LEMMA FullSight ==
  ASSUME NEW a \in Account
  PROVE  Derive(a, Attribute).blockers = Blocked(a)
<1> DEFINE see == Seen(a, Attribute)
<1>1. Derive(a, Attribute).blockers = Blockers(see)
  BY DEF Derive, Seen
<1>2. a.accountEnds \in Filetime
  BY DEF Account
<1>3. Attribute \in SUBSET Attribute /\ "uac" \in Attribute /\ "computed" \in Attribute
      /\ "pwdLastSet" \in Attribute /\ "accountExpires" \in Attribute
  BY DEF Attribute
<1>4. /\ Enabled(see) = Fact(~a.disabled) /\ Locked(see) = Fact(a.lockout = "active")
      /\ PasswordExpired(see) = Fact(PasswordOver(a)) /\ MustChange(see) = Fact(a.mustChange)
      /\ AccountExpired(see) =
           IF a.accountEnds # "beyond" THEN Fact(a.accountEnds = "past") ELSE "null"
  BY <1>3, Facts
<1> HIDE DEF see
<1>5. /\ Enabled(see) = "no" <=> a.disabled
      /\ Locked(see) = "yes" <=> a.lockout = "active"
      /\ PasswordExpired(see) = "yes" <=> PasswordOver(a)
      /\ MustChange(see) = "yes" <=> a.mustChange
      /\ AccountExpired(see) = "yes" <=> a.accountEnds = "past"
  BY <1>2, <1>4 DEF Fact, Filetime
<1>6. Blockers(see) = Blocked(a)
  BY <1>5 DEF Blockers, Blocked
<1>. QED BY <1>1, <1>6

-----------------------------------------------------------------------------
\* What an outcome says of an account was derived from one that was there.
Derived(c, o) ==
  IF c.name = "user" /\ o.says = "ok"
    THEN \E a \in Account : o.status = Derive(a, c.visible) /\ o.blocked = Blocked(a)
    ELSE o.blocked = {}

StatusInv ==
  /\ \A r \in Range(rounds) \cup {outcomes} : \A i \in DOMAIN r : Derived(command, r[i])
  /\ ~command.watch => shown = "none"
  /\ shown = "no change" =>
       Len(rounds) = 2 /\ StatusSignature(rounds[1]) = StatusSignature(rounds[2])

LEMMA StatusStep == StatusInv /\ NamesInv /\ [CommandNext]_allVars => StatusInv'
<1> SUFFICES ASSUME StatusInv, NamesInv, [CommandNext]_allVars PROVE StatusInv'
  OBVIOUS
<1>0. /\ Listed(outcomes) /\ command \in Command
      /\ \A r \in Range(rounds) \cup {outcomes} : \A i \in DOMAIN r : Derived(command, r[i])
  BY DEF NamesInv, Rounded, StatusInv
\* Most steps leave alone what was said.
<1>1. ASSUME UNCHANGED <<command, outcomes, rounds, shown>>
      PROVE  StatusInv'
  BY <1>1 DEF StatusInv, StatusSignature
<1>2. CASE RejectOptions \/ Check \/ Groups \/ Member \/ User \/ Members \/ Show \/ InCall
           \/ Connected \/ SearchMore \/ Wake(calls + 1) \/ Raised \/ Leave \/ Interrupt
           \/ Outside \/ Library
  BY <1>1, <1>2 DEF RejectOptions, Check, Groups, Member, User, Members, Show, Starts, InCall,
     Connected, SearchMore, Wake, Raised, Unwind, Leave, Interrupt, Outside, Library, commandVars
\* What is said of the next name.
<1>3. ASSUME UNCHANGED <<command, rounds, shown>>,
             \A i \in DOMAIN outcomes' : Derived(command, outcomes'[i])
      PROVE  StatusInv'
  BY <1>3 DEF StatusInv, StatusSignature
<1>4. ASSUME NEW o, Take(o), Derived(command, o)
      PROVE  StatusInv'
  <2>1. outcomes' = Append(outcomes, o) /\ UNCHANGED <<command, rounds, shown>>
    BY <1>4 DEF Take
  <2> DEFINE os == Append(outcomes, o)
  <2>2. \A i \in DOMAIN os : (i \in DOMAIN outcomes /\ os[i] = outcomes[i]) \/ os[i] = o
    BY <1>0, Appended
  <2> HIDE DEF os
  <2>3. \A i \in DOMAIN os : Derived(command, os[i])
    BY <1>0, <1>4, <2>2
  <2>. QED BY <1>3, <2>1, <2>3 DEF os
<1>5. ASSUME NEW e, e # "ok"
      PROVE  Derived(command, Failed(e))
  BY <1>5 DEF Derived, Failed
<1>6. \A e \in Typed : e # "ok"
  BY DEF Typed, ConnectError, OtherError, ReachError
<1>7. CASE ConnectFails
  <2> DEFINE os == [i \in 1 .. command.names |-> Failed(result)]
  <2>1. outcomes' = os /\ UNCHANGED <<command, rounds, shown>> /\ result \in Typed
    BY <1>7 DEF ConnectFails, Returned
  <2>2. \A i \in DOMAIN os : os[i] = Failed(result)
    OBVIOUS
  <2> HIDE DEF os
  <2>. QED BY <1>3, <1>5, <1>6, <2>1, <2>2
<1>8. CASE user_status
  <2>1. command.name = "user" /\ command.accounts \subseteq Account
    BY <1>0, <1>8, CommandAssumption DEF user_status, CommandType
  <2>2. PICK a \in command.accounts :
          Take([says |-> "ok", status |-> Derive(a, command.visible), blocked |-> Blocked(a),
                by |-> session.id])
    BY <1>8, Zenon DEF user_status
  <2> DEFINE o == [says |-> "ok", status |-> Derive(a, command.visible), blocked |-> Blocked(a),
                   by |-> session.id]
  <2>3. o.says = "ok" /\ o.status = Derive(a, command.visible) /\ o.blocked = Blocked(a)
    OBVIOUS
  <2>4. Take(o)
    BY <2>2
  <2> HIDE DEF o
  <2>5. Derived(command, o)
    BY <2>1, <2>3 DEF Derived
  <2>. QED BY <1>4, <2>4, <2>5
<1>9. CASE Answer
  <2>1. PICK says : Take([says |-> says, status |-> NoStatus, blocked |-> {}, by |-> session.id])
    BY <1>9, Zenon DEF Answer
  <2> DEFINE o == [says |-> says, status |-> NoStatus, blocked |-> {}, by |-> session.id]
  <2>2. command.name # "user"
    BY <1>9 DEF Answer
  <2>3. o.blocked = {} /\ Take(o)
    BY <2>1
  <2> HIDE DEF o
  <2>4. Derived(command, o)
    BY <2>2, <2>3 DEF Derived
  <2>. QED BY <1>4, <2>3, <2>4
<1>10. CASE NotOne \/ RedirectFails \/ NameFails
  <2>1. PICK e : Take(Failed(e)) /\ e # "ok"
    BY <1>6, <1>10 DEF NotOne, RedirectFails, NameFails, Returned
  <2>. QED BY <1>4, <1>5, <2>1
\* A round that ends is compared with the last one.
<1>11. CASE Emit
  <2>1. /\ \A r \in Range(rounds') : r \in Range(rounds) \cup {outcomes}
        /\ rounds # <<>> =>
             Len(rounds') = 2 /\ rounds'[1] = Last(rounds) /\ rounds'[2] = outcomes
    BY <1>11, RoundAdded
  <2>2. outcomes' = <<>> /\ command' = command /\ DOMAIN <<>> = {}
    BY <1>11 DEF Emit
  <2>3. (\A r \in Range(rounds) \cup {outcomes} : \A i \in DOMAIN r : Derived(command, r[i]))'
    BY <1>0, <2>1, <2>2
  <2>4. CASE command.watch
    <3>1. shown' = Compared(rounds, outcomes)
      BY <1>11, <2>4 DEF Emit
    <3>2. shown' = "no change" =>
            rounds # <<>> /\ StatusSignature(outcomes) = StatusSignature(Last(rounds))
      BY <3>1 DEF Compared
    <3>3. shown' = "no change" =>
            Len(rounds') = 2 /\ StatusSignature(rounds'[1]) = StatusSignature(rounds'[2])
      BY <2>1, <3>2
    <3>. QED BY <2>2, <2>3, <2>4, <3>3 DEF StatusInv, StatusSignature
  <2>5. CASE ~command.watch
    <3>1. shown' = "none"
      BY <1>11, <2>5 DEF Emit, StatusInv
    <3>. QED BY <2>3, <3>1 DEF StatusInv
  <2>. QED BY <2>4, <2>5
<1>12. CASE UNCHANGED allVars
  BY <1>1, <1>12 DEF allVars, commandVars
<1>. QED BY <1>2, <1>7, <1>8, <1>9, <1>10, <1>11, <1>12 DEF CommandNext, Progress

LEMMA StatusInitially == CommandInit => StatusInv
<1>1. DOMAIN <<>> = {}
  OBVIOUS
<1>. QED BY <1>1 DEF CommandInit, StatusInv, Range

LEMMA StatusFollows == StatusInv /\ NamesInv => StatusTrue
<1> SUFFICES ASSUME StatusInv, NamesInv PROVE StatusTrue
  OBVIOUS
<1>1. /\ \A r \in Range(rounds) \cup {outcomes} : \A i \in DOMAIN r : Derived(command, r[i])
      /\ Listed(rounds) /\ command \in Command
      /\ \A r \in Range(rounds) : Listed(r) /\ Len(r) = command.names
  BY DEF StatusInv, NamesInv, Rounded
<1>2. command \in CommandType /\ (command.watch => command.name = "user")
  BY <1>1, CommandAssumption
<1>3. ASSUME NEW i \in DOMAIN outcomes, command.name = "user", outcomes[i].says = "ok"
      PROVE  Faithful(outcomes[i].status, outcomes[i].blocked)
  <2>1. Derived(command, outcomes[i])
    BY <1>1
  <2>2. PICK a \in Account : /\ outcomes[i].status = Derive(a, command.visible)
                             /\ outcomes[i].blocked = Blocked(a)
    BY <1>3, <2>1 DEF Derived
  <2>3. command.visible \in SUBSET Attribute
    BY <1>2 DEF CommandType
  <2>. QED BY <2>2, <2>3, DerivedFaithful
<1>4. ASSUME shown = "no change", command.visible = Attribute, NEW i \in 1 .. command.names
      PROVE  /\ rounds[1][i].says = rounds[2][i].says
             /\ rounds[1][i].blocked = rounds[2][i].blocked
  <2>1. /\ Len(rounds) = 2 /\ StatusSignature(rounds[1]) = StatusSignature(rounds[2])
        /\ command.name = "user"
    BY <1>2, <1>4 DEF StatusInv
  <2>2. rounds[1] \in Range(rounds) /\ rounds[2] \in Range(rounds)
    <3>1. 1 \in DOMAIN rounds /\ 2 \in DOMAIN rounds
      BY <1>1, <2>1 DEF Listed
    <3>. QED BY <3>1 DEF Range
  <2>3. i \in DOMAIN rounds[1] /\ i \in DOMAIN rounds[2]
    <3>1. \A r \in Range(rounds) : DOMAIN r = 1 .. command.names
      BY <1>1 DEF Listed
    <3>. QED BY <2>2, <3>1
  <2>4. Derived(command, rounds[1][i]) /\ Derived(command, rounds[2][i])
    BY <1>1, <2>2, <2>3
  <2>5. \A r : i \in DOMAIN r => /\ StatusSignature(r)[i][1] = r[i].says
                                 /\ StatusSignature(r)[i][2] = r[i].status.blockers
    BY DEF StatusSignature
  <2> HIDE DEF StatusSignature
  <2>6. /\ rounds[1][i].says = rounds[2][i].says
        /\ rounds[1][i].status.blockers = rounds[2][i].status.blockers
    BY <2>1, <2>3, <2>5
  <2>7. \A o : Derived(command, o) /\ o.says = "ok" => o.blocked = o.status.blockers
    BY <1>4, <2>1, FullSight DEF Derived
  <2>8. \A o : Derived(command, o) /\ o.says # "ok" => o.blocked = {}
    BY DEF Derived
  <2>. QED BY <2>4, <2>6, <2>7, <2>8
<1>. QED BY <1>3, <1>4 DEF StatusTrue

-----------------------------------------------------------------------------
(***************************************************************************)
(* The theorems.                                                           *)
(***************************************************************************)
\* A client of any Python caller holds no connection but its own: what a call
\* opens it closes, or keeps as the session.
THEOREM LibraryConnections == Spec => []ConnectionsOwned
BY LibraryInvariance, Connections, PTL

\* The same of the client of a command.
THEOREM AdConnections == CommandSpec => []ConnectionsOwned
BY CommandInvariance, Connections, PTL

\* No password travels unencrypted that was not to, and credentials that were
\* rejected once are not tried on the next server of that call.
THEOREM AdCredentials == CommandSpec => []CredentialsCovered
BY CommandInvariance, Credentials, PTL

\* Candidates are tried in the order of their records, none twice, and all of
\* them before the caller hears that none can be reached.
THEOREM AdOrder == CommandSpec => []TriedInOrder
BY CommandInvariance, Order, PTL

\* The stages in a report of check are those of one candidate, and complete.
THEOREM AdReport == CommandSpec => []ReportTrue
BY CommandInvariance, Report, PTL

\* Art. IX, SC-004: every round has one outcome for each name, the exit code sums
\* up the last complete one, all answers come over one session, and a command
\* that is over has closed it, whichever way it ended.
THEOREM AdNames == CommandSpec => []NamesTold
BY NamesAlways, Names, PTL

\* FR-009, US1 and R10: what `user` names as a blocker keeps the account from
\* signing in, and what does so is named or listed as unavailable, whatever the
\* bound account may read; and --watch notices when the reasons change.
THEOREM AdStatus == CommandSpec => []StatusTrue
BY StatusInitially, StatusStep, StatusFollows, NamesAlways, PTL DEF CommandSpec
=============================================================================
