------------------------------ MODULE NetProofs ------------------------------
(***************************************************************************)
(* Proofs about NetAttempt, for any number of addresses, retries and       *)
(* pieces of an answer: the sockets of an attempt, and what its outcome    *)
(* rests on.                                                               *)
(***************************************************************************)
EXTENDS NetAttempt, FiniteSetTheorems, TLAPS

Entry == [addr : Address, signal : Signal]

-----------------------------------------------------------------------------
(***************************************************************************)
(* The operators the actions are built from.                               *)
(***************************************************************************)
\* What one more answer of the network makes of the log.
LEMMA HeardLog ==
  ASSUME log \in Seq(Entry), at \in Address, NEW s \in Signal, Heard(s)
  PROVE  /\ log' \in Seq(Entry)
         /\ Len(log) \in Nat /\ DOMAIN log = 1 .. Len(log)
         /\ Len(log') = Len(log) + 1 /\ DOMAIN log' = 1 .. Len(log) + 1
         /\ \A i \in 1 .. Len(log) : log'[i] = log[i]
         /\ log'[Len(log) + 1] = [addr |-> at, signal |-> s]
<1>1. [addr |-> at, signal |-> s] \in Entry
  BY DEF Entry
<1>2. log' = Append(log, [addr |-> at, signal |-> s])
  BY DEF Heard
<1>. QED BY <1>1, <1>2

\* The status of a proxy never makes a timeout.
LEMMA StatusErrorType ==
  ASSUME NEW s \in Status
  PROVE  StatusError(s) \in NetError \ {"ConnectTimeout", "UdpInconclusive"}
BY DEF Status, StatusError, NetError

LEMMA TunnelSilentType ==
  ASSUME TypeOK, TunnelSilent
  PROVE  /\ pc' \in {"resolve", "failed"}
         /\ round' \in 0 .. retries /\ pass' \in 0 .. Passes /\ at' \in Address
         /\ outcome' \in {outcome, "ProxyConnectTimeout"}
<1>1. retries \in Nat /\ round \in Nat
  BY BoundAssumption DEF TypeOK
<1>2. CASE round < retries
  BY <1>1, <1>2 DEF TypeOK, TunnelSilent
<1>3. CASE ~(round < retries)
  BY <1>1, <1>3 DEF TypeOK, TunnelSilent, Raise, loop
<1>. QED BY <1>2, <1>3

LEMMA GiveUpType ==
  ASSUME TypeOK, GiveUp
  PROVE  /\ pc' \in {"resolve", "failed"}
         /\ round' \in 0 .. retries /\ pass' \in 0 .. Passes /\ at' \in Address
         /\ outcome' \in NetError \cup {outcome}
<1>1. CASE refused' /\ Raise(IF Proxied THEN "ProxyConnectRefused" ELSE "ConnectRefused")
  BY <1>1 DEF Raise, loop, TypeOK, NetError
<1>2. CASE ~refused' /\ Proxied /\ TunnelSilent
  BY <1>2, TunnelSilentType DEF NetError
<1>3. CASE ~refused' /\ mode = "tcp" /\ Raise("ConnectTimeout")
  BY <1>3 DEF Raise, loop, TypeOK, NetError
<1>4. CASE ~refused' /\ mode = "udp" /\ Raise("UdpInconclusive")
  BY <1>4 DEF Raise, loop, TypeOK, NetError
<1>. QED BY <1>1, <1>2, <1>3, <1>4 DEF GiveUp

LEMMA NextAddressType ==
  ASSUME TypeOK, NextAddress
  PROVE  /\ pc' \in {"resolve", "dial", "failed"}
         /\ round' \in 0 .. retries /\ pass' \in 0 .. Passes /\ at' \in Address
         /\ outcome' \in NetError \cup {outcome}
<1>1. CASE at < addrs /\ pc' = "dial" /\ at' = at + 1 /\ UNCHANGED <<round, pass, outcome>>
  BY <1>1, BoundAssumption DEF TypeOK, Address
<1>2. CASE /\ at = addrs /\ ~refused' /\ pass < Passes
           /\ pc' = "dial" /\ at' = 1 /\ pass' = pass + 1
           /\ UNCHANGED <<round, outcome>>
  <2>1. Passes \in Nat
    BY BoundAssumption DEF TypeOK, Passes
  <2>. QED BY <1>2, <2>1, BoundAssumption DEF TypeOK, Address
<1>3. CASE at = addrs /\ (refused' \/ pass = Passes) /\ GiveUp
  BY <1>3, GiveUpType
<1>. QED BY <1>1, <1>2, <1>3 DEF NextAddress

-----------------------------------------------------------------------------
(***************************************************************************)
(* Types and sockets.                                                      *)
(***************************************************************************)
\* What no action changes.
LEMMA AskingStep ==
  ASSUME [AttemptStep]_attemptVars
  PROVE  mode' = mode /\ retries' = retries
<1>1. CASE AttemptStep
  BY <1>1 DEF AttemptStep, ResolveFails, Resolve, SocketFails, OpenSocket, Silent,
       Refuses, Accepts, Replies, Unreachable, SendRequest, ReadChunk, ReadTooMuch,
       ReadSilent, ReadBroken, Verdict, AnswerCut, Answer, asking
<1>2. CASE UNCHANGED attemptVars
  BY <1>2 DEF attemptVars
<1>. QED BY <1>1, <1>2

\* The invariant of the sockets, and the types with it.
LEMMA SocketFresh == mode \in Modes /\ retries \in 0 .. MaxRetries /\ Fresh => SocketOwned
<1> SUFFICES ASSUME mode \in Modes, retries \in 0 .. MaxRetries, Fresh
             PROVE  SocketOwned
  OBVIOUS
<1>1. Passes \in Nat
  BY BoundAssumption DEF Passes
<1>2. log \in Seq([addr : Address, signal : Signal])
  BY DEF Fresh
<1>3. 1 \in Address /\ MaxAddr \in Nat /\ MaxChunks \in Nat /\ retries \in Nat
  BY BoundAssumption DEF Address
<1>4. refused \in BOOLEAN
  BY ZenonT(20) DEF Fresh
<1>5. TypeOK
  BY <1>1, <1>2, <1>3, <1>4 DEF Fresh, TypeOK
<1>. QED BY <1>5 DEF Fresh, SocketOwned

LEMMA SocketStep ==
  ASSUME SocketOwned, [AttemptStep]_attemptVars
  PROVE  SocketOwned'
<1> USE DEF SocketOwned
<1>0. TypeOK /\ mode' = mode /\ retries' = retries /\ Passes' = Passes
  BY AskingStep DEF Passes, Proxied
<1>1. Passes \in Nat /\ retries \in Nat /\ MaxAddr \in Nat
  BY <1>0, BoundAssumption DEF TypeOK, Passes
<1>2. ASSUME NEW s \in Signal, Heard(s)
      PROVE  log' \in Seq([addr : Address, signal : Signal])
  <2>1. log \in Seq(Entry) /\ at \in Address
    BY <1>0 DEF TypeOK, Entry
  <2>. QED BY <1>2, <2>1, HeardLog DEF Entry
<1>3. ASSUME ResolveFails
      PROVE  SocketOwned'
  BY <1>0, <1>3 DEF ResolveFails, Raise, loop, asking, TypeOK, NetError
<1>4. ASSUME Resolve
      PROVE  SocketOwned'
  <2>1. 1 \in Address /\ \A n \in Address : n \in 0 .. MaxAddr
    BY BoundAssumption DEF Address
  <2>2. refused' \in BOOLEAN
    BY <1>4, Zenon DEF Resolve
  <2>3. TypeOK'
    BY <1>0, <1>1, <1>4, <2>1, <2>2 DEF Resolve, asking, TypeOK
  <2>. QED BY <1>0, <1>4, <2>3 DEF Resolve
<1>5. ASSUME SocketFails
      PROVE  SocketOwned'
  BY <1>0, <1>5 DEF SocketFails, Raise, loop, asking, TypeOK, NetError
<1>6. ASSUME OpenSocket
      PROVE  SocketOwned'
  BY <1>0, <1>6 DEF OpenSocket, loop, asking, TypeOK
<1>7. ASSUME NEW s \in Signal, Heard(s), Close, NextAddress, refused' \in BOOLEAN,
             UNCHANGED <<asking, addrs, chunks>>
      PROVE  SocketOwned'
  <2>1. /\ pc' \in {"resolve", "dial", "failed"}
        /\ round' \in 0 .. retries /\ pass' \in 0 .. Passes /\ at' \in Address
        /\ outcome' \in NetError \cup {outcome}
    BY <1>0, <1>7, NextAddressType
  <2>2. log' \in Seq([addr : Address, signal : Signal])
    BY <1>2, <1>7
  <2>. QED BY <1>0, <1>7, <2>1, <2>2 DEF Close, TypeOK, asking
<1>8. ASSUME Silent
      PROVE  SocketOwned'
  <2>1. refused' \in BOOLEAN /\ "silence" \in Signal
    BY <1>0, <1>8 DEF Silent, TypeOK, Signal
  <2>. QED BY <1>7, <1>8, <2>1 DEF Silent
<1>9. ASSUME Refuses
      PROVE  SocketOwned'
  <2>1. refused' \in BOOLEAN /\ "refuse" \in Signal
    BY <1>9 DEF Refuses, Signal
  <2>. QED BY <1>7, <1>9, <2>1 DEF Refuses
<1>10. ASSUME NEW s \in Signal, Heard(s), pc \in {"wait", "read"},
              pc' \in {"send", "connected"},
              UNCHANGED <<asking, addrs, loop, refused, open, chunks, outcome>>
       PROVE  SocketOwned'
  <2>1. log' \in Seq([addr : Address, signal : Signal])
    BY <1>2, <1>10
  <2>. QED BY <1>0, <1>10, <2>1 DEF TypeOK, asking, loop
<1>11. ASSUME Accepts
       PROVE  SocketOwned'
  <2>1. pc' \in {"send", "connected"} /\ "accept" \in Signal /\ pc = "wait"
    BY <1>11 DEF Accepts, Signal
  <2>. QED BY <1>10, <1>11, <2>1 DEF Accepts
<1>12. ASSUME Replies
       PROVE  SocketOwned'
  <2>1. pc' = "connected" /\ "reply" \in Signal /\ pc = "wait"
    BY <1>12 DEF Replies, Signal
  <2>. QED BY <1>10, <1>12, <2>1 DEF Replies
<1>13. ASSUME NEW s \in Signal, NEW e \in NetError, Heard(s), Raise(e), Close,
              UNCHANGED <<asking, addrs, refused, chunks>>
       PROVE  SocketOwned'
  <2>1. log' \in Seq([addr : Address, signal : Signal])
    BY <1>2, <1>13
  <2>. QED BY <1>0, <1>13, <2>1 DEF TypeOK, asking, loop, Raise, Close
<1>14. ASSUME Unreachable
       PROVE  SocketOwned'
  <2>1. {"icmp", "unreachable"} \subseteq Signal
        /\ {"UdpClosed", "ConnectRefused", "NetError"} \subseteq NetError
    BY DEF Signal, NetError
  <2>. QED BY <1>13, <1>14, <2>1 DEF Unreachable
<1>15. ASSUME TunnelSilent, Close, log' \in Seq([addr : Address, signal : Signal]),
              UNCHANGED <<asking, addrs, refused, chunks>>
       PROVE  SocketOwned'
  <2>1. /\ pc' \in {"resolve", "failed"}
        /\ round' \in 0 .. retries /\ pass' \in 0 .. Passes /\ at' \in Address
        /\ outcome' \in {outcome, "ProxyConnectTimeout"}
    BY <1>0, <1>15, TunnelSilentType
  <2>. QED BY <1>0, <1>15, <2>1 DEF Close, TypeOK, asking, NetError
<1>16. ASSUME SendRequest
       PROVE  SocketOwned'
  <2>1. log' \in Seq([addr : Address, signal : Signal])
    BY <1>0, <1>16 DEF SendRequest, TypeOK
  <2>2. CASE pc' = "read" /\ chunks' = 0 /\ UNCHANGED <<loop, open, outcome>>
    BY <1>0, <1>16, <2>1, <2>2, BoundAssumption DEF SendRequest, TypeOK, asking, loop
  <2>3. CASE TunnelSilent /\ Close /\ UNCHANGED chunks
    BY <1>15, <1>16, <2>1, <2>3 DEF SendRequest
  <2>4. CASE Raise("ProxyProtocolError") /\ Close /\ UNCHANGED chunks
    BY <1>0, <1>16, <2>1, <2>4 DEF SendRequest, TypeOK, asking, loop, Raise, Close, NetError
  <2>. QED BY <1>16, <2>2, <2>3, <2>4 DEF SendRequest
<1>17. ASSUME ReadChunk
       PROVE  SocketOwned'
  BY <1>0, <1>17, BoundAssumption DEF ReadChunk, TypeOK, asking, loop
<1>18. ASSUME ReadTooMuch \/ ReadBroken
       PROVE  SocketOwned'
  BY <1>0, <1>18 DEF ReadTooMuch, ReadBroken, TypeOK, asking, loop, Raise, Close, NetError
<1>19. ASSUME ReadSilent
       PROVE  SocketOwned'
  <2>1. log' \in Seq([addr : Address, signal : Signal])
    BY <1>2, <1>19 DEF ReadSilent, Signal
  <2>. QED BY <1>15, <1>19, <2>1 DEF ReadSilent
<1>20. ASSUME NEW s \in Status, AnswerCut(s)
       PROVE  SocketOwned'
  <2>1. PICK t \in Signal : Heard(t)
    BY <1>20 DEF AnswerCut, Signal
  <2>2. StatusError(s) \in NetError
    BY StatusErrorType
  <2>. QED BY <1>13, <1>20, <2>1, <2>2 DEF AnswerCut
<1>21. ASSUME NEW s \in Status, Answer(s)
       PROVE  SocketOwned'
  <2>1. s \in Signal /\ StatusError(s) \in NetError
    BY StatusErrorType DEF Signal
  <2>2. CASE s = "2xx"
    BY <1>10, <1>21, <2>1, <2>2 DEF Answer
  <2>3. CASE s # "2xx"
    BY <1>13, <1>21, <2>1, <2>3 DEF Answer
  <2>. QED BY <2>2, <2>3
<1>22. ASSUME Verdict
       PROVE  SocketOwned'
  BY <1>0, <1>22 DEF Verdict, TypeOK, asking, loop, Close
<1>23. CASE UNCHANGED attemptVars
  BY <1>0, <1>23 DEF attemptVars, TypeOK
<1>. QED
  BY <1>3, <1>4, <1>5, <1>6, <1>8, <1>9, <1>11, <1>12, <1>14, <1>16, <1>17, <1>18,
     <1>19, <1>20, <1>21, <1>22, <1>23 DEF AttemptStep

-----------------------------------------------------------------------------
(***************************************************************************)
(* What the log says, and what follows from it.                            *)
(***************************************************************************)
Final == Status \cup {"cut", "reply", "icmp", "unreachable"}
Ended == {"connected", "returned", "failed"}
Walking == ~Proxied /\ pc \in {"dial", "wait"}

\* What an open verdict has to rest on.
Proof(m) == CASE m = "tcp" -> "accept" [] m = "udp" -> "reply" [] m = "proxy" -> "2xx"

\* The walk stays on the addresses of the name, only a proxy gets a request,
\* and the outcome is set when the attempt ends.
Orderly ==
  /\ pc \in {"dial", "wait"} => at <= addrs
  /\ pc \in {"send", "read"} => Proxied
  /\ pc = "resolve" /\ ~Proxied => log = <<>>
  /\ pc \notin {"returned", "failed"} => outcome = "none"
  /\ pc = "failed" => outcome # "open"

\* Nothing final has been heard while the attempt goes on.
Unsettled == pc \notin Ended => \A i \in DOMAIN log : log[i].signal \notin Final

\* A walk hears silence and refusals, and has left the addresses that refused
\* behind.
LeftBehind ==
  Walking => \A i \in DOMAIN log :
    /\ log[i].signal \in {"silence", "refuse"}
    /\ log[i].signal = "refuse" => refused /\ log[i].addr < at

\* Without a refusal every address was tried once a pass.
Counted ==
  Walking /\ ~refused =>
    \A a \in 1 .. addrs : Tries(a) = IF a < at THEN pass + 1 ELSE pass

\* An attempt that reaches the port heard what it takes.
Reached ==
  pc \in {"connected", "returned"} =>
    log # <<>> /\ log[Len(log)].signal = Proof(mode)

WalkInv ==
  /\ SocketOwned /\ Orderly /\ Unsettled /\ LeftBehind /\ Counted /\ Reached
  /\ SilenceIsSilence /\ AnswersAreFinal

\* How the log counts the tries.
LEMMA TriesHeard ==
  ASSUME log \in Seq(Entry), at \in Address, NEW s \in Signal, Heard(s),
         NEW a \in Address
  PROVE  Tries(a) \in Nat /\ Tries(a)' = IF a = at THEN Tries(a) + 1 ELSE Tries(a)
<1> DEFINE before == {i \in DOMAIN log : log[i].addr = a}
           after == {i \in DOMAIN log' : log'[i].addr = a}
           n == Len(log) + 1
<1>1. /\ Len(log) \in Nat /\ n \in Nat /\ DOMAIN log = 1 .. Len(log)
      /\ DOMAIN log' = 1 .. n
      /\ \A i \in 1 .. Len(log) : log'[i] = log[i]
      /\ log'[n].addr = at
  <2>1. /\ Len(log) \in Nat /\ DOMAIN log = 1 .. Len(log)
        /\ DOMAIN log' = 1 .. Len(log) + 1
        /\ \A i \in 1 .. Len(log) : log'[i] = log[i]
        /\ log'[Len(log) + 1] = [addr |-> at, signal |-> s]
    BY HeardLog
  <2>. QED BY <2>1
<1>2. IsFiniteSet(before) /\ Cardinality(before) \in Nat
  <2>1. before \subseteq 1 .. Len(log)
    BY <1>1
  <2>2. IsFiniteSet(1 .. Len(log))
    BY <1>1, FS_Interval
  <2>3. IsFiniteSet(before)
    BY <2>1, <2>2, FS_Subset
  <2>. QED BY <2>3, FS_CardinalityType
<1>3. n \notin before
  BY <1>1
<1>4. Tries(a) = Cardinality(before) /\ Tries(a)' = Cardinality(after)
  BY DEF Tries
<1>5. CASE a = at
  <2>1. after = before \cup {n}
    BY <1>1, <1>5
  <2>2. Cardinality(before \cup {n}) = Cardinality(before) + 1
    BY <1>2, <1>3, FS_AddElement
  <2>. QED BY <1>2, <1>4, <1>5, <2>1, <2>2
<1>6. CASE a # at
  <2>1. after = before
    BY <1>1, <1>6
  <2>. QED BY <1>2, <1>4, <1>6, <2>1
<1>. QED BY <1>5, <1>6

\* An answer that comes while the attempt goes on contradicts none before it.
LEMMA FinalStep ==
  ASSUME WalkInv, NEW s \in Signal, Heard(s), pc \in {"wait", "read"}, mode' = mode
  PROVE  AnswersAreFinal'
<1>0. log \in Seq(Entry) /\ at \in Address
  BY DEF WalkInv, SocketOwned, TypeOK, Entry
<1>1. /\ Len(log) \in Nat /\ DOMAIN log = 1 .. Len(log)
      /\ DOMAIN log' = 1 .. Len(log) + 1
      /\ \A i \in 1 .. Len(log) : log'[i] = log[i]
      /\ log'[Len(log) + 1] = [addr |-> at, signal |-> s]
  BY <1>0, HeardLog
<1>2. ASSUME NEW i \in DOMAIN log', NEW j \in DOMAIN log', i < j
      PROVE  /\ log'[i].signal \notin Final
             /\ log'[i].signal = "refuse" /\ ~Proxied => log'[j].addr > log'[i].addr
  <2>1. i \in 1 .. Len(log) /\ log'[i] = log[i]
    BY <1>1, <1>2
  <2>2. log[i].signal \notin Final
    BY <1>1, <2>1 DEF WalkInv, Unsettled, Ended
  <2>3. CASE j \in 1 .. Len(log)
    BY <1>1, <1>2, <2>1, <2>2, <2>3 DEF WalkInv, AnswersAreFinal
  <2>4. CASE j = Len(log) + 1 /\ ~Proxied
    <3>1. Walking
      BY <2>4 DEF WalkInv, Orderly, Walking
    <3>2. log[i].signal = "refuse" => log[i].addr < at
      BY <1>1, <2>1, <3>1 DEF WalkInv, LeftBehind
    <3>3. log[i] \in Entry
      BY <1>0, <1>1, <2>1
    <3>4. log[i].addr \in Nat /\ at \in Nat
      BY <1>0, <3>3, BoundAssumption DEF Entry, Address
    <3>. QED BY <1>1, <2>1, <2>2, <2>4, <3>2, <3>4
  <2>. QED BY <1>1, <2>1, <2>2, <2>3, <2>4
<1>3. Proxied' = Proxied
  BY DEF Proxied
<1>. QED BY <1>2, <1>3 DEF AnswersAreFinal, Final

\* What was not a final answer before the step is none after it.
LEMMA UnsettledHeard ==
  ASSUME WalkInv, NEW s \in Signal \ Final, Heard(s), pc \in {"wait", "read"}
  PROVE  \A i \in DOMAIN log' : log'[i].signal \notin Final
<1>0. log \in Seq(Entry) /\ at \in Address
  BY DEF WalkInv, SocketOwned, TypeOK, Entry
<1>1. /\ Len(log) \in Nat /\ DOMAIN log = 1 .. Len(log)
      /\ DOMAIN log' = 1 .. Len(log) + 1
      /\ \A i \in 1 .. Len(log) : log'[i] = log[i]
      /\ log'[Len(log) + 1] = [addr |-> at, signal |-> s]
  BY <1>0, HeardLog
<1>2. \A i \in DOMAIN log : log[i].signal \notin Final
  BY DEF WalkInv, Unsettled, Ended
<1>. QED BY <1>1, <1>2

\* The last entry is the answer that was just heard.
LEMMA LastHeard ==
  ASSUME WalkInv, NEW s \in Signal, Heard(s)
  PROVE  log' # <<>> /\ log'[Len(log')].signal = s
<1>0. log \in Seq(Entry) /\ at \in Address
  BY DEF WalkInv, SocketOwned, TypeOK, Entry
<1>1. /\ Len(log) \in Nat /\ DOMAIN log = 1 .. Len(log)
      /\ Len(log') = Len(log) + 1
      /\ DOMAIN log' = 1 .. Len(log) + 1
      /\ log'[Len(log) + 1] = [addr |-> at, signal |-> s]
  BY <1>0, HeardLog
<1>. QED BY <1>1

-----------------------------------------------------------------------------
(***************************************************************************)
(* The ways in which a step of an attempt can end.                         *)
(***************************************************************************)
\* An attempt that fails on anything but the end of its walk claims nothing
\* about silence.
LEMMA ExitStep ==
  ASSUME WalkInv, SocketOwned', AnswersAreFinal', pc' = "failed",
         outcome' \notin {"open", "ConnectTimeout", "UdpInconclusive"}
  PROVE  WalkInv'
BY DEF WalkInv, Orderly, Unsettled, Ended, LeftBehind, Counted, Walking, Reached,
       SilenceIsSilence

\* A proxy that stays silent is asked again from the start.
LEMMA AgainStep ==
  ASSUME WalkInv, SocketOwned', AnswersAreFinal', pc' = "resolve", Proxied,
         mode' = mode, outcome' = "none",
         \A i \in DOMAIN log' : log'[i].signal \notin Final
  PROVE  WalkInv'
<1>1. Proxied'
  BY DEF Proxied
<1>. QED BY <1>1 DEF WalkInv, Orderly, Unsettled, Ended, LeftBehind, Counted, Walking, Reached,
       SilenceIsSilence

\* An attempt reaches the port.
LEMMA ReachStep ==
  ASSUME WalkInv, SocketOwned', AnswersAreFinal', pc' = "connected",
         mode' = mode, outcome' = "none", Heard(Proof(mode)), Proof(mode) \in Signal
  PROVE  WalkInv'
<1>1. log' # <<>> /\ log'[Len(log')].signal = Proof(mode)'
  BY LastHeard DEF Proof
<1>. QED BY <1>1 DEF WalkInv, Orderly, Unsettled, Ended, LeftBehind, Counted, Walking, Reached,
       SilenceIsSilence

\* An exchange with the proxy goes on.
LEMMA ExchangeStep ==
  ASSUME WalkInv, SocketOwned', AnswersAreFinal', pc' \in {"send", "read"}, Proxied,
         mode' = mode, outcome' = "none",
         \A i \in DOMAIN log' : log'[i].signal \notin Final
  PROVE  WalkInv'
<1>1. Proxied'
  BY DEF Proxied
<1>. QED BY <1>1 DEF WalkInv, Orderly, Unsettled, Ended, LeftBehind, Counted, Walking, Reached,
       SilenceIsSilence

\* What does not touch the log leaves its properties alone.
LEMMA QuietStep ==
  ASSUME WalkInv, log' = log, mode' = mode, pc \notin Ended
  PROVE  /\ AnswersAreFinal'
         /\ \A i \in DOMAIN log' : log'[i].signal \notin Final
         /\ \A a : Tries(a)' = Tries(a)
<1>1. Proxied' = Proxied
  BY DEF Proxied
<1>2. AnswersAreFinal'
  BY <1>1 DEF WalkInv, AnswersAreFinal
<1>3. \A i \in DOMAIN log' : log'[i].signal \notin Final
  BY DEF WalkInv, Unsettled
<1>4. \A a : Tries(a)' = Tries(a)
  BY DEF Tries
<1>. QED BY <1>2, <1>3, <1>4

\* A proxy that stays silent: another round, or the end.
LEMMA TunnelStep ==
  ASSUME WalkInv, SocketOwned', AnswersAreFinal', TunnelSilent, Proxied, pc \notin Ended,
         mode' = mode, \A i \in DOMAIN log' : log'[i].signal \notin Final
  PROVE  WalkInv'
<1>1. outcome = "none"
  BY DEF WalkInv, Orderly, Ended
<1>2. CASE round < retries
  BY <1>1, <1>2, AgainStep DEF TunnelSilent
<1>3. CASE ~(round < retries)
  BY <1>1, <1>3, ExitStep DEF TunnelSilent, Raise
<1>. QED BY <1>2, <1>3

\* One more silent or refusing address: the next one, another pass, or the end.
LEMMA WalkStep ==
  ASSUME WalkInv, SocketOwned', pc = "wait", NEW s \in {"silence", "refuse"}, Heard(s),
         IF s = "refuse" THEN refused' ELSE refused' = refused,
         NextAddress, UNCHANGED <<asking, addrs>>
  PROVE  WalkInv'
<1>0. /\ mode' = mode /\ retries' = retries /\ addrs' = addrs
      /\ Proxied' = Proxied /\ outcome = "none" /\ at <= addrs
      /\ log \in Seq(Entry) /\ at \in Address /\ addrs \in 0 .. MaxAddr
  BY DEF asking, Proxied, WalkInv, Orderly, SocketOwned, TypeOK, Entry
<1>1. s \in Signal \ Final
  BY DEF Signal, Final, Status
<1>2. AnswersAreFinal'
  BY <1>0, <1>1, FinalStep
<1>3. \A i \in DOMAIN log' : log'[i].signal \notin Final
  BY <1>1, UnsettledHeard
<1>4. /\ Len(log) \in Nat /\ DOMAIN log = 1 .. Len(log)
      /\ DOMAIN log' = 1 .. Len(log) + 1
      /\ \A i \in 1 .. Len(log) : log'[i] = log[i]
      /\ log'[Len(log) + 1] = [addr |-> at, signal |-> s]
  BY <1>0, <1>1, HeardLog
<1>5. at \in Nat /\ addrs \in Nat /\ pass \in Nat /\ retries \in Nat /\ Passes \in Nat
  BY <1>0, BoundAssumption DEF Address, WalkInv, SocketOwned, TypeOK, Passes
<1>6. ASSUME ~Proxied
      PROVE  \A i \in DOMAIN log' :
               /\ log'[i].signal \in {"silence", "refuse"}
               /\ log'[i].signal = "refuse" => refused' /\ log'[i].addr <= at
               /\ i \in 1 .. Len(log) /\ log'[i].signal = "refuse" => log'[i].addr < at
  <2>1. \A i \in DOMAIN log : /\ log[i].signal \in {"silence", "refuse"}
                              /\ log[i].signal = "refuse" => refused /\ log[i].addr < at
    BY <1>6 DEF WalkInv, LeftBehind, Walking
  <2>2. TAKE i \in DOMAIN log'
  <2>3. CASE i \in 1 .. Len(log)
    <3>1. log'[i] = log[i] /\ i \in DOMAIN log
      BY <1>4, <2>3
    <3>2. log[i] \in Entry
      BY <1>0, <1>4, <2>3
    <3>3. log[i].addr \in Nat
      BY <3>2, BoundAssumption DEF Entry, Address
    <3>4. refused => refused'
      OBVIOUS
    <3>. QED BY <1>5, <2>1, <3>1, <3>3, <3>4
  <2>4. CASE i = Len(log) + 1
    <3>1. log'[i].addr = at /\ log'[i].signal = s /\ i \notin 1 .. Len(log)
      BY <1>4, <2>4
    <3>2. s = "refuse" => refused'
      OBVIOUS
    <3>. QED BY <1>5, <3>1, <3>2
  <2>. QED BY <1>4, <2>3, <2>4
<1>7. ASSUME ~Proxied, ~refused', NEW a \in 1 .. addrs
      PROVE  Tries(a)' = IF a <= at THEN pass + 1 ELSE pass
  <2>1. ~refused
    BY <1>7
  <2>2. Tries(a) = IF a < at THEN pass + 1 ELSE pass
    BY <1>7, <2>1 DEF WalkInv, Counted, Walking
  <2>3. a \in Address
    BY <1>0, BoundAssumption DEF Address
  <2>4. Tries(a)' = IF a = at THEN Tries(a) + 1 ELSE Tries(a)
    BY <1>0, <1>1, <2>3, TriesHeard
  <2>. QED BY <1>5, <2>2, <2>4
<1>8. CASE at < addrs /\ pc' = "dial" /\ at' = at + 1 /\ UNCHANGED <<round, pass, outcome>>
  <2>1. Orderly' /\ Unsettled' /\ Reached' /\ SilenceIsSilence'
    BY <1>0, <1>3, <1>5, <1>8 DEF Orderly, Unsettled, Reached, SilenceIsSilence
  <2>2. LeftBehind'
    <3>1. ASSUME ~Proxied, NEW i \in DOMAIN log'
          PROVE  /\ log'[i].signal \in {"silence", "refuse"}
                 /\ log'[i].signal = "refuse" => refused' /\ log'[i].addr < at'
      <4>0. log' \in Seq(Entry)
        BY DEF SocketOwned, TypeOK, Entry
      <4>1. log'[i] \in Entry
        BY <4>0, <3>1
      <4>2. log'[i].addr \in Nat
        BY <4>1, BoundAssumption DEF Entry, Address
      <4>. QED BY <1>5, <1>6, <1>8, <3>1, <4>2
    <3>. QED BY <1>0, <3>1 DEF LeftBehind, Walking
  <2>3. Counted'
    <3>1. ASSUME ~Proxied, ~refused', NEW a \in 1 .. addrs
          PROVE  Tries(a)' = IF a < at' THEN pass' + 1 ELSE pass'
      BY <1>5, <1>7, <1>8, <3>1
    <3>. QED BY <1>0, <3>1 DEF Counted, Walking
  <2>. QED BY <1>2, <2>1, <2>2, <2>3 DEF WalkInv
<1>9. CASE /\ at = addrs /\ ~refused' /\ pass < Passes
           /\ pc' = "dial" /\ at' = 1 /\ pass' = pass + 1
           /\ UNCHANGED <<round, outcome>>
  <2>1. Orderly' /\ Unsettled' /\ Reached' /\ SilenceIsSilence'
    BY <1>0, <1>3, <1>5, <1>9, BoundAssumption
       DEF Orderly, Unsettled, Reached, SilenceIsSilence, Address
  <2>2. LeftBehind'
    BY <1>0, <1>6, <1>9 DEF LeftBehind, Walking
  <2>3. Counted'
    <3>1. ASSUME ~Proxied, ~refused', NEW a \in 1 .. addrs
          PROVE  Tries(a)' = IF a < at' THEN pass' + 1 ELSE pass'
      BY <1>5, <1>7, <1>9, <3>1
    <3>. QED BY <1>0, <3>1 DEF Counted, Walking
  <2>. QED BY <1>2, <2>1, <2>2, <2>3 DEF WalkInv
<1>10. ASSUME ~refused', ~Proxied, at = addrs, pass = Passes, pc' = "failed",
              outcome' # "open"
       PROVE  WalkInv'
  <2>1. Orderly' /\ Unsettled' /\ LeftBehind' /\ Counted' /\ Reached'
    BY <1>10 DEF Orderly, Unsettled, Ended, LeftBehind, Counted, Walking, Reached
  <2>2. Signals' = {"silence"}
    <3>1. \A i \in DOMAIN log' : log'[i].signal = "silence"
      BY <1>6, <1>10
    <3>2. Len(log) + 1 \in DOMAIN log'
      BY <1>4
    <3>. QED BY <3>1, <3>2 DEF Signals
  <2>3. \A a \in 1 .. addrs' : Tries(a)' = retries' + 1
    <3>1. Passes = retries
      BY <1>10 DEF Passes
    <3>. QED BY <1>0, <1>5, <1>7, <1>10, <3>1
  <2>4. SilenceIsSilence'
    BY <2>2, <2>3 DEF SilenceIsSilence
  <2>. QED BY <1>2, <2>1, <2>4 DEF WalkInv
<1>11. CASE at = addrs /\ (refused' \/ pass = Passes) /\ GiveUp
  <2>1. CASE refused' /\ Raise(IF Proxied THEN "ProxyConnectRefused" ELSE "ConnectRefused")
    BY <1>2, <2>1, ExitStep DEF Raise
  <2>2. CASE ~refused' /\ Proxied /\ TunnelSilent
    BY <1>0, <1>2, <1>3, <2>2, TunnelStep DEF Ended
  <2>3. CASE ~refused' /\ mode = "tcp" /\ Raise("ConnectTimeout")
    BY <1>10, <1>11, <2>3 DEF Raise, Proxied
  <2>4. CASE ~refused' /\ mode = "udp" /\ Raise("UdpInconclusive")
    BY <1>10, <1>11, <2>4 DEF Raise, Proxied
  <2>. QED BY <1>11, <2>1, <2>2, <2>3, <2>4 DEF GiveUp
<1>. QED BY <1>8, <1>9, <1>11 DEF NextAddress

-----------------------------------------------------------------------------
(***************************************************************************)
(* The theorems.                                                           *)
(***************************************************************************)
LEMMA WalkFresh == mode \in Modes /\ retries \in 0 .. MaxRetries /\ Fresh => WalkInv
<1> SUFFICES ASSUME mode \in Modes, retries \in 0 .. MaxRetries, Fresh
             PROVE  WalkInv
  OBVIOUS
<1>1. SocketOwned
  BY SocketFresh
<1>2. DOMAIN log = {} /\ pc = "resolve" /\ outcome = "none" /\ log = <<>>
  BY DEF Fresh
<1>. QED BY <1>1, <1>2 DEF WalkInv, Orderly, Unsettled, LeftBehind, Counted, Walking, Reached,
       SilenceIsSilence, AnswersAreFinal

LEMMA WalkInvStep ==
  ASSUME WalkInv, [AttemptStep]_attemptVars
  PROVE  WalkInv'
<1>0. mode' = mode /\ retries' = retries /\ Proxied' = Proxied /\ SocketOwned'
  BY AskingStep, SocketStep DEF WalkInv, Proxied
<1>1. pc \notin Ended => outcome = "none"
  BY DEF WalkInv, Orderly, Ended
<1>2. /\ "accept" \in Signal \ Final /\ "silence" \in Signal \ Final
      /\ {"reply", "icmp", "unreachable", "cut"} \subseteq Signal /\ Status \subseteq Signal
  BY DEF Signal, Final, Status
<1>3. ASSUME ResolveFails \/ SocketFails \/ ReadTooMuch \/ ReadBroken
      PROVE  WalkInv'
  <2>1. /\ log' = log /\ pc' = "failed" /\ pc \notin Ended
        /\ outcome' \notin {"open", "ConnectTimeout", "UdpInconclusive"}
    BY <1>3 DEF ResolveFails, SocketFails, ReadTooMuch, ReadBroken, Raise, Ended
  <2>. QED BY <1>0, <2>1, QuietStep, ExitStep
<1>4. ASSUME Resolve
      PROVE  WalkInv'
  <2>1. /\ log' = log /\ pc = "resolve" /\ pc' = "dial" /\ outcome' = outcome
        /\ pass' = 0 /\ at' = 1 /\ refused' = FALSE /\ addrs' \in 1 .. MaxAddr
    BY <1>4 DEF Resolve, Address
  <2>2. /\ AnswersAreFinal' /\ \A i \in DOMAIN log' : log'[i].signal \notin Final
        /\ \A a : Tries(a)' = Tries(a)
    BY <1>0, <2>1, QuietStep DEF Ended
  <2>3. Orderly' /\ Unsettled' /\ Reached' /\ SilenceIsSilence'
    BY <1>1, <2>1, <2>2, BoundAssumption
       DEF Orderly, Unsettled, Reached, SilenceIsSilence, Ended
  <2>4. ~Proxied => log = <<>>
    BY <2>1 DEF WalkInv, Orderly
  <2>5. LeftBehind'
    BY <1>0, <2>1, <2>4 DEF LeftBehind, Walking
  <2>6. Counted'
    <3>1. ASSUME ~Proxied, NEW a \in 1 .. addrs'
          PROVE  Tries(a)' = IF a < at' THEN pass' + 1 ELSE pass'
      <4>1. Tries(a)' = Cardinality({})
        <5>1. {i \in DOMAIN log' : log'[i].addr = a} = {}
          BY <2>1, <2>4, <3>1
        <5>. QED BY <5>1 DEF Tries
      <4>. QED BY <2>1, <3>1, <4>1, FS_EmptySet, BoundAssumption
    <3>. QED BY <1>0, <3>1 DEF Counted, Walking
  <2>. QED BY <1>0, <2>2, <2>3, <2>5, <2>6 DEF WalkInv
<1>5. ASSUME OpenSocket
      PROVE  WalkInv'
  <2>1. /\ log' = log /\ pc = "dial" /\ pc' = "wait"
        /\ UNCHANGED <<asking, addrs, round, pass, at, refused, outcome>>
    BY <1>5 DEF OpenSocket, loop
  <2>2. /\ AnswersAreFinal' /\ \A i \in DOMAIN log' : log'[i].signal \notin Final
        /\ \A a : Tries(a)' = Tries(a)
    BY <1>0, <2>1, QuietStep DEF Ended
  <2>3. Orderly' /\ Unsettled' /\ Reached' /\ SilenceIsSilence'
    BY <1>1, <2>1, <2>2 DEF WalkInv, Orderly, Unsettled, Reached, SilenceIsSilence, Ended
  <2>4. LeftBehind'
    BY <1>0, <2>1 DEF WalkInv, LeftBehind, Walking
  <2>5. Counted'
    BY <1>0, <2>1, <2>2 DEF WalkInv, Counted, Walking
  <2>. QED BY <1>0, <2>2, <2>3, <2>4, <2>5 DEF WalkInv
<1>6. ASSUME Silent
      PROVE  WalkInv'
  BY <1>0, <1>6, WalkStep DEF Silent
<1>7. ASSUME Refuses
      PROVE  WalkInv'
  BY <1>0, <1>7, WalkStep DEF Refuses
<1>8. ASSUME Accepts
      PROVE  WalkInv'
  <2>1. /\ Heard("accept") /\ pc = "wait" /\ outcome' = outcome
        /\ mode # "udp" /\ pc' = IF Proxied THEN "send" ELSE "connected"
    BY <1>8 DEF Accepts
  <2>2. AnswersAreFinal' /\ \A i \in DOMAIN log' : log'[i].signal \notin Final
    BY <1>0, <1>2, <2>1, FinalStep, UnsettledHeard
  <2>3. CASE Proxied
    BY <1>0, <1>1, <2>1, <2>2, <2>3, ExchangeStep DEF Ended
  <2>4. CASE ~Proxied
    <3>1. mode = "tcp"
      BY <2>1, <2>4, ModeAssumption DEF Proxied, WalkInv, SocketOwned, TypeOK
    <3>2. Proof(mode) = "accept"
      BY <3>1 DEF Proof
    <3>. QED BY <1>0, <1>1, <1>2, <2>1, <2>2, <2>4, <3>2, ReachStep DEF Ended
  <2>. QED BY <2>3, <2>4
<1>9. ASSUME Replies
      PROVE  WalkInv'
  <2>1. /\ Heard("reply") /\ pc = "wait" /\ outcome' = outcome
        /\ mode = "udp" /\ pc' = "connected"
    BY <1>9 DEF Replies
  <2>2. AnswersAreFinal' /\ Proof(mode) = "reply"
    BY <1>0, <1>2, <2>1, FinalStep DEF Proof
  <2>. QED BY <1>0, <1>1, <1>2, <2>1, <2>2, ReachStep DEF Ended
<1>10. ASSUME Unreachable
       PROVE  WalkInv'
  <2>1. PICK s \in Signal : Heard(s)
    BY <1>2, <1>10 DEF Unreachable
  <2>2. AnswersAreFinal'
    BY <1>0, <1>10, <2>1, FinalStep DEF Unreachable
  <2>3. pc' = "failed" /\ outcome' \notin {"open", "ConnectTimeout", "UdpInconclusive"}
    BY <1>10 DEF Unreachable, Raise
  <2>. QED BY <1>0, <2>2, <2>3, ExitStep
<1>11. ASSUME SendRequest
       PROVE  WalkInv'
  <2>1. log' = log /\ pc = "send" /\ Proxied
    BY <1>11 DEF SendRequest, WalkInv, Orderly
  <2>2. AnswersAreFinal' /\ \A i \in DOMAIN log' : log'[i].signal \notin Final
    BY <1>0, <2>1, QuietStep DEF Ended
  <2>3. CASE pc' = "read" /\ outcome' = outcome
    BY <1>0, <1>1, <2>1, <2>2, <2>3, ExchangeStep DEF Ended
  <2>4. CASE TunnelSilent
    BY <1>0, <2>1, <2>2, <2>4, TunnelStep DEF Ended
  <2>5. CASE Raise("ProxyProtocolError")
    BY <1>0, <2>2, <2>5, ExitStep DEF Raise
  <2>. QED BY <1>11, <2>3, <2>4, <2>5 DEF SendRequest
<1>12. ASSUME ReadChunk
       PROVE  WalkInv'
  <2>1. log' = log /\ pc = "read" /\ pc' = "read" /\ outcome' = outcome /\ Proxied
    BY <1>12 DEF ReadChunk, WalkInv, Orderly
  <2>2. AnswersAreFinal' /\ \A i \in DOMAIN log' : log'[i].signal \notin Final
    BY <1>0, <2>1, QuietStep DEF Ended
  <2>. QED BY <1>0, <1>1, <2>1, <2>2, ExchangeStep DEF Ended
<1>13. ASSUME ReadSilent
       PROVE  WalkInv'
  <2>1. Heard("silence") /\ TunnelSilent /\ pc = "read" /\ Proxied
    BY <1>13 DEF ReadSilent, WalkInv, Orderly
  <2>2. AnswersAreFinal' /\ \A i \in DOMAIN log' : log'[i].signal \notin Final
    BY <1>0, <1>2, <2>1, FinalStep, UnsettledHeard
  <2>. QED BY <1>0, <2>1, <2>2, TunnelStep DEF Ended
<1>14. ASSUME NEW s \in Status, AnswerCut(s)
       PROVE  WalkInv'
  <2>1. PICK t \in Signal : Heard(t)
    BY <1>2, <1>14 DEF AnswerCut
  <2>2. AnswersAreFinal'
    BY <1>0, <1>14, <2>1, FinalStep DEF AnswerCut
  <2>3. pc' = "failed" /\ outcome' \notin {"open", "ConnectTimeout", "UdpInconclusive"}
    <3>1. "open" \notin NetError
      BY DEF NetError
    <3>. QED BY <1>14, <3>1, StatusErrorType DEF AnswerCut, Raise
  <2>. QED BY <1>0, <2>2, <2>3, ExitStep
<1>15. ASSUME NEW s \in Status, Answer(s)
       PROVE  WalkInv'
  <2>1. Heard(s) /\ pc = "read" /\ mode = "proxy"
    BY <1>15 DEF Answer, WalkInv, Orderly, Proxied
  <2>2. AnswersAreFinal'
    BY <1>0, <1>2, <2>1, FinalStep
  <2>3. CASE s = "2xx"
    <3>1. pc' = "connected" /\ outcome' = outcome
      BY <1>15, <2>3 DEF Answer
    <3>2. Proof(mode) = s
      BY <2>1, <2>3 DEF Proof
    <3>. QED BY <1>0, <1>1, <1>2, <2>1, <2>2, <3>1, <3>2, ReachStep DEF Ended
  <2>4. CASE s # "2xx"
    <3>1. Raise(StatusError(s)) /\ "open" \notin NetError
      BY <1>15, <2>4 DEF Answer, NetError
    <3>. QED BY <1>0, <2>2, <3>1, StatusErrorType, ExitStep DEF Raise
  <2>. QED BY <2>3, <2>4
<1>16. ASSUME Verdict
       PROVE  WalkInv'
  <2>1. log' = log /\ pc = "connected" /\ pc' = "returned" /\ outcome' = "open"
    BY <1>16 DEF Verdict
  <2>2. AnswersAreFinal'
    BY <1>0, <2>1 DEF WalkInv, AnswersAreFinal
  <2>3. Reached'
    <3>1. Proof(mode)' = Proof(mode)
      BY <1>0 DEF Proof
    <3>. QED BY <2>1, <3>1 DEF WalkInv, Reached
  <2>. QED BY <1>0, <2>1, <2>2, <2>3 DEF WalkInv, Orderly, Unsettled, Ended, LeftBehind, Counted,
         Walking, SilenceIsSilence
<1>17. CASE UNCHANGED attemptVars
  BY <1>0, <1>17 DEF attemptVars, WalkInv, Orderly, Unsettled, Ended, LeftBehind, Counted, Walking,
     Reached, Proof, SilenceIsSilence, AnswersAreFinal, Signals, Tries
<1>. QED
  BY <1>3, <1>4, <1>5, <1>6, <1>7, <1>8, <1>9, <1>10, <1>11, <1>12, <1>13, <1>14, <1>15,
     <1>16, <1>17 DEF AttemptStep

\* The same of the attempt after this one.
LEMMA WalkFreshNext ==
  (mode \in Modes /\ retries \in 0 .. MaxRetries /\ Fresh)' => WalkInv'
BY WalkFresh, PTL

LEMMA WalkTold == WalkInv => OutcomeTrue
<1> SUFFICES ASSUME WalkInv PROVE OpenIsReal
  BY DEF WalkInv, OutcomeTrue
<1>1. outcome = "open" => log[Len(log)].signal = Proof(mode)
  BY DEF WalkInv, Orderly, Reached
<1>. QED BY <1>1 DEF OpenIsReal, Proof

\* Every socket an attempt opens is closed on every path but the one that
\* returns it (connect, udp_probe, _attempt), for any number of addresses,
\* retries and pieces of an answer.
THEOREM SocketsOwned == Spec => []SocketOwned
<1>1. Init => SocketOwned
  BY SocketFresh DEF Init
<1>. QED BY <1>1, SocketStep, PTL DEF Spec

\* What an attempt reports is what the network said: a timeout means that each
\* address had retries + 1 chances and was silent, nothing is tried after a
\* definitive answer, and an open verdict rests on the last one.
THEOREM OutcomesTrue == Spec => []OutcomeTrue
<1>1. Init => WalkInv
  BY WalkFresh DEF Init
<1>. QED BY <1>1, WalkInvStep, WalkTold, PTL DEF Spec
=============================================================================
