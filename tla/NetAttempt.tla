----------------------------- MODULE NetAttempt -----------------------------
(***************************************************************************)
(* One reachability attempt of `opskit net`: net/tcp.py resolves the name  *)
(* and walks the addresses with retries, net/udp.py does the same with one *)
(* empty datagram, and net/proxy.py asks an HTTP proxy for a tunnel over a *)
(* TCP connection and repeats the whole attempt on silence.                *)
(*                                                                         *)
(* The network answers each system call as it likes.  The history `log`    *)
(* keeps what it answered, address by address, for the properties to       *)
(* compare with what the attempt reports.                                  *)
(***************************************************************************)
EXTENDS Naturals, Sequences, FiniteSets

CONSTANTS
  Modes,        \* subset of {"tcp", "udp", "proxy"}
  MaxAddr,      \* addresses a name resolves to at most (bound)
  MaxRetries,   \* --retries at most (bound)
  MaxChunks     \* pieces of a response head that fit into 65536 bytes

ASSUME ModeAssumption == Modes \subseteq {"tcp", "udp", "proxy"}
ASSUME BoundAssumption ==
  /\ MaxAddr \in Nat \ {0} /\ MaxRetries \in Nat /\ MaxChunks \in Nat

Address == 1 .. MaxAddr
Status == {"2xx", "407", "denied", "gateway", "garbage"}
Signal == {"accept", "refuse", "reply", "icmp", "unreachable", "silence", "cut"} \cup Status

NetError ==
  {"ResolutionError", "ConnectRefused", "ConnectTimeout", "UdpClosed",
   "UdpInconclusive", "NetError", "ProxyResolutionError", "ProxyConnectRefused",
   "ProxyConnectTimeout", "ProxyAuthRequired", "ProxyTunnelDenied",
   "ProxyGatewayError", "ProxyProtocolError"}

VARIABLES
  mode, retries,   \* what was asked
  pc,
  addrs,           \* how many addresses the name has
  round,           \* connect_via_proxy: which attempt at a tunnel
  pass, at,        \* connect, udp_probe: which pass, which address
  refused,         \* connect: refused_exc is not None
  open,            \* addresses to which a socket is open
  chunks,          \* _read_response_head: pieces read
  log,             \* history: what the network answered
  outcome          \* "open", or the exception that was raised

asking == <<mode, retries>>
loop   == <<round, pass, at>>
attemptVars ==
  <<mode, retries, pc, addrs, round, pass, at, refused, open, chunks, log,
    outcome>>

Proxied == mode = "proxy"

\* The tunnel code calls connect() without retries of its own.
Passes == IF Proxied THEN 0 ELSE retries

Fresh ==
  /\ pc = "resolve"
  /\ addrs = 0
  /\ round = 0 /\ pass = 0 /\ at = 1
  /\ refused = FALSE
  /\ open = {}
  /\ chunks = 0
  /\ log = <<>>
  /\ outcome = "none"

Init ==
  /\ mode \in Modes
  /\ retries \in 0 .. MaxRetries
  /\ Fresh

Heard(s) == log' = Append(log, [addr |-> at, signal |-> s])

Close == open' = {}

\* The attempt ends with an exception.
Raise(e) ==
  /\ pc' = "failed"
  /\ outcome' = e
  /\ UNCHANGED loop

-----------------------------------------------------------------------------
(* resolve                                                                 *)

\* The name does not resolve, or not in time; the lookup goes on in a thread
\* that nobody waits for.
ResolveFails ==
  /\ pc = "resolve"
  /\ Raise(IF Proxied THEN "ProxyResolutionError" ELSE "ResolutionError")
  /\ UNCHANGED <<asking, addrs, refused, open, chunks, log>>

Resolve ==
  /\ pc = "resolve"
  /\ \E n \in Address : addrs' = n
  /\ pc' = "dial"
  /\ pass' = 0 /\ at' = 1
  /\ refused' = FALSE
  /\ UNCHANGED <<asking, round, open, chunks, log, outcome>>

-----------------------------------------------------------------------------
(* connect and udp_probe: the walk over the addresses.                     *)

\* socket.socket() fails, for want of a descriptor or of the address family:
\* udp_probe turns that into an error of its own, connect does not.
SocketFails ==
  /\ pc = "dial"
  /\ Raise(IF mode = "udp" THEN "NetError" ELSE "OSError")
  /\ UNCHANGED <<asking, addrs, refused, open, chunks, log>>

OpenSocket ==
  /\ pc = "dial"
  /\ open' = open \cup {at}
  /\ pc' = "wait"
  /\ UNCHANGED <<asking, addrs, loop, refused, chunks, log, outcome>>

\* Mutant: one retry too many.
TunnelSilentGreedy ==
  IF round <= retries
    THEN /\ pc' = "resolve"
         /\ round' = round + 1
         /\ UNCHANGED <<pass, at, outcome>>
    ELSE Raise("ProxyConnectTimeout")

\* connect_via_proxy: silence, and only silence, is tried again.
TunnelSilent ==
  IF round < retries
    THEN /\ pc' = "resolve"
         /\ round' = round + 1
         /\ UNCHANGED <<pass, at, outcome>>
    ELSE Raise("ProxyConnectTimeout")

\* All passes are over and no address has answered.
GiveUp ==
  \/ refused' /\ Raise(IF Proxied THEN "ProxyConnectRefused" ELSE "ConnectRefused")
  \/ ~refused' /\ Proxied /\ TunnelSilent
  \/ ~refused' /\ mode = "tcp" /\ Raise("ConnectTimeout")
  \/ ~refused' /\ mode = "udp" /\ Raise("UdpInconclusive")

\* Mutant: the last address is left out of the first pass.
NextAddressShort ==
  CASE at + 1 < addrs ->
         pc' = "dial" /\ at' = at + 1 /\ UNCHANGED <<round, pass, outcome>>
    [] at + 1 >= addrs /\ ~refused' /\ pass < Passes ->
         pc' = "dial" /\ at' = 1 /\ pass' = pass + 1 /\ UNCHANGED <<round, outcome>>
    [] OTHER -> GiveUp

\* The next address; after the last one another pass, unless one refused.
NextAddress ==
  \/ /\ at < addrs
     /\ pc' = "dial" /\ at' = at + 1
     /\ UNCHANGED <<round, pass, outcome>>
  \/ /\ at = addrs /\ ~refused' /\ pass < Passes
     /\ pc' = "dial" /\ at' = 1 /\ pass' = pass + 1
     /\ UNCHANGED <<round, outcome>>
  \/ /\ at = addrs /\ (refused' \/ pass = Passes)
     /\ GiveUp

\* Mutant: the socket of a silent address stays open.
SilentLeaking ==
  /\ pc = "wait"
  /\ Heard("silence")
  /\ UNCHANGED <<refused, open>>
  /\ NextAddress
  /\ UNCHANGED <<asking, addrs, chunks>>

\* No answer within the timeout.
Silent ==
  /\ pc = "wait"
  /\ Heard("silence")
  /\ Close
  /\ UNCHANGED refused
  /\ NextAddress
  /\ UNCHANGED <<asking, addrs, chunks>>

\* The address refuses the connection or cannot be reached.
Refuses ==
  /\ pc = "wait"
  /\ mode # "udp"
  /\ Heard("refuse")
  /\ Close
  /\ refused' = TRUE
  /\ NextAddress
  /\ UNCHANGED <<asking, addrs, chunks>>

Accepts ==
  /\ pc = "wait"
  /\ mode # "udp"
  /\ Heard("accept")
  /\ pc' = IF Proxied THEN "send" ELSE "connected"
  /\ UNCHANGED <<asking, addrs, loop, refused, open, chunks, outcome>>

\* A datagram comes back.
Replies ==
  /\ pc = "wait"
  /\ mode = "udp"
  /\ Heard("reply")
  /\ pc' = "connected"
  /\ UNCHANGED <<asking, addrs, loop, refused, open, chunks, outcome>>

\* Mutant: an ICMP message counts as one more silent address.
UnreachableIgnored ==
  /\ pc = "wait"
  /\ mode = "udp"
  /\ Heard("icmp")
  /\ Close
  /\ UNCHANGED refused
  /\ NextAddress
  /\ UNCHANGED <<asking, addrs, chunks>>

\* Port unreachable, network unreachable, or any other socket error: definitive.
Unreachable ==
  /\ pc = "wait"
  /\ mode = "udp"
  /\ \/ Heard("icmp") /\ Raise("UdpClosed")
     \/ Heard("unreachable") /\ Raise("ConnectRefused")
     \/ Heard("unreachable") /\ Raise("NetError")
  /\ Close
  /\ UNCHANGED <<asking, addrs, refused, chunks>>

-----------------------------------------------------------------------------
(* _attempt: the CONNECT exchange with the proxy.                          *)

SendRequest ==
  /\ pc = "send"
  /\ \/ /\ pc' = "read"
        /\ chunks' = 0
        /\ UNCHANGED <<loop, open, outcome>>
     \/ TunnelSilent /\ Close /\ UNCHANGED chunks
     \/ Raise("ProxyProtocolError") /\ Close /\ UNCHANGED chunks
  /\ UNCHANGED <<asking, addrs, refused, log>>

\* One recv() returns in time with a piece that does not complete the head.
ReadChunk ==
  /\ pc = "read"
  /\ chunks < MaxChunks
  /\ chunks' = chunks + 1
  /\ UNCHANGED <<asking, pc, addrs, loop, refused, open, log, outcome>>

\* The head does not fit: this is no proxy.
ReadTooMuch ==
  /\ pc = "read"
  /\ chunks = MaxChunks
  /\ Raise("ProxyProtocolError")
  /\ Close
  /\ UNCHANGED <<asking, addrs, refused, chunks, log>>

\* recv() hits its timeout.
ReadSilent ==
  /\ pc = "read"
  /\ Heard("silence")
  /\ TunnelSilent
  /\ Close
  /\ UNCHANGED <<asking, addrs, refused, chunks>>

\* recv() fails, or the proxy closes the connection without a word.
ReadBroken ==
  /\ pc = "read"
  /\ Raise("ProxyProtocolError")
  /\ Close
  /\ UNCHANGED <<asking, addrs, refused, chunks, log>>

StatusError(s) ==
  CASE s = "407"     -> "ProxyAuthRequired"
    [] s = "denied"  -> "ProxyTunnelDenied"
    [] s = "gateway" -> "ProxyGatewayError"
    [] OTHER         -> "ProxyProtocolError"

\* Mutant: any 2xx is a tunnel, whether or not the head ends.
AnswerCutShort(s) ==
  /\ pc = "read"
  /\ chunks > 0
  /\ IF s = "2xx"
       THEN /\ Heard("cut")
            /\ pc' = "connected"
            /\ UNCHANGED <<loop, open, outcome>>
       ELSE Heard(s) /\ Raise(StatusError(s)) /\ Close
  /\ UNCHANGED <<asking, addrs, refused, chunks>>

\* The proxy closes the connection in the middle of its answer.
AnswerCut(s) ==
  /\ pc = "read"
  /\ chunks > 0
  /\ IF s = "2xx" THEN Heard("cut") ELSE Heard(s)
  /\ Raise(StatusError(s))
  /\ Close
  /\ UNCHANGED <<asking, addrs, refused, chunks>>

\* The answer is complete.
Answer(s) ==
  /\ pc = "read"
  /\ chunks < MaxChunks
  /\ Heard(s)
  /\ IF s = "2xx"
       THEN pc' = "connected" /\ UNCHANGED <<loop, open, outcome>>
       ELSE Raise(StatusError(s)) /\ Close
  /\ UNCHANGED <<asking, addrs, refused, chunks>>

\* _check_parsed: the verdict is all that was wanted.
Verdict ==
  /\ pc = "connected"
  /\ Close
  /\ pc' = "returned"
  /\ outcome' = "open"
  /\ UNCHANGED <<asking, addrs, loop, refused, chunks, log>>

AttemptStep ==
  \/ ResolveFails \/ Resolve \/ SocketFails \/ OpenSocket \/ Silent \/ Refuses
  \/ Accepts \/ Replies \/ Unreachable \/ SendRequest \/ ReadChunk \/ ReadTooMuch
  \/ ReadSilent \/ ReadBroken \/ Verdict
  \/ \E s \in Status : AnswerCut(s) \/ Answer(s)

Spec == Init /\ [][AttemptStep]_attemptVars

-----------------------------------------------------------------------------
(* Correctness.                                                            *)

TypeOK ==
  /\ mode \in Modes
  /\ retries \in 0 .. MaxRetries
  /\ pc \in {"resolve", "dial", "wait", "send", "read", "connected", "returned", "failed"}
  /\ addrs \in 0 .. MaxAddr
  /\ round \in 0 .. retries /\ pass \in 0 .. Passes
  /\ at \in Address
  /\ refused \in BOOLEAN
  /\ open \subseteq Address
  /\ chunks \in 0 .. MaxChunks
  /\ log \in Seq([addr : Address, signal : Signal])
  /\ outcome \in NetError \cup {"none", "open", "OSError"}

\* Every socket is closed on every path but the one that returns it, and that
\* path holds the socket that answered.
SocketOwned ==
  /\ TypeOK
  /\ pc \in {"resolve", "dial", "failed", "returned"} => open = {}
  /\ pc \in {"wait", "send", "read", "connected"} => open = {at}

Signals == {log[i].signal : i \in DOMAIN log}
Tries(a) == Cardinality({i \in DOMAIN log : log[i].addr = a})

\* A timeout means that every address was given retries + 1 chances and that
\* none of them said anything at all.
SilenceIsSilence ==
  outcome \in {"ConnectTimeout", "UdpInconclusive"} =>
    /\ Signals = {"silence"}
    /\ \A a \in 1 .. addrs : Tries(a) = retries + 1

\* Any answer is definitive.  After a refusal only the addresses behind it are
\* tried, after a reply, an ICMP message or a status of the proxy none is.
AnswersAreFinal ==
  \A i, j \in DOMAIN log : i < j =>
    /\ log[i].signal \notin Status \cup {"cut", "reply", "icmp", "unreachable"}
    /\ log[i].signal = "refuse" /\ ~Proxied => log[j].addr > log[i].addr

\* An open verdict rests on the last thing heard: a connection, a reply, or a
\* complete 2xx answer of the proxy.  UDP silence is never an open port.
OpenIsReal ==
  outcome = "open" =>
    log[Len(log)].signal = CASE mode = "tcp"   -> "accept"
                             [] mode = "udp"   -> "reply"
                             [] mode = "proxy" -> "2xx"

\* What an attempt reports is what the network said, and all that it said.
OutcomeTrue == SilenceIsSilence /\ AnswersAreFinal /\ OpenIsReal
=============================================================================
