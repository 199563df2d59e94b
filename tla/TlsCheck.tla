------------------------------ MODULE TlsCheck ------------------------------
(***************************************************************************)
(* `opskit tls check` for one target (tls/api.py check): the connection of *)
(* NetAttempt, then the handshake of tls/handshake.py over its socket under *)
(* a deadline, then the inspection of what the handshake yielded.          *)
(*                                                                         *)
(* The peer may take any number of messages over the handshake, and time   *)
(* passes in steps of its own.                                             *)
(***************************************************************************)
EXTENDS NetAttempt, CertFindings

CONSTANTS
  Timeout,      \* --timeout of the handshake, in steps of the clock
  WarnDays,     \* values of --warn-days
  Wanted,       \* identities a check can be about: [kind, name]
  Offers        \* Offers[o]: what servers present in case o, each a record
                \* [leaf, errors, chainLength, version]

\* A name or an address, the versions the ssl module names, and what the
\* handshake with a server yields.
Version == {"none", "SSLv2", "SSLv3", "TLSv1", "TLSv1.1", "TLSv1.2", "TLSv1.3"}

Identity == [kind : {"dns", "ip"}, name : Seq(STRING)]

Presented ==
  [leaf : [sans : SUBSET Identity, days : Int, selfSigned : BOOLEAN],
   errors : Seq(Errno), chainLength : Nat, version : Version]

ASSUME TlsAssumption ==
  /\ Modes = {"tcp"} /\ Timeout \in Nat \ {0} /\ WarnDays \subseteq Nat
  /\ Wanted \subseteq Identity
  /\ \A o \in DOMAIN Offers : Offers[o] \subseteq Presented

VARIABLES
  wanted, warnDays, strict,   \* the identity, --warn-days, raise_on_invalid
  offers,       \* the case of Offers
  stage,
  elapsed,      \* the clock since the handshake began
  shown,        \* what the completed handshake yielded
  days,         \* parse_certificate: days_until_expiry when it was computed
  findings,
  result        \* the verdict returned, or what was raised

tlsOptions == <<wanted, warnDays, strict, offers>>
tlsVars == <<tlsOptions, stage, elapsed, shown, days, findings, result>>
vars == <<attemptVars, tlsVars>>

Nothing == [leaf |-> [sans |-> {}, days |-> 0, selfSigned |-> FALSE],
            errors |-> <<>>, chainLength |-> 0, version |-> "none"]

TlsInit ==
  /\ mode \in Modes /\ Fresh
  /\ stage = "connect"
  /\ elapsed = 0
  /\ shown = Nothing /\ days = 0 /\ findings = <<>>
  /\ result = "none"

\* The finally clause of check closes the socket whatever was raised.
Leave(r) ==
  /\ stage' = "done"
  /\ result' = r
  /\ Close
  /\ UNCHANGED <<mode, retries, pc, addrs, loop, refused, chunks, log, outcome>>

\* net.connect, which hands its socket over.
Connect ==
  /\ stage = "connect" /\ pc # "connected"
  /\ AttemptStep
  /\ UNCHANGED tlsVars

ConnectFailed ==
  /\ stage = "connect" /\ pc = "failed"
  /\ Leave(outcome)
  /\ UNCHANGED <<tlsOptions, elapsed, shown, days, findings>>

\* build_context: a CA file that cannot be loaded is not an error of opskit's own.
BadContext ==
  /\ stage = "connect" /\ pc = "connected"
  /\ Leave("SSLError")
  /\ UNCHANGED <<tlsOptions, elapsed, shown, days, findings>>

Start ==
  /\ stage = "connect" /\ pc = "connected"
  /\ stage' = "handshake"
  /\ elapsed' = 0
  /\ UNCHANGED <<attemptVars, tlsOptions, shown, days, findings, result>>

\* do_handshake needs the peer: wait for it, unless the deadline has passed.
Wants ==
  /\ stage = "handshake"
  /\ elapsed < Timeout
  /\ stage' = "select"
  /\ UNCHANGED <<attemptVars, tlsOptions, elapsed, shown, days, findings, result>>

\* Mutant: a wait that ends with nothing to read is a timeout, whatever the clock says.
TimesOutEarly ==
  /\ stage \in {"handshake", "select"}
  /\ stage = "handshake" => elapsed = Timeout
  /\ Leave("ConnectTimeout")
  /\ UNCHANGED <<tlsOptions, elapsed, shown, days, findings>>

\* The deadline has passed when do_handshake needs the peer again, or during
\* the wait for it.
TimesOut ==
  /\ stage \in {"handshake", "select"}
  /\ elapsed = Timeout
  /\ Leave("ConnectTimeout")
  /\ UNCHANGED <<tlsOptions, elapsed, shown, days, findings>>

\* Mutant: every message of the peer starts the wait anew.
ReadyAnew ==
  /\ stage = "select"
  /\ stage' = "handshake"
  /\ elapsed' = 0
  /\ UNCHANGED <<attemptVars, tlsOptions, shown, days, findings, result>>

Ready ==
  /\ stage = "select"
  /\ stage' = "handshake"
  /\ UNCHANGED <<attemptVars, tlsOptions, elapsed, shown, days, findings, result>>

\* The peer does not speak TLS, or closes the connection.
HandshakeFails ==
  /\ stage = "handshake"
  /\ Leave("HandshakeError")
  /\ UNCHANGED <<tlsOptions, elapsed, shown, days, findings>>

\* Mutant: the socket is closed by nobody once the handshake is through.
CompleteLeaking ==
  /\ stage = "handshake"
  /\ shown' \in Offers[offers]
  /\ stage' = "inspect"
  /\ UNCHANGED <<attemptVars, tlsOptions, elapsed, days, findings, result>>

\* The chain is taken, TLS shut down and the socket closed.
Complete ==
  /\ stage = "handshake"
  /\ shown' \in Offers[offers]
  /\ stage' = "inspect"
  /\ Close
  /\ UNCHANGED <<mode, retries, pc, addrs, loop, refused, chunks, log, outcome>>
  /\ UNCHANGED <<tlsOptions, elapsed, days, findings, result>>

Tick ==
  /\ stage \in {"handshake", "select"} /\ elapsed < Timeout
  /\ elapsed' = elapsed + 1
  /\ UNCHANGED <<attemptVars, tlsOptions, stage, shown, days, findings, result>>

\* A handshake without a certificate.
NoCertificate ==
  /\ stage = "inspect" /\ shown.chainLength = 0
  /\ Leave("CertificateInvalid")
  /\ UNCHANGED <<tlsOptions, elapsed, shown, days, findings>>

\* raise_on_invalid turns a bad verdict into an exception.
Report(verdict) ==
  CASE strict /\ verdict = "cert_invalid"  -> "CertificateInvalid"
    [] strict /\ verdict = "expiring_soon" -> "CertificateExpiring"
    [] OTHER -> verdict

\* The days are counted now, when a day more may have passed than the
\* handshake saw.
Inspect ==
  /\ stage = "inspect" /\ shown.chainLength > 0
  /\ days' \in {shown.leaf.days, shown.leaf.days - 1}
  /\ findings' = BuildFindings([shown.leaf EXCEPT !.days = days'],
                               MatchHostname(wanted, shown.leaf.sans),
                               shown.errors, shown.chainLength, shown.version, warnDays)
  /\ Leave(Report(VerdictOn(findings')))
  /\ UNCHANGED <<tlsOptions, elapsed, shown>>

Work ==
  \/ Connect \/ ConnectFailed \/ BadContext \/ Start \/ Wants \/ TimesOut \/ Ready
  \/ HandshakeFails \/ Complete \/ NoCertificate \/ Inspect

CheckStep == Work \/ Tick
-----------------------------------------------------------------------------
(* Correctness.                                                            *)

\* Types.
TlsTypeOK ==
  /\ TypeOK
  /\ stage \in {"connect", "handshake", "select", "inspect", "done"}
  /\ elapsed \in 0 .. Timeout
  /\ shown.chainLength \in Nat /\ shown.errors \in Seq(Errno)
  /\ days \in Int
  /\ findings \in Seq(FindingCode)
  /\ result \in NetError \cup {"none", "OSError", "SSLError", "HandshakeError", "ok",
                 "cert_invalid", "expiring_soon", "CertificateInvalid", "CertificateExpiring"}

\* RFC 6125: the names that a pattern covers.
Covers(pattern, host) ==
  \/ pattern = host
  \/ /\ Len(pattern) > 1 /\ pattern[1] = "*"
     /\ \E label \in ToSet(host) : [pattern EXCEPT ![1] = label] = host

NameCovered(leaf, name) ==
  \E san \in leaf.sans :
    /\ san.kind = name.kind
    /\ IF san.kind = "dns" THEN Covers(san.name, name.name) ELSE san.name = name.name

Sound == shown.errors = <<>> /\ NameCovered(shown.leaf, wanted)

\* FR-007, FR-010: success means that the handshake recorded nothing against
\* the certificate, that it covers the name asked for and that it does not run
\* out within the warning; a warning is never given for a certificate that is
\* invalid; and each condition is named once.  (A certificate that runs out
\* between the handshake and the count of its days has none left and gets no
\* warning either.)
VerdictTrue ==
  /\ IsInjective(findings)
  /\ result = "ok" => Sound /\ ~(warnDays > 0 /\ days \in 0 .. warnDays)
  /\ result \in {"expiring_soon", "CertificateExpiring"} =>
       Sound /\ warnDays > 0 /\ days \in 0 .. warnDays
  /\ result \in {"cert_invalid", "CertificateInvalid"} => ~Sound \/ shown.chainLength = 0

\* models.py TlsOutcome, "the first failing layer wins": what is said of a layer
\* rests on the one below, and a timeout means that no address answered or that
\* the handshake was given all of its time.  The socket is open exactly while a
\* handshake may use it.
LayersTrue ==
  /\ TlsTypeOK
  /\ open = IF pc \in {"wait", "connected"} /\ stage \notin {"inspect", "done"} THEN {at} ELSE {}
  /\ stage = "done" =>
      /\ result \in {"ResolutionError", "OSError", "ConnectRefused"} => outcome = result
      /\ result = "ConnectTimeout" =>
           IF outcome = "ConnectTimeout" THEN SilenceIsSilence ELSE elapsed = Timeout
      /\ result \notin NetError \cup {"OSError"} => log[Len(log)].signal = "accept"
      /\ findings # <<>> => result \notin NetError \cup {"HandshakeError", "SSLError"}
=============================================================================
