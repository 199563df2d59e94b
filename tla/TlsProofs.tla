------------------------------ MODULE TlsProofs ------------------------------
(***************************************************************************)
(* Proofs about `opskit tls check` (TlsCheck, TlsCommand): what it says of *)
(* a certificate, of a layer and of a round of targets is so.              *)
(*                                                                         *)
(*   AddAllTrue, VerdictOfFindings   the findings of an inspection, by     *)
(*                 induction on what the handshake recorded                *)
(*   PatternCovers  wildcard comparison is covering, as RFC 6125 has it    *)
(*   CheckInv       the layers of one check and its verdict                *)
(*   CommandInv     the rounds of the command over it                      *)
(***************************************************************************)
EXTENDS TlsCommand, NetProofs, ExitCodeProofs, SequenceTheorems

-----------------------------------------------------------------------------
(***************************************************************************)
(* Findings.                                                               *)
(***************************************************************************)
Findings == {f \in Seq(FindingCode) : IsInjective(f)}

\* A condition is reported once, and stays reported.
LEMMA AddTrue ==
  ASSUME NEW f \in Findings, NEW code \in FindingCode
  PROVE  /\ Add(f, code) \in Findings
         /\ ToSet(Add(f, code)) = ToSet(f) \cup {code}
<1>1. f \in Seq(FindingCode) /\ IsInjective(f) /\ Len(f) \in Nat /\ DOMAIN f = 1 .. Len(f)
  BY DEF Findings
<1>2. CASE Contains(f, code)
  BY <1>1, <1>2 DEF Add, Contains, ToSet
<1>3. CASE ~Contains(f, code)
  <2>1. Add(f, code) = Append(f, code)
    BY <1>3 DEF Add
  <2> DEFINE g == Append(f, code)
  <2>2. /\ g \in Seq(FindingCode) /\ DOMAIN g = 1 .. Len(f) + 1
        /\ \A i \in 1 .. Len(f) : g[i] = f[i]
        /\ g[Len(f) + 1] = code
    BY <1>1
  <2> HIDE DEF g
  <2>3. \A i \in DOMAIN g : i \in 1 .. Len(f) \/ i = Len(f) + 1
    BY <1>1, <2>2
  <2>4. \A i \in 1 .. Len(f) : f[i] # code /\ i \in DOMAIN g
    BY <1>1, <1>3, <2>2 DEF Contains
  <2>5. IsInjective(g)
    BY <1>1, <2>2, <2>3, <2>4 DEF IsInjective
  <2>6. Len(f) + 1 \in DOMAIN g
    BY <1>1, <2>2
  <2>7. \A x \in ToSet(g) : x \in ToSet(f) \cup {code}
    BY <1>1, <2>2, <2>3 DEF ToSet
  <2>8. \A x \in ToSet(f) \cup {code} : x \in ToSet(g)
    BY <1>1, <2>2, <2>4, <2>6 DEF ToSet
  <2>9. ToSet(g) = ToSet(f) \cup {code}
    BY <2>7, <2>8
  <2>. QED BY <2>1, <2>2, <2>5, <2>9 DEF Findings, g
<1>. QED BY <1>2, <1>3

LEMMA AddIfTrue ==
  ASSUME NEW f \in Findings, NEW code \in FindingCode, NEW condition
  PROVE  /\ AddIf(f, condition, code) \in Findings
         /\ ToSet(AddIf(f, condition, code)) = ToSet(f) \cup IF condition THEN {code} ELSE {}
BY AddTrue DEF AddIf

\* What was recorded is reported, each condition once.
LEMMA AddAllTrue ==
  ASSUME NEW recorded \in Seq(FindingCode)
  PROVE  /\ AddAll(recorded) \in Findings
         /\ ToSet(AddAll(recorded)) = ToSet(recorded)
<1> DEFINE n == Len(recorded)
           Step(g) == [i \in 0 .. n |-> IF i = 0 THEN <<>> ELSE Add(g[i - 1], recorded[i])]
           added == CHOOSE g : g = Step(g)
           step == [x \in Findings \X Nat |->
                      IF x[2] \in 1 .. n THEN Add(x[1], recorded[x[2]]) ELSE <<>>]
<1>1. n \in Nat /\ DOMAIN recorded = 1 .. n /\ \A i \in 1 .. n : recorded[i] \in FindingCode
  OBVIOUS
<1>2. AddAll(recorded) = added[n]
  BY DEF AddAll
<1>3. <<>> \in Findings /\ ToSet(<<>>) = {}
  BY DEF Findings, IsInjective, ToSet
<1>4. step \in [Findings \X Nat -> Findings]
  <2> HIDE DEF n
  <2>. QED BY <1>1, <1>3, AddTrue
<1>5. PICK g \in [0 .. n -> Findings] :
        g[0] = <<>> /\ \A i \in 1 .. n : g[i] = step[<<g[i - 1], i>>]
  <2> DEFINE base == <<>>
  <2>1. base \in Findings
    BY <1>3
  <2> HIDE DEF step, n, base
  <2>2. \E g : Unfolds(g, Findings, base, step, n)
    BY <1>1, <1>4, <2>1, NatRecursion
  <2>. QED BY <2>2 DEF base, Unfolds
<1>6. g = Step(g)
  <2>1. \A i \in 0 .. n : i = 0 \/ (i \in 1 .. n /\ i - 1 \in 0 .. n)
    BY <1>1
  <2> HIDE DEF n
  <2>2. \A i \in 1 .. n : step[<<g[i - 1], i>>] = Add(g[i - 1], recorded[i])
    BY <1>1, <1>5, <2>1
  <2>3. \A i \in 0 .. n : g[i] = IF i = 0 THEN <<>> ELSE Add(g[i - 1], recorded[i])
    BY <1>5, <2>1, <2>2
  <2> DEFINE h == Step(g)
  <2>4. h = [i \in 0 .. n |-> g[i]]
    BY <2>3
  <2>5. g = [i \in 0 .. n |-> g[i]]
    BY <1>5
  <2>. QED BY <2>4, <2>5
<1>7. added = Step(added)
  <2> HIDE DEF Step
  <2>. QED BY <1>6
<1> DEFINE T == {i \in Nat : i <= n => added[i] \in Findings
                                       /\ ToSet(added[i]) = {recorded[j] : j \in 1 .. i}}
<1> HIDE DEF added, n, step
<1>8. 0 \in T
  <2>1. added[0] = <<>>
    BY <1>1, <1>7
  <2>. QED BY <1>3, <2>1
<1>9. ASSUME NEW i \in Nat, i \in T
      PROVE  i + 1 \in T
  <2> SUFFICES ASSUME i + 1 <= n
               PROVE  /\ added[i + 1] \in Findings
                      /\ ToSet(added[i + 1]) = {recorded[j] : j \in 1 .. i + 1}
    OBVIOUS
  <2>1. i + 1 \in 1 .. n /\ i + 1 \in 0 .. n /\ i + 1 # 0 /\ (i + 1) - 1 = i /\ i <= n
    BY <1>1
  <2>2. added[i + 1] = Add(added[i], recorded[i + 1])
    BY <1>7, <2>1
  <2>3. added[i] \in Findings /\ ToSet(added[i]) = {recorded[j] : j \in 1 .. i}
    BY <1>9, <2>1
  <2>4. \A j : j \in 1 .. i + 1 <=> j \in 1 .. i \/ j = i + 1
    OBVIOUS
  <2>5. {recorded[j] : j \in 1 .. i + 1} = {recorded[j] : j \in 1 .. i} \cup {recorded[i + 1]}
    BY <2>4
  <2>. QED BY <1>1, <2>1, <2>2, <2>3, <2>5, AddTrue
<1>10. n \in T
  <2> HIDE DEF T
  <2>. QED BY <1>1, <1>8, <1>9, NatInduct
<1>11. added[n] \in Findings /\ ToSet(added[n]) = {recorded[j] : j \in 1 .. n}
  BY <1>1, <1>10
<1>. QED BY <1>1, <1>2, <1>11 DEF ToSet

\* What the handshake recorded, and a name that is not covered, make the
\* certificate invalid; nothing else does.
RightVerdict(f, leaf, matched, errors, warnDay) ==
  /\ f \in Findings
  /\ VerdictOn(f) = IF ~(errors = <<>> /\ matched) THEN "cert_invalid"
                    ELSE IF warnDay > 0 /\ leaf.days \in 0 .. warnDay THEN "expiring_soon" ELSE "ok"

LEMMA VerdictOfFindings ==
  ASSUME NEW leaf, NEW matched, NEW errors \in Seq(Errno), NEW chainLength, NEW version,
         NEW warnDay \in Nat
  PROVE  RightVerdict(BuildFindings(leaf, matched, errors, chainLength, version, warnDay),
               leaf, matched, errors, warnDay)
<1> DEFINE recorded == [i \in DOMAIN errors |-> Classify(errors[i], leaf, chainLength)]
           verified == AddAll(recorded)
           bare == ~matched /\ leaf.sans = {}
           first == AddIf(verified, bare, "no_sans")
           second == AddIf(first, ~matched, "name_mismatch")
           old == version \in {"SSLv3", "TLSv1", "TLSv1.1"}
           spoken == AddIf(second, old, "legacy_protocol")
           warned == warnDay > 0 /\ leaf.days \in 0 .. warnDay
           soon == warnDay > 0 /\ leaf.days \in 0 .. warnDay /\ ToSet(spoken) \cap Invalid = {}
           all == AddIf(spoken, soon, "expiring_soon")
<1>1. BuildFindings(leaf, matched, errors, chainLength, version, warnDay) = all
  BY DEF BuildFindings
<1>2. /\ recorded \in Seq(FindingCode) /\ ToSet(recorded) \subseteq Invalid
      /\ ToSet(recorded) = {} <=> errors = <<>>
  <2>1. Len(errors) \in Nat /\ DOMAIN errors = 1 .. Len(errors)
    OBVIOUS
  <2>2. \A i \in DOMAIN errors : recorded[i] \in Invalid
    BY DEF Classify, Invalid, FindingCode
  <2>3. recorded \in [1 .. Len(errors) -> FindingCode]
    BY <2>1, <2>2 DEF Invalid
  <2>4. recorded \in Seq(FindingCode)
    BY <2>1, <2>3
  <2>5. DOMAIN recorded = DOMAIN errors
    OBVIOUS
  <2> HIDE DEF recorded
  <2>6. ToSet(recorded) \subseteq Invalid
    BY <2>2, <2>5 DEF ToSet
  <2>7. ToSet(recorded) = {} <=> errors = <<>>
    <3>1. ASSUME errors # <<>>
          PROVE  1 \in DOMAIN errors
      BY <3>1
    <3>2. ASSUME errors = <<>>
          PROVE  DOMAIN errors = {}
      BY <3>2
    <3>. QED BY <2>5, <3>1, <3>2 DEF ToSet
  <2>. QED BY <2>4, <2>6, <2>7
<1> HIDE DEF recorded
<1>3. verified \in Findings /\ ToSet(verified) = ToSet(recorded)
  BY <1>2, AddAllTrue
<1>4. {"no_sans", "name_mismatch", "legacy_protocol", "expiring_soon"} \subseteq FindingCode
      /\ "no_sans" \in Invalid /\ "name_mismatch" \in Invalid
      /\ "legacy_protocol" \notin Invalid /\ "expiring_soon" \notin Invalid
  BY DEF FindingCode, Invalid
<1> HIDE DEF verified
<1>6. first \in Findings /\ ToSet(first) = ToSet(verified) \cup IF bare THEN {"no_sans"} ELSE {}
  <2> HIDE DEF bare
  <2>. QED BY <1>3, <1>4, AddIfTrue
<1> HIDE DEF first
<1>7. second \in Findings
      /\ ToSet(second) = ToSet(first) \cup IF ~matched THEN {"name_mismatch"} ELSE {}
  BY <1>4, <1>6, AddIfTrue
<1> HIDE DEF second
<1>8. spoken \in Findings
      /\ ToSet(spoken) = ToSet(second) \cup IF old THEN {"legacy_protocol"} ELSE {}
  <2> HIDE DEF old
  <2>. QED BY <1>4, <1>7, AddIfTrue
<1> HIDE DEF spoken
<1>9. all \in Findings
      /\ ToSet(all) = ToSet(spoken) \cup IF soon THEN {"expiring_soon"} ELSE {}
  <2> HIDE DEF soon
  <2>. QED BY <1>4, <1>8, AddIfTrue
<1> HIDE DEF all, old
<1>10. ToSet(spoken) \cap Invalid = {} <=> errors = <<>> /\ matched
  BY <1>2, <1>3, <1>4, <1>6, <1>7, <1>8
<1>11. ToSet(all) \cap Invalid = ToSet(spoken) \cap Invalid
  BY <1>4, <1>9
<1>12. "expiring_soon" \notin ToSet(spoken)
  BY <1>2, <1>3, <1>4, <1>6, <1>7, <1>8
<1>13. Contains(all, "expiring_soon") <=> soon
  <2>1. Contains(all, "expiring_soon") <=> "expiring_soon" \in ToSet(all)
    <3>1. DOMAIN all = 1 .. Len(all)
      BY <1>9 DEF Findings
    <3>. QED BY <3>1 DEF Contains, ToSet
  <2>. QED BY <1>9, <1>12, <2>1
<1>14. VerdictOn(all) = IF ~(errors = <<>> /\ matched) THEN "cert_invalid"
                        ELSE IF warned THEN "expiring_soon" ELSE "ok"
  BY <1>10, <1>11, <1>13 DEF VerdictOn
<1>. QED BY <1>1, <1>9, <1>14 DEF RightVerdict

\* A wildcard for one label, compared label by label, is a pattern that becomes
\* the name once the wildcard is replaced.
LEMMA PatternCovers ==
  ASSUME NEW pattern \in Seq(STRING), NEW host \in Seq(STRING)
  PROVE  DnsNameMatches(pattern, host) <=> Covers(pattern, host)
<1> DEFINE k == Len(pattern)
           l == Len(host)
<1>1. k \in Nat /\ l \in Nat /\ DOMAIN pattern = 1 .. k /\ DOMAIN host = 1 .. l
  OBVIOUS
<1>2. ASSUME k > 1, k = l, Tail(pattern) = Tail(host)
      PROVE  \E label \in ToSet(host) : [pattern EXCEPT ![1] = label] = host
  <2> DEFINE replaced == [pattern EXCEPT ![1] = host[1]]
  <2>1. host[1] \in ToSet(host)
    BY <1>1, <1>2 DEF ToSet
  <2>2. \A i \in 2 .. k : Tail(pattern)[i - 1] = pattern[i] /\ Tail(host)[i - 1] = host[i]
    BY <1>1, <1>2
  <2>3. \A i \in 1 .. k : i = 1 \/ i \in 2 .. k
    BY <1>1
  <2>4. \A i \in 1 .. k : replaced[i] = host[i]
    BY <1>1, <1>2, <2>2, <2>3
  <2>5. replaced = [i \in 1 .. k |-> replaced[i]]
    BY <1>1
  <2>6. host = [i \in 1 .. k |-> host[i]]
    BY <1>1, <1>2
  <2> HIDE DEF replaced, k
  <2>7. replaced = host
    BY <2>4, <2>5, <2>6
  <2>. QED BY <2>1, <2>7 DEF replaced
<1>3. ASSUME k > 1, NEW label \in ToSet(host), [pattern EXCEPT ![1] = label] = host
      PROVE  k = l /\ Tail(pattern) = Tail(host)
  <2> DEFINE replaced == [pattern EXCEPT ![1] = label]
  <2>1. replaced = host /\ DOMAIN replaced = 1 .. k /\ \A i \in 2 .. k : replaced[i] = pattern[i]
    <3>1. replaced = host
      BY <1>3
    <3>2. DOMAIN replaced = DOMAIN pattern
      OBVIOUS
    <3>3. \A i \in DOMAIN pattern : i # 1 => replaced[i] = pattern[i]
      OBVIOUS
    <3>4. \A i \in 2 .. k : i \in 1 .. k /\ i # 1
      BY <1>1
    <3> HIDE DEF replaced, k
    <3>. QED BY <1>1, <3>1, <3>2, <3>3, <3>4
  <2> HIDE DEF replaced
  <2>2. 1 .. k = 1 .. l
    BY <1>1, <2>1
  <2> HIDE DEF k, l
  <2>3. k \in 1 .. k /\ (l >= 1 => l \in 1 .. l)
    BY <1>1, <1>3
  <2>4. k = l
    BY <1>1, <2>2, <2>3
  <2> USE DEF k, l
  <2>5. /\ Tail(pattern) \in Seq(STRING) /\ Len(Tail(pattern)) = k - 1
        /\ \A i \in 1 .. k - 1 : Tail(pattern)[i] = pattern[i + 1]
    BY <1>3
  <2>6. /\ Tail(host) \in Seq(STRING) /\ Len(Tail(host)) = k - 1
        /\ \A i \in 1 .. k - 1 : Tail(host)[i] = host[i + 1]
    BY <1>3, <2>4
  <2> HIDE DEF k, l
  <2>7. \A i \in 1 .. k - 1 : pattern[i + 1] = host[i + 1]
    <3>1. \A i \in 1 .. k - 1 : i + 1 \in 2 .. k
      BY <1>1
    <3>. QED BY <2>1, <3>1
  <2>8. Tail(pattern) = Tail(host)
    BY <2>5, <2>6, <2>7, SeqEqual
  <2>. QED BY <2>4, <2>8
<1>. QED BY <1>2, <1>3 DEF DnsNameMatches, Covers

LEMMA MatchCovers ==
  ASSUME NEW leaf, leaf.sans \subseteq Identity, NEW name \in Identity
  PROVE  MatchHostname(name, leaf.sans) <=> NameCovered(leaf, name)
<1>1. \A x \in Identity : x.kind \in {"dns", "ip"} /\ x.name \in Seq(STRING)
  BY DEF Identity
<1>2. \A san \in leaf.sans :
        DnsNameMatches(san.name, name.name) <=> Covers(san.name, name.name)
  BY <1>1, PatternCovers
<1>. QED BY <1>1, <1>2 DEF MatchHostname, NameCovered

-----------------------------------------------------------------------------
(***************************************************************************)
(* The layers of one check.                                                *)
(***************************************************************************)
LEMMA GiveUpRaises ==
  ASSUME GiveUp
  PROVE  pc' # "returned" /\ (pc' = "failed" => outcome' # "none")
BY DEF GiveUp, TunnelSilent, Raise

LEMMA NextAddressRaises ==
  ASSUME NextAddress
  PROVE  pc' # "returned" /\ (pc' = "failed" => outcome' # "none")
BY GiveUpRaises DEF NextAddress

\* A connection attempt is over when it has a socket or has raised something.
LEMMA AttemptRaises ==
  ASSUME WalkInv, mode = "tcp", pc # "connected", AttemptStep
  PROVE  pc' # "returned" /\ (pc' = "failed" => outcome' # "none")
<1>1. ~Proxied /\ pc \notin {"send", "read"}
  BY DEF Proxied, WalkInv, Orderly
<1>2. CASE ResolveFails \/ Resolve \/ SocketFails \/ OpenSocket
  BY <1>2 DEF ResolveFails, Resolve, SocketFails, OpenSocket, Raise
<1>3. CASE Silent \/ Refuses
  BY <1>3, NextAddressRaises DEF Silent, Refuses
<1>4. CASE Accepts \/ Replies
  BY <1>1, <1>4 DEF Accepts, Replies
<1>5. CASE Unreachable
  BY <1>5 DEF Unreachable
<1>. QED BY <1>1, <1>2, <1>3, <1>4, <1>5
     DEF AttemptStep, SendRequest, ReadChunk, ReadTooMuch, ReadSilent, ReadBroken, Verdict,
         AnswerCut, Answer

VerdictResult == {"ok", "cert_invalid", "expiring_soon", "CertificateInvalid", "CertificateExpiring"}

\* The connection that was accepted.
Accepted == pc = "connected" /\ outcome = "none" /\ log # <<>> /\ log[Len(log)].signal = "accept"

\* Each layer rests on the one below, and what a check ends with says on which.
Layered ==
  /\ stage = "connect" => WalkInv /\ pc # "returned" /\ (pc = "failed" => outcome # "none")
  /\ stage \in {"handshake", "select"} => WalkInv /\ pc = "connected"
  /\ stage = "inspect" => Accepted
  /\ stage \in {"inspect", "done"} => open = {}
  /\ stage = "done" =>
       \/ /\ pc = "failed" /\ result = outcome /\ outcome \notin {"none", "open"}
          /\ SilenceIsSilence /\ findings = <<>>
       \/ /\ Accepted
          /\ result \in {"SSLError", "HandshakeError", "ConnectTimeout"} \cup VerdictResult
          /\ result = "ConnectTimeout" => elapsed = Timeout
          /\ findings # <<>> => result \in VerdictResult
  /\ stage # "done" => result = "none" /\ findings = <<>>

CheckInv ==
  /\ TlsTypeOK /\ shown \in Presented
  /\ Layered /\ VerdictTrue

LEMMA NothingPresented == Nothing \in Presented
<1>0. "none" \in Version
  BY DEF Version
<1>1. {} \in SUBSET Identity /\ 0 \in Int /\ 0 \in Nat
  OBVIOUS
<1>2. <<>> \in Seq(Errno)
  OBVIOUS
<1>3. [sans |-> {}, days |-> 0, selfSigned |-> FALSE]
        \in [sans : SUBSET Identity, days : Int, selfSigned : BOOLEAN]
  BY <1>1
<1>. QED BY <1>0, <1>1, <1>2, <1>3 DEF Nothing, Presented

\* A check that begins.
FreshCheck ==
  /\ mode \in Modes /\ retries \in 0 .. MaxRetries /\ Fresh
  /\ stage = "connect" /\ elapsed = 0 /\ shown = Nothing /\ days = 0
  /\ findings = <<>> /\ result = "none"

LEMMA CheckFresh == FreshCheck => CheckInv
<1> SUFFICES ASSUME FreshCheck PROVE CheckInv
  OBVIOUS
<1> USE DEF FreshCheck
<1>1. WalkInv
  BY WalkFresh
<1>2. pc = "resolve"
  BY DEF Fresh
<1>3. TypeOK
  BY <1>1 DEF WalkInv, SocketOwned
<1>4. shown \in Presented /\ shown.chainLength \in Nat /\ shown.errors \in Seq(Errno)
  BY NothingPresented DEF Presented
<1>5. TlsTypeOK
  BY <1>3, <1>4, TlsAssumption DEF TlsTypeOK
<1>6. Layered
  BY <1>1, <1>2 DEF Layered
<1>7. VerdictTrue
  BY DEF VerdictTrue, IsInjective
<1>. QED BY <1>4, <1>5, <1>6, <1>7 DEF CheckInv

LEMMA CheckFreshNext == FreshCheck' => CheckInv'
BY CheckFresh, PTL

LEMMA LayersFollow == CheckInv => LayersTrue
<1> SUFFICES ASSUME CheckInv PROVE LayersTrue
  OBVIOUS
<1>1. TlsTypeOK /\ Layered /\ TypeOK
  BY DEF CheckInv, TlsTypeOK
<1>2. ASSUME WalkInv
      PROVE  open = IF pc \in {"wait", "connected"} THEN {at} ELSE {}
  <2>1. pc \notin {"send", "read"}
    BY <1>1, <1>2, TlsAssumption DEF TypeOK, WalkInv, Orderly, Proxied
  <2>. QED BY <1>1, <1>2, <2>1 DEF WalkInv, SocketOwned, TypeOK
<1>3. open = IF pc \in {"wait", "connected"} /\ stage \notin {"inspect", "done"} THEN {at} ELSE {}
  BY <1>1, <1>2 DEF TlsTypeOK, Layered
<1>4. ASSUME stage = "done"
      PROVE  /\ result \in {"ResolutionError", "OSError", "ConnectRefused"} => outcome = result
             /\ result = "ConnectTimeout" =>
                  IF outcome = "ConnectTimeout" THEN SilenceIsSilence ELSE elapsed = Timeout
             /\ result \notin NetError \cup {"OSError"} => log[Len(log)].signal = "accept"
             /\ findings # <<>> => result \notin NetError \cup {"HandshakeError", "SSLError"}
  <2>1. CASE /\ pc = "failed" /\ result = outcome /\ outcome \notin {"none", "open"}
             /\ SilenceIsSilence /\ findings = <<>>
    BY <1>1, <2>1 DEF TypeOK
  <2>2. CASE /\ Accepted
             /\ result \in {"SSLError", "HandshakeError", "ConnectTimeout"} \cup VerdictResult
             /\ result = "ConnectTimeout" => elapsed = Timeout
             /\ findings # <<>> => result \in VerdictResult
    BY <2>2 DEF Accepted, VerdictResult, NetError
  <2>. QED BY <1>1, <1>4, <2>1, <2>2 DEF Layered
<1>. QED BY <1>1, <1>3, <1>4 DEF LayersTrue

\* An inspection says of the certificate what is so.
LEMMA InspectTrue ==
  ASSUME CheckInv, wanted \in Identity, warnDays \in Nat, Inspect
  PROVE  /\ findings' \in Findings /\ days' \in Int
         /\ result' \in VerdictResult
         /\ VerdictTrue'
<1> DEFINE leaf == [shown.leaf EXCEPT !.days = days']
           matched == MatchHostname(wanted, shown.leaf.sans)
           sound == shown.errors = <<>> /\ matched
           warned == warnDays > 0 /\ leaf.days \in 0 .. warnDays
           verdict == VerdictOn(findings')
<1>1. /\ days' \in {shown.leaf.days, shown.leaf.days - 1}
      /\ findings' = BuildFindings(leaf, matched, shown.errors, shown.chainLength, shown.version,
                                   warnDays)
      /\ result' = Report(verdict)
      /\ UNCHANGED <<wanted, warnDays, strict, shown>>
  BY DEF Inspect, Leave, tlsOptions
<1>2. /\ shown.leaf \in [sans : SUBSET Identity, days : Int, selfSigned : BOOLEAN]
      /\ shown.errors \in Seq(Errno)
  BY DEF CheckInv, Presented
<1>3. days' \in Int /\ leaf.days = days' /\ shown.leaf.sans \subseteq Identity
  BY <1>1, <1>2
<1>4. matched <=> NameCovered(shown.leaf, wanted)
  BY <1>3, MatchCovers
<1>5. /\ findings' \in Findings
      /\ verdict = IF ~sound THEN "cert_invalid" ELSE IF warned THEN "expiring_soon" ELSE "ok"
  <2> DEFINE f == BuildFindings(leaf, matched, shown.errors, shown.chainLength, shown.version, warnDays)
             e == shown.errors
             c == shown.chainLength
             v == shown.version
  <2>1. e \in Seq(Errno)
    BY <1>2
  <2>2. RightVerdict(f, leaf, matched, e, warnDays)
    <3> HIDE DEF leaf, matched, e, c, v
    <3>1. RightVerdict(BuildFindings(leaf, matched, e, c, v, warnDays), leaf, matched, e, warnDays)
      BY <2>1, VerdictOfFindings
    <3>. QED BY <3>1 DEF e, c, v
  <2>3. findings' = f
    BY <1>1
  <2> HIDE DEF f, matched, leaf
  <2>. QED BY <2>2, <2>3 DEF RightVerdict
<1>6. Sound' <=> sound
  BY <1>1, <1>4 DEF Sound
<1>7. (warnDays > 0 /\ days \in 0 .. warnDays)' <=> warned
  BY <1>1, <1>3
<1> HIDE DEF sound, warned, verdict, matched, leaf
<1>8. /\ result' \in VerdictResult
      /\ result' = "ok" => sound /\ ~warned
      /\ result' \in {"expiring_soon", "CertificateExpiring"} => sound /\ warned
      /\ result' \in {"cert_invalid", "CertificateInvalid"} => ~sound
  BY <1>1, <1>5 DEF Report, VerdictResult
<1>9. IsInjective(findings')
  BY <1>5 DEF Findings
<1>10. VerdictTrue'
  BY <1>6, <1>7, <1>8, <1>9 DEF VerdictTrue
<1>. QED BY <1>3, <1>5, <1>8, <1>10

\* What every step of a check leaves alone.
LEMMA CheckKeeps ==
  ASSUME CheckStep
  PROVE  UNCHANGED <<mode, retries, tlsOptions>>
<1>1. CASE Connect
  BY <1>1, AskingStep DEF Connect, tlsVars
<1>. QED BY <1>1 DEF CheckStep, Work, ConnectFailed, BadContext, Start, Wants, TimesOut, Ready,
       HandshakeFails, Complete, NoCertificate, Inspect, Tick, Leave, attemptVars

\* Without a verdict there is nothing to be wrong about.
LEMMA NoVerdict ==
  ASSUME findings = <<>>, result \notin VerdictResult
  PROVE  VerdictTrue
BY DEF VerdictTrue, VerdictResult, IsInjective

LEMMA NoVerdictNext ==
  (findings = <<>> /\ result \notin VerdictResult)' => VerdictTrue'
<1>1. findings = <<>> /\ result \notin VerdictResult => VerdictTrue
  BY NoVerdict
<1>. QED BY <1>1, PTL

\* The end of a check: the socket is closed and nothing else of the attempt
\* changes.
LEMMA LeaveKeeps ==
  ASSUME CheckInv, NEW r, Leave(r)
  PROVE  /\ TypeOK' /\ stage' = "done" /\ result' = r /\ open' = {}
         /\ UNCHANGED <<pc, outcome, log>>
         /\ Accepted' = Accepted /\ SilenceIsSilence' = SilenceIsSilence
<1>1. /\ stage' = "done" /\ result' = r /\ open' = {}
      /\ UNCHANGED <<mode, retries, pc, addrs, round, pass, at, refused, chunks, log, outcome>>
  BY DEF Leave, Close, loop
<1>2. TypeOK
  BY DEF CheckInv, TlsTypeOK
<1>3. TypeOK'
  BY <1>1, <1>2 DEF TypeOK, Passes, Proxied
<1>. QED BY <1>1, <1>3 DEF Accepted, SilenceIsSilence, Signals, Tries

LEMMA CheckInvStep ==
  ASSUME CheckInv, wanted \in Identity, warnDays \in Nat, offers \in DOMAIN Offers, CheckStep
  PROVE  CheckInv'
<1>0. /\ TlsTypeOK /\ TypeOK /\ Layered /\ shown \in Presented /\ mode = "tcp"
      /\ VerdictTrue /\ Timeout \in Nat \ {0}
  BY TlsAssumption DEF CheckInv, TlsTypeOK, TypeOK
<1>1. UNCHANGED <<mode, retries, wanted, warnDays, strict, offers>>
  BY CheckKeeps DEF tlsOptions
<1>2. ASSUME UNCHANGED <<elapsed, shown, days, findings>>, TypeOK',
             stage' \in {"connect", "handshake", "select", "inspect", "done"},
             result' \in NetError \cup {"none", "OSError", "SSLError", "HandshakeError"}
                         \cup VerdictResult
      PROVE  TlsTypeOK' /\ shown' \in Presented
  BY <1>0, <1>2 DEF TlsTypeOK, VerdictResult
<1>3. ASSUME stage = "connect", pc = "connected"
      PROVE  Accepted
  <2>1. WalkInv
    BY <1>0, <1>3 DEF Layered
  <2>. QED BY <1>0, <1>3, <2>1 DEF WalkInv, Orderly, Reached, Proof, Accepted
<1>4. ASSUME stage \in {"handshake", "select"}
      PROVE  Accepted /\ WalkInv /\ pc = "connected"
  <2>1. WalkInv /\ pc = "connected"
    BY <1>0, <1>4 DEF Layered
  <2>. QED BY <1>0, <2>1 DEF WalkInv, Orderly, Reached, Proof, Accepted
<1>5. CASE Connect
  <2>1. stage = "connect" /\ pc # "connected" /\ AttemptStep /\ UNCHANGED tlsVars
    BY <1>5 DEF Connect
  <2>2. WalkInv
    BY <1>0, <2>1 DEF Layered
  <2>3. WalkInv' /\ pc' # "returned" /\ (pc' = "failed" => outcome' # "none")
    BY <1>0, <2>1, <2>2, WalkInvStep, AttemptRaises
  <2>4. TypeOK'
    BY <2>3 DEF WalkInv, SocketOwned
  <2>5. UNCHANGED <<stage, elapsed, shown, days, findings, result>>
    BY <2>1 DEF tlsVars
  <2>6. TlsTypeOK' /\ shown' \in Presented
    BY <1>0, <2>4, <2>5 DEF TlsTypeOK
  <2>7. Layered'
    BY <1>0, <2>1, <2>3, <2>5 DEF Layered
  <2>8. VerdictTrue'
    BY <1>0, <1>1, <2>5 DEF VerdictTrue, Sound
  <2>. QED BY <2>6, <2>7, <2>8 DEF CheckInv
\* The check ends without a verdict.
<1>6. ASSUME NEW r, Leave(r), UNCHANGED <<elapsed, shown, days, findings>>, stage # "done",
             r \in NetError \cup {"OSError", "SSLError", "HandshakeError"},
             \/ pc = "failed" /\ r = outcome /\ outcome \notin {"none", "open"} /\ SilenceIsSilence
             \/ /\ Accepted /\ r \in {"SSLError", "HandshakeError", "ConnectTimeout"}
                /\ r = "ConnectTimeout" => elapsed = Timeout
      PROVE  CheckInv'
  <2>1. /\ TypeOK' /\ stage' = "done" /\ result' = r /\ open' = {}
        /\ UNCHANGED <<pc, outcome, log>>
        /\ Accepted' = Accepted /\ SilenceIsSilence' = SilenceIsSilence
    BY <1>6, LeaveKeeps
  <2>2. findings' = <<>>
    BY <1>0, <1>6 DEF Layered
  <2>3. TlsTypeOK' /\ shown' \in Presented
    BY <1>2, <1>6, <2>1
  <2>4. Layered'
    BY <1>6, <2>1, <2>2 DEF Layered
  <2>5. r \notin VerdictResult
    BY <1>6 DEF NetError, VerdictResult
  <2>6. VerdictTrue'
    BY <2>1, <2>2, <2>5, NoVerdictNext
  <2>. QED BY <2>3, <2>4, <2>6 DEF CheckInv
<1>7. CASE ConnectFailed
  <2>1. stage = "connect" /\ pc = "failed" /\ Leave(outcome) /\ UNCHANGED <<elapsed, shown, days, findings>>
    BY <1>7 DEF ConnectFailed
  <2>2. outcome \notin {"none", "open"} /\ SilenceIsSilence
    BY <1>0, <2>1 DEF Layered, WalkInv, Orderly
  <2>3. outcome \in NetError \cup {"OSError"}
    BY <1>0, <2>2 DEF TypeOK
  <2>. QED BY <1>6, <2>1, <2>2, <2>3
<1>8. CASE BadContext
  <2>1. stage = "connect" /\ pc = "connected" /\ Leave("SSLError") /\ UNCHANGED <<elapsed, shown, days, findings>>
    BY <1>8 DEF BadContext
  <2>. QED BY <1>3, <1>6, <2>1
<1>9. CASE TimesOut
  <2>1. stage \in {"handshake", "select"} /\ Leave("ConnectTimeout") /\ elapsed = Timeout
        /\ UNCHANGED <<elapsed, shown, days, findings>>
    BY <1>9 DEF TimesOut
  <2>2. "ConnectTimeout" \in NetError
    BY DEF NetError
  <2>. QED BY <1>4, <1>6, <2>1, <2>2
<1>10. CASE HandshakeFails
  <2>1. stage = "handshake" /\ Leave("HandshakeError") /\ UNCHANGED <<elapsed, shown, days, findings>>
    BY <1>10 DEF HandshakeFails
  <2>. QED BY <1>4, <1>6, <2>1
\* The handshake goes on.
<1>11. ASSUME UNCHANGED attemptVars
       PROVE  TypeOK' /\ WalkInv' = WalkInv /\ Accepted' = Accepted
  BY <1>0, <1>11 DEF attemptVars, TypeOK, WalkInv, SocketOwned, Orderly, Unsettled, LeftBehind, Counted,
       Walking, Reached, SilenceIsSilence, AnswersAreFinal, Signals, Tries, Passes, Proxied, Accepted
<1>12. ASSUME UNCHANGED <<attemptVars, shown, days, findings, result>>, stage' \in {"handshake", "select"},
              WalkInv, pc = "connected", stage # "done", elapsed' \in 0 .. Timeout
       PROVE  CheckInv'
  <2>1. TypeOK' /\ WalkInv' /\ pc' = "connected"
    BY <1>11, <1>12 DEF attemptVars
  <2>2. TlsTypeOK' /\ shown' \in Presented
    BY <1>0, <1>12, <2>1 DEF TlsTypeOK
  <2>3. result' = "none" /\ findings' = <<>>
    BY <1>0, <1>12 DEF Layered
  <2>4. Layered'
    BY <1>12, <2>1, <2>3 DEF Layered
  <2>5. VerdictTrue'
    BY <2>3, NoVerdictNext DEF VerdictResult
  <2>. QED BY <2>2, <2>4, <2>5 DEF CheckInv
<1>13. CASE Start
  <2>1. WalkInv
    BY <1>0, <1>13 DEF Start, Layered
  <2>2. 0 \in 0 .. Timeout
    BY <1>0
  <2>. QED BY <1>12, <1>13, <2>1, <2>2 DEF Start
<1>14. CASE Wants \/ Ready
  <2>1. elapsed' \in 0 .. Timeout
    BY <1>0, <1>14 DEF Wants, Ready, TlsTypeOK
  <2>. QED BY <1>4, <1>12, <1>14, <2>1 DEF Wants, Ready
<1>15. CASE Tick
  <2>1. elapsed' \in 0 .. Timeout
    BY <1>0, <1>15 DEF Tick, TlsTypeOK
  <2>. QED BY <1>4, <1>12, <1>15, <2>1 DEF Tick
<1>16. CASE Complete
  <2>1. /\ stage = "handshake" /\ stage' = "inspect" /\ open' = {} /\ shown' \in Offers[offers]
        /\ UNCHANGED <<mode, retries, pc, addrs, round, pass, at, refused, chunks, log, outcome>>
        /\ UNCHANGED <<elapsed, days, findings, result>>
    BY <1>16 DEF Complete, Close, loop
  <2>2. shown' \in Presented
    BY <2>1, TlsAssumption
  <2>3. TypeOK'
    BY <1>0, <2>1 DEF TypeOK, Passes, Proxied
  <2>4. TlsTypeOK'
    BY <1>0, <2>1, <2>2, <2>3 DEF TlsTypeOK, Presented
  <2>5. Accepted'
    BY <1>4, <2>1 DEF Accepted
  <2>6. result' = "none" /\ findings' = <<>>
    BY <1>0, <2>1 DEF Layered
  <2>7. Layered'
    BY <2>1, <2>5, <2>6 DEF Layered
  <2>8. VerdictTrue'
    BY <2>6, NoVerdictNext DEF VerdictResult
  <2>. QED BY <2>2, <2>4, <2>7, <2>8 DEF CheckInv
<1>17. ASSUME NEW r \in VerdictResult, stage = "inspect", Leave(r), UNCHANGED <<elapsed, shown>>,
              days' \in Int, findings' \in Seq(FindingCode), VerdictTrue'
       PROVE  CheckInv'
  <2>1. /\ TypeOK' /\ stage' = "done" /\ result' = r /\ open' = {} /\ Accepted' = Accepted
    BY <1>17, LeaveKeeps
  <2>2. Accepted'
    BY <1>0, <1>17, <2>1 DEF Layered
  <2>3. TlsTypeOK' /\ shown' \in Presented
    BY <1>0, <1>17, <2>1 DEF TlsTypeOK, VerdictResult
  <2>4. r # "ConnectTimeout"
    BY <1>17 DEF VerdictResult
  <2>5. Layered'
    BY <1>17, <2>1, <2>2, <2>4 DEF Layered
  <2>. QED BY <1>17, <2>3, <2>5 DEF CheckInv
<1>18. CASE NoCertificate
  <2>1. stage = "inspect" /\ shown.chainLength = 0 /\ Leave("CertificateInvalid")
        /\ UNCHANGED <<elapsed, shown, days, findings>>
    BY <1>18 DEF NoCertificate
  <2>2. findings' = <<>> /\ result' = "CertificateInvalid"
    BY <1>0, <2>1 DEF Layered, Leave
  <2>3. VerdictTrue'
    BY <2>1, <2>2 DEF VerdictTrue, IsInjective
  <2>4. days' \in Int /\ findings' \in Seq(FindingCode) /\ "CertificateInvalid" \in VerdictResult
    BY <1>0, <2>1 DEF TlsTypeOK, VerdictResult
  <2>. QED BY <1>17, <2>1, <2>3, <2>4
<1>19. CASE Inspect
  <2>1. findings' \in Findings /\ days' \in Int /\ result' \in VerdictResult /\ VerdictTrue'
    BY <1>19, InspectTrue
  <2>2. stage = "inspect" /\ UNCHANGED <<elapsed, shown>> /\ Leave(result')
    BY <1>19 DEF Inspect, Leave
  <2>. QED BY <1>17, <2>1, <2>2 DEF Findings
<1>. QED BY <1>5, <1>7, <1>8, <1>9, <1>10, <1>13, <1>14, <1>15, <1>16, <1>18, <1>19
     DEF CheckStep, Work

-----------------------------------------------------------------------------
(***************************************************************************)
(* The command.                                                            *)
(***************************************************************************)
\* What a round says of a target.
Said == NetError \cup {"none", "HandshakeError", "UsageError"} \cup VerdictResult

Outcome == [says : Said, leaf : [sans : SUBSET Identity, days : Int, selfSigned : BOOLEAN],
            version : Version]

\* A target is called good only with a certificate that covers its name.
CoversTargets(c, r) ==
  \A i \in DOMAIN r : r[i].says \in {"ok", "expiring_soon"} =>
    NameCovered(r[i].leaf, Effective(c, c.targets[i]))

CommandTyped ==
  /\ command \in Command /\ warnDays \in WarnDays /\ offers \in DOMAIN Offers
  /\ phase \in {"given", "library", "target", "checking", "sleeping", "exited"}
  /\ outcomes \in Seq(Outcome) /\ rounds \in Seq(Seq(Outcome))

\* The round that is under way.
RoundInv ==
  /\ Len(outcomes) <= Len(command.targets)
  /\ CoversTargets(command, outcomes)
  /\ phase = "checking" => turn <= Len(command.targets) /\ wanted = Effective(command, target)
  /\ phase \in {"checking", "library"} => wanted \in Identity
  /\ phase \in {"target", "checking", "sleeping"} => command.accepted

\* The rounds that are complete, and what was said of them.
RoundsInv ==
  /\ rounds # <<>> => command.accepted
  /\ \A k \in DOMAIN rounds :
       Len(rounds[k]) = Len(command.targets) /\ CoversTargets(command, rounds[k])
  /\ phase = "given" => rounds = <<>>
  /\ ~command.watch => said = "none"
  /\ said = "no change" => Len(rounds) = 2 /\ Signature(rounds[1]) = Signature(rounds[2])

ExitTold ==
  phase = "exited" /\ exitCode \notin {"killed", "traceback"} =>
    /\ rounds # <<>> =>
         Summarises(exitCode, [i \in DOMAIN Last(rounds) |-> ExitOf(Last(rounds)[i].says)])
    /\ rounds = <<>> => IF exitCode = "OK" THEN command.watch ELSE ~command.accepted

CommandInv == CheckInv /\ CommandTyped /\ RoundInv /\ RoundsInv /\ ExitTold

LEMMA CommandFacts ==
  ASSUME NEW c \in Command
  PROVE  /\ c.targets \in Seq(Target) /\ c.warnDays \in WarnDays /\ c.retries \in 0 .. MaxRetries
         /\ c.offers \in DOMAIN Offers
         /\ c.program => Len(c.targets) = 1
         /\ c.accepted => c.targets # <<>>
         /\ \A i \in 1 .. Len(c.targets) : Effective(c, c.targets[i]) \in Identity
<1>1. c \in CommandType /\ (c.program => Len(c.targets) = 1) /\ (c.accepted => c.targets # <<>>)
  BY CommandAssumption
<1>2. c.targets \in Seq(Target) /\ c.sni \in Wanted \cup {NoName}
  BY <1>1 DEF CommandType
<1>3. \A i \in 1 .. Len(c.targets) : c.targets[i] \in Target
  BY <1>2
<1>4. \A t \in Target : Effective(c, t) \in Identity
  BY <1>2, TlsAssumption DEF Effective, Target
<1>. QED BY <1>1, <1>2, <1>3, <1>4 DEF CommandType

\* A round goes on with the outcome of its next target.
LEMMA RoundGoesOn ==
  ASSUME NEW c, NEW r \in Seq(Outcome), CoversTargets(c, r), NEW o \in Outcome,
         o.says \in {"ok", "expiring_soon"} =>
           NameCovered(o.leaf, Effective(c, c.targets[Len(r) + 1]))
  PROVE  /\ Append(r, o) \in Seq(Outcome) /\ Len(Append(r, o)) = Len(r) + 1
         /\ CoversTargets(c, Append(r, o))
<1> DEFINE g == Append(r, o)
<1>1. /\ g \in Seq(Outcome) /\ Len(g) = Len(r) + 1 /\ DOMAIN g = 1 .. Len(r) + 1
      /\ \A i \in 1 .. Len(r) : g[i] = r[i]
      /\ g[Len(r) + 1] = o
  OBVIOUS
<1>2. DOMAIN r = 1 .. Len(r) /\ Len(r) \in Nat
  OBVIOUS
<1>3. \A i \in 1 .. Len(r) + 1 : i \in 1 .. Len(r) \/ i = Len(r) + 1
  BY <1>2
<1> HIDE DEF g
<1>4. ASSUME NEW i \in DOMAIN g, g[i].says \in {"ok", "expiring_soon"}
      PROVE  NameCovered(g[i].leaf, Effective(c, c.targets[i]))
  <2>1. CASE i \in 1 .. Len(r)
    BY <1>1, <1>2, <1>4, <2>1 DEF CoversTargets
  <2>2. CASE i = Len(r) + 1
    BY <1>1, <1>4, <2>2
  <2>. QED BY <1>1, <1>3, <2>1, <2>2
<1>5. CoversTargets(c, g)
  BY <1>4 DEF CoversTargets
<1>. QED BY <1>1, <1>5 DEF g

\* The exit code of a round with targets sums them up.
LEMMA RoundSummed ==
  ASSUME NEW r \in Seq(Outcome), Len(r) # 0
  PROVE  Summarises(RoundCode(r), [i \in DOMAIN r |-> ExitOf(r[i].says)])
<1> DEFINE codes == [i \in DOMAIN r |-> ExitOf(r[i].says)]
<1>1. Len(r) \in Nat \ {0} /\ DOMAIN codes = 1 .. Len(r)
  OBVIOUS
<1>2. RoundCode(r) = AggregateExit({codes[i] : i \in DOMAIN codes})
  <2>1. {codes[i] : i \in DOMAIN codes} = {ExitOf(r[i].says) : i \in DOMAIN r}
    OBVIOUS
  <2>. QED BY <2>1 DEF RoundCode
<1> HIDE DEF codes
<1>3. Summarises(AggregateExit({codes[i] : i \in DOMAIN codes}), codes)
  BY <1>1, AggregateSummarises
<1>. QED BY <1>2, <1>3 DEF codes

\* At most the last round is kept beside a new one.
LEMMA RoundsKept ==
  ASSUME NEW rs \in Seq(Seq(Outcome)), NEW r \in Seq(Outcome)
  PROVE  LET kept == (IF rs = <<>> THEN <<>> ELSE <<Last(rs)>>) \o <<r>>
         IN  /\ kept \in Seq(Seq(Outcome)) /\ kept # <<>> /\ Last(kept) = r
             /\ \A k \in DOMAIN kept : kept[k] = r \/ \E l \in DOMAIN rs : kept[k] = rs[l]
             /\ rs # <<>> => Len(kept) = 2 /\ kept[1] = Last(rs) /\ kept[2] = r
<1> DEFINE kept == (IF rs = <<>> THEN <<>> ELSE <<Last(rs)>>) \o <<r>>
<1>1. CASE rs = <<>>
  <2>1. kept = <<r>>
    BY <1>1
  <2>. QED BY <1>1, <2>1 DEF Last
<1>2. CASE rs # <<>>
  <2>1. Len(rs) \in DOMAIN rs /\ Last(rs) \in Seq(Outcome) /\ Last(rs) = rs[Len(rs)]
    BY <1>2 DEF Last
  <2> DEFINE last == Last(rs)
  <2>2. kept = <<last>> \o <<r>>
    BY <1>2
  <2> HIDE DEF last, kept
  <2>3. last \in Seq(Outcome) /\ <<last>> \in Seq(Seq(Outcome)) /\ <<r>> \in Seq(Seq(Outcome))
    BY <2>1 DEF last
  <2>4. Len(kept) = 2 /\ kept[1] = last /\ kept[2] = r /\ DOMAIN kept = 1 .. 2
        /\ kept \in Seq(Seq(Outcome)) /\ kept # <<>>
    BY <2>2, <2>3
  <2>5. \A k \in 1 .. 2 : k = 1 \/ k = 2
    OBVIOUS
  <2>. QED BY <2>1, <2>4, <2>5 DEF Last, last, kept
<1>. QED BY <1>1, <1>2

LEMMA CheckStutters ==
  ASSUME CheckInv, UNCHANGED vars
  PROVE  CheckInv'
<1>1. UNCHANGED <<wanted, warnDays, strict, offers, stage, elapsed, shown, days, findings, result>>
      /\ UNCHANGED <<mode, retries, pc, addrs, round, pass, at, refused, open, chunks, log, outcome>>
  BY DEF vars, tlsVars, tlsOptions, attemptVars, asking, loop
<1>2. TypeOK' = TypeOK /\ WalkInv' = WalkInv /\ Accepted' = Accepted /\ SilenceIsSilence' = SilenceIsSilence
  BY <1>1 DEF TypeOK, WalkInv, SocketOwned, Orderly, Unsettled, LeftBehind, Counted,
       Walking, Reached, SilenceIsSilence, AnswersAreFinal, Signals, Tries, Passes, Proxied, Accepted
<1>3. (TlsTypeOK /\ shown \in Presented)'
  BY <1>1, <1>2 DEF CheckInv, TlsTypeOK
<1>4. Layered'
  BY <1>1, <1>2 DEF CheckInv, Layered
<1>5. VerdictTrue'
  BY <1>1 DEF CheckInv, VerdictTrue, Sound
<1>. QED BY <1>3, <1>4, <1>5 DEF CheckInv

LEMMA CommandInitInv == CommandInit => CommandInv
<1> SUFFICES ASSUME CommandInit PROVE CommandInv
  OBVIOUS
<1>1. /\ TlsInit /\ command \in Command /\ retries = command.retries /\ warnDays = command.warnDays
      /\ offers = command.offers
      /\ wanted = IF command.targets = <<>> THEN NoName
                  ELSE Effective(command, command.targets[1])
      /\ phase = IF command.program THEN "library" ELSE "given"
      /\ outcomes = <<>> /\ rounds = <<>> /\ said = "none"
  BY DEF CommandInit
<1>2. /\ command.targets \in Seq(Target) /\ warnDays \in WarnDays /\ retries \in 0 .. MaxRetries
      /\ offers \in DOMAIN Offers /\ (command.program => Len(command.targets) = 1)
      /\ \A i \in 1 .. Len(command.targets) : Effective(command, command.targets[i]) \in Identity
  BY <1>1, CommandFacts
<1>3. FreshCheck
  BY <1>1, <1>2 DEF TlsInit, FreshCheck
<1>4. CheckInv
  BY <1>3, CheckFresh
<1>5. outcomes \in Seq(Outcome) /\ rounds \in Seq(Seq(Outcome)) /\ Len(outcomes) = 0
      /\ DOMAIN outcomes = {} /\ DOMAIN rounds = {} /\ Len(rounds) = 0
  BY <1>1
<1>6. CommandTyped
  BY <1>1, <1>2, <1>5 DEF CommandTyped
<1>7. ASSUME phase = "library"
      PROVE  wanted \in Identity
  <2>1. Len(command.targets) = 1
    BY <1>1, <1>2, <1>7
  <2>2. command.targets # <<>> /\ 1 \in 1 .. Len(command.targets)
    BY <1>2, <2>1
  <2>3. wanted = Effective(command, command.targets[1])
    BY <1>1, <2>2
  <2>. QED BY <1>2, <2>2, <2>3
<1>8. Len(command.targets) \in Nat
  BY <1>2
<1>9. RoundInv
  BY <1>1, <1>5, <1>7, <1>8 DEF RoundInv, CoversTargets
<1>10. RoundsInv
  BY <1>1, <1>5 DEF RoundsInv
<1>11. ExitTold
  BY <1>1 DEF ExitTold
<1>. QED BY <1>4, <1>6, <1>9, <1>10, <1>11 DEF CommandInv

LEMMA CommandInvStep == CommandInv /\ [CommandNext]_allVars => CommandInv'
<1> SUFFICES ASSUME CommandInv, [CommandNext]_allVars
             PROVE  CommandInv'
  OBVIOUS
<1>0. /\ CheckInv /\ CommandTyped /\ RoundInv /\ RoundsInv /\ ExitTold
      /\ outcomes \in Seq(Outcome) /\ rounds \in Seq(Seq(Outcome)) /\ command \in Command
      /\ Len(outcomes) \in Nat
  BY DEF CommandInv, CommandTyped
<1>1. /\ command.targets \in Seq(Target) /\ Len(command.targets) \in Nat
      /\ command.accepted => command.targets # <<>>
      /\ \A i \in 1 .. Len(command.targets) : Effective(command, command.targets[i]) \in Identity
  BY <1>0, CommandFacts
<1>2. /\ <<>> \in Seq(Outcome) /\ Len(<<>>) = 0 /\ CoversTargets(command, <<>>)
  BY DEF CoversTargets
\* Steps of the command between two checks.
<1>3. ASSUME UNCHANGED vars
      PROVE  CheckInv' /\ UNCHANGED <<wanted, warnDays, offers>>
  BY <1>0, <1>3, CheckStutters DEF vars, tlsVars, tlsOptions
<1>4. ASSUME UNCHANGED <<vars, command, outcomes, rounds, said>>, phase' = "exited", phase # "library",
             exitCode' \notin {"killed", "traceback"} =>
               /\ rounds # <<>> =>
                    Summarises(exitCode', [i \in DOMAIN Last(rounds) |-> ExitOf(Last(rounds)[i].says)])
               /\ rounds = <<>> => IF exitCode' = "OK" THEN command.watch ELSE ~command.accepted
      PROVE  CommandInv'
  <2>1. CheckInv' /\ UNCHANGED <<wanted, warnDays, offers>>
    BY <1>3, <1>4
  <2>2. CommandTyped'
    BY <1>0, <1>4, <2>1 DEF CommandTyped
  <2>3. RoundInv' /\ RoundsInv'
    BY <1>0, <1>4, <2>1 DEF RoundInv, RoundsInv, CoversTargets
  <2>4. ExitTold'
    BY <1>4 DEF ExitTold
  <2>. QED BY <2>1, <2>2, <2>3, <2>4 DEF CommandInv
<1>5. ASSUME UNCHANGED <<vars, command, rounds, said, exitCode>>, phase' = "target", command.accepted,
             outcomes' \in Seq(Outcome), Len(outcomes') <= Len(command.targets),
             CoversTargets(command, outcomes')
      PROVE  CommandInv'
  <2>1. CheckInv' /\ UNCHANGED <<wanted, warnDays, offers>>
    BY <1>3, <1>5
  <2>2. CommandTyped'
    BY <1>0, <1>5, <2>1 DEF CommandTyped
  <2>3. RoundInv'
    BY <1>5 DEF RoundInv
  <2>4. RoundsInv'
    BY <1>0, <1>5 DEF RoundsInv, CoversTargets
  <2>5. ExitTold'
    BY <1>5 DEF ExitTold
  <2>. QED BY <2>1, <2>2, <2>3, <2>4, <2>5 DEF CommandInv
<1>6. CASE RejectOptions
  BY <1>0, <1>4, <1>6 DEF RejectOptions, RoundsInv
<1>7. CASE Check \/ Wake
  <2>1. command.accepted /\ BeginRound
    BY <1>0, <1>7 DEF Check, Wake, RoundInv
  <2>2. UNCHANGED <<vars, command, rounds, said, exitCode>> /\ phase' = "target" /\ outcomes' = <<>>
    BY <2>1 DEF BeginRound
  <2>. QED BY <1>1, <1>2, <1>5, <2>1, <2>2
\* The outcome of a target.
<1>8. ASSUME NEW o \in Outcome, command.accepted, turn <= Len(command.targets),
             o.says \in {"ok", "expiring_soon"} => NameCovered(o.leaf, Effective(command, target)),
             outcomes' = Append(outcomes, o), phase' = "target",
             UNCHANGED <<vars, command, rounds, said, exitCode>>
      PROVE  CommandInv'
  <2>1. CoversTargets(command, outcomes)
    BY <1>0 DEF RoundInv
  <2>2. /\ Append(outcomes, o) \in Seq(Outcome) /\ Len(Append(outcomes, o)) = Len(outcomes) + 1
        /\ CoversTargets(command, Append(outcomes, o))
    BY <1>0, <1>8, <2>1, RoundGoesOn DEF turn, target
  <2>3. outcomes' \in Seq(Outcome) /\ Len(outcomes') <= Len(command.targets)
        /\ CoversTargets(command, outcomes')
    BY <1>8, <2>2 DEF turn
  <2>. QED BY <1>5, <1>8, <2>3
<1>9. \A x \in Said : [Undecided EXCEPT !.says = x] \in Outcome
                      /\ [Undecided EXCEPT !.says = x].says = x
  <2>1. Undecided.leaf \in [sans : SUBSET Identity, days : Int, selfSigned : BOOLEAN]
        /\ Undecided.version \in Version
    BY NothingPresented DEF Undecided, Nothing, Presented, Version
  <2>. QED BY <2>1 DEF Undecided, Outcome
<1>10. CASE RefuseTarget
  <2> DEFINE o == [Undecided EXCEPT !.says = "UsageError"]
  <2>1. o \in Outcome /\ o.says = "UsageError"
    BY <1>9 DEF Said
  <2>2. /\ turn <= Len(command.targets) /\ phase = "target" /\ outcomes' = Append(outcomes, o)
        /\ UNCHANGED <<vars, command, phase, rounds, begun, said, exitCode>>
    BY <1>10 DEF RefuseTarget
  <2>3. command.accepted
    BY <1>0, <2>2 DEF RoundInv
  <2> HIDE DEF o
  <2>. QED BY <1>8, <2>1, <2>2, <2>3
<1>11. CASE Conclude
  <2> DEFINE o == IF result \in Verdicts
                    THEN [says |-> result, leaf |-> shown.leaf, version |-> shown.version]
                    ELSE [Undecided EXCEPT !.says = result]
  <2>1. /\ phase = "checking" /\ stage = "done" /\ result \notin Raw /\ phase' = "target"
        /\ outcomes' = Append(outcomes, o)
        /\ UNCHANGED <<vars, command, rounds, begun, said, exitCode>>
    BY <1>11 DEF Conclude
  <2>2. command.accepted /\ turn <= Len(command.targets) /\ wanted = Effective(command, target)
    BY <1>0, <2>1 DEF RoundInv
  <2>3. result \in Said
    BY <1>0, <2>1 DEF CheckInv, TlsTypeOK, Raw, Said, VerdictResult
  <2>4. CASE result \in Verdicts
    <3>1. o = [says |-> result, leaf |-> shown.leaf, version |-> shown.version]
      BY <2>4
    <3>2. shown.leaf \in [sans : SUBSET Identity, days : Int, selfSigned : BOOLEAN]
          /\ shown.version \in Version
      BY <1>0 DEF CheckInv, Presented
    <3>3. o \in Outcome /\ o.says = result /\ o.leaf = shown.leaf
      BY <2>3, <3>1, <3>2 DEF Outcome
    <3>4. result \in {"ok", "expiring_soon"} => NameCovered(shown.leaf, wanted)
      BY <1>0 DEF CheckInv, VerdictTrue, Sound
    <3> HIDE DEF o
    <3>. QED BY <1>8, <2>1, <2>2, <3>3, <3>4
  <2>5. CASE result \notin Verdicts
    <3>1. o = [Undecided EXCEPT !.says = result]
      BY <2>5
    <3>2. o \in Outcome /\ o.says = result
      BY <1>9, <2>3, <3>1
    <3>3. result \notin {"ok", "expiring_soon"}
      BY <2>5 DEF Verdicts
    <3> HIDE DEF o
    <3>. QED BY <1>8, <2>1, <2>2, <3>2, <3>3
  <2>. QED BY <2>4, <2>5
<1>12. CASE ConcludeRaises
  BY <1>4, <1>12 DEF ConcludeRaises
\* A check.
<1>13. ASSUME UNCHANGED <<command, outcomes, rounds, said, exitCode>>, CheckInv', phase' # "exited",
              phase' # "given" \/ phase' = phase,
              CommandTyped', RoundInv'
       PROVE  CommandInv'
  <2>1. RoundsInv'
    BY <1>0, <1>13 DEF RoundsInv, CoversTargets
  <2>2. ExitTold'
    BY <1>13 DEF ExitTold
  <2>. QED BY <1>13, <2>1, <2>2 DEF CommandInv
<1>14. CASE TakeTarget
  <2>1. /\ phase = "target" /\ turn <= Len(command.targets) /\ phase' = "checking"
        /\ wanted' = Effective(command, target)
        /\ UNCHANGED <<mode, retries, warnDays, offers, command, outcomes, rounds, said, exitCode>>
    BY <1>14 DEF TakeTarget, Take, asking
  <2>2. FreshCheck'
    <3>1. mode' \in Modes /\ retries' \in 0 .. MaxRetries
      BY <1>0, <2>1 DEF CheckInv, TlsTypeOK, TypeOK
    <3>2. Fresh'
      BY <1>14 DEF TakeTarget, Take, Fresh
    <3>. QED BY <1>14, <3>1, <3>2 DEF TakeTarget, Take, FreshCheck, Nothing
  <2>3. CheckInv'
    BY <2>2, CheckFreshNext
  <2>4. CommandTyped'
    BY <1>0, <2>1 DEF CommandTyped
  <2>5. wanted' \in Identity /\ command.accepted
    BY <1>0, <1>1, <2>1 DEF RoundInv, turn, target
  <2>6. RoundInv'
    BY <1>0, <2>1, <2>5 DEF RoundInv, turn, target, CoversTargets
  <2>. QED BY <1>13, <2>1, <2>3, <2>4, <2>6
<1>15. CASE CheckTarget
  <2>1. phase \in {"checking", "library"} /\ CheckStep /\ UNCHANGED commandVars
    BY <1>15 DEF CheckTarget
  <2>2. wanted \in Identity /\ warnDays \in Nat /\ offers \in DOMAIN Offers
    BY <1>0, <2>1, TlsAssumption DEF RoundInv, CommandTyped
  <2>3. CheckInv'
    BY <1>0, <2>1, <2>2, CheckInvStep
  <2>4. UNCHANGED <<wanted, warnDays, offers, command, phase, outcomes, rounds, said, exitCode>>
    BY <2>1, CheckKeeps DEF tlsOptions, commandVars
  <2>5. CommandTyped' /\ RoundInv'
    BY <1>0, <2>4 DEF CommandTyped, RoundInv, CoversTargets, turn, target
  <2>. QED BY <1>13, <2>1, <2>3, <2>4, <2>5
\* The end of a round.
<1>16. CASE EndRound
  <2> DEFINE kept == (IF rounds = <<>> THEN <<>> ELSE <<Last(rounds)>>) \o <<outcomes>>
  <2>1. /\ phase = "target" /\ turn > Len(command.targets) /\ rounds' = kept
        /\ UNCHANGED <<vars, command, outcomes, begun>>
    BY <1>16 DEF EndRound
  <2>2. /\ kept \in Seq(Seq(Outcome)) /\ kept # <<>> /\ Last(kept) = outcomes
        /\ \A k \in DOMAIN kept : kept[k] = outcomes \/ \E l \in DOMAIN rounds : kept[k] = rounds[l]
        /\ rounds # <<>> => Len(kept) = 2 /\ kept[1] = Last(rounds) /\ kept[2] = outcomes
    BY <1>0, RoundsKept
  <2> HIDE DEF kept
  <2>3. CheckInv' /\ UNCHANGED <<wanted, warnDays, offers>>
    BY <1>3, <2>1
  <2>4. command.accepted /\ Len(outcomes) = Len(command.targets) /\ CoversTargets(command, outcomes)
    BY <1>0, <1>1, <2>1 DEF RoundInv, turn
  <2>5. phase' \in {"sleeping", "exited"}
    BY <1>16 DEF EndRound
  <2>6. CommandTyped'
    BY <1>0, <2>1, <2>2, <2>3, <2>5 DEF CommandTyped
  <2>7. RoundInv'
    BY <1>0, <2>1, <2>4, <2>5 DEF RoundInv
  <2>8. \A k \in DOMAIN kept :
          Len(kept[k]) = Len(command.targets) /\ CoversTargets(command, kept[k])
    BY <1>0, <2>2, <2>4 DEF RoundsInv
  <2>9. CASE command.watch
    <3>1. /\ phase' = "sleeping"
          /\ said' = IF rounds = <<>> THEN "initial"
                     ELSE IF Signature(outcomes) # Signature(Last(rounds)) THEN "changed"
                     ELSE "no change"
      BY <1>16, <2>9 DEF EndRound
    <3>2. said' = "no change" => Len(kept) = 2 /\ Signature(kept[1]) = Signature(kept[2])
      BY <2>2, <3>1
    <3>3. RoundsInv'
      BY <2>1, <2>4, <2>8, <2>9, <3>1, <3>2 DEF RoundsInv
    <3>4. ExitTold'
      BY <3>1 DEF ExitTold
    <3>. QED BY <2>3, <2>6, <2>7, <3>3, <3>4 DEF CommandInv
  <2>10. CASE ~command.watch
    <3>1. phase' = "exited" /\ exitCode' = RoundCode(outcomes) /\ UNCHANGED said
      BY <1>16, <2>10 DEF EndRound
    <3>2. said' = "none"
      BY <1>0, <2>10, <3>1 DEF RoundsInv
    <3>3. RoundsInv'
      BY <2>1, <2>4, <2>8, <2>10, <3>1, <3>2 DEF RoundsInv
    <3>4. Len(outcomes) # 0
      BY <1>1, <2>4
    <3>5. Summarises(exitCode', [i \in DOMAIN outcomes |-> ExitOf(outcomes[i].says)])
      BY <1>0, <3>1, <3>4, RoundSummed
    <3>6. rounds' # <<>> /\ Last(rounds') = outcomes
      BY <2>1, <2>2
    <3>7. ExitTold'
      BY <3>5, <3>6 DEF ExitTold
    <3>. QED BY <2>3, <2>6, <2>7, <3>3, <3>7 DEF CommandInv
  <2>. QED BY <2>9, <2>10
<1>17. CASE Interrupt
  <2>1. /\ phase \in {"target", "checking", "sleeping"} /\ phase' = "exited"
        /\ exitCode' = IF ~command.watch THEN "killed"
                       ELSE IF rounds = <<>> THEN "OK" ELSE RoundCode(Last(rounds))
        /\ UNCHANGED <<vars, command, outcomes, rounds, begun, said>>
    BY <1>17 DEF Interrupt
  <2>2. ASSUME rounds # <<>>
        PROVE  Summarises(RoundCode(Last(rounds)),
                          [i \in DOMAIN Last(rounds) |-> ExitOf(Last(rounds)[i].says)])
    <3>1. Len(rounds) \in DOMAIN rounds /\ Last(rounds) = rounds[Len(rounds)]
          /\ Last(rounds) \in Seq(Outcome)
      BY <1>0, <2>2 DEF Last
    <3>2. Len(Last(rounds)) = Len(command.targets) /\ command.accepted
      BY <1>0, <2>2, <3>1 DEF RoundsInv
    <3>3. Len(Last(rounds)) # 0
      BY <1>1, <3>2
    <3> DEFINE r == Last(rounds)
    <3> HIDE DEF r
    <3>. QED BY <3>1, <3>3, RoundSummed DEF r
  <2>. QED BY <1>4, <2>1, <2>2
<1>18. CASE UNCHANGED allVars
  <2>1. UNCHANGED <<vars, command, phase, outcomes, rounds, said, exitCode>>
    BY <1>18 DEF allVars, commandVars
  <2>2. CheckInv' /\ UNCHANGED <<wanted, warnDays, offers>>
    BY <1>3, <2>1
  <2>. QED BY <1>0, <2>1, <2>2
       DEF CommandInv, CommandTyped, RoundInv, RoundsInv, ExitTold, CoversTargets, turn, target
<1>. QED BY <1>6, <1>7, <1>10, <1>11, <1>12, <1>14, <1>15, <1>16, <1>17, <1>18
     DEF CommandNext, Steps

LEMMA RoundsFollow == CommandInv => RoundsTold
<1> SUFFICES ASSUME CommandInv PROVE RoundsTold
  OBVIOUS
<1>1. RoundsInv /\ ExitTold /\ rounds \in Seq(Seq(Outcome)) /\ command \in Command
  BY DEF CommandInv, CommandTyped
<1>2. ASSUME NEW r \in ToSet(rounds)
      PROVE  /\ Len(r) = Len(command.targets)
             /\ \A i \in DOMAIN r : r[i].says \in {"ok", "expiring_soon"} =>
                  NameCovered(r[i].leaf, Effective(command, command.targets[i]))
  <2>1. PICK k \in DOMAIN rounds : r = rounds[k]
    BY <1>1 DEF ToSet
  <2>. QED BY <1>1, <2>1 DEF RoundsInv, CoversTargets
<1>3. ASSUME said = "no change"
      PROVE  \A i \in DOMAIN command.targets :
               \A part \in {"says", "leaf", "version"} : rounds[1][i][part] = rounds[2][i][part]
  <2>1. Len(rounds) = 2 /\ Signature(rounds[1]) = Signature(rounds[2])
    BY <1>1, <1>3 DEF RoundsInv
  <2>2. 1 \in DOMAIN rounds /\ 2 \in DOMAIN rounds
    BY <1>1, <2>1
  <2>3. /\ rounds[1] \in Seq(Outcome) /\ rounds[2] \in Seq(Outcome)
        /\ Len(rounds[1]) = Len(command.targets) /\ Len(rounds[2]) = Len(command.targets)
    <3>1. rounds[1] \in Seq(Outcome) /\ rounds[2] \in Seq(Outcome)
      <4>1. 1 \in 1 .. Len(rounds) /\ 2 \in 1 .. Len(rounds)
        BY <2>1
      <4> DEFINE S == Seq(Outcome)
      <4>2. rounds \in Seq(S)
        BY <1>1
      <4> HIDE DEF S
      <4>3. \A k \in 1 .. Len(rounds) : rounds[k] \in S
        BY <4>2, ElementOfSeq
      <4>. QED BY <4>1, <4>3 DEF S
    <3>. QED BY <1>1, <2>2, <3>1 DEF RoundsInv
  <2>4. command.targets \in Seq(Target)
    BY <1>1, CommandFacts
  <2>5. ASSUME NEW i \in DOMAIN command.targets
        PROVE  /\ rounds[1][i].says = rounds[2][i].says
               /\ rounds[1][i].leaf = rounds[2][i].leaf
               /\ rounds[1][i].version = rounds[2][i].version
    <3>1. i \in DOMAIN rounds[1] /\ i \in DOMAIN rounds[2]
      BY <2>3, <2>4, <2>5
    <3>2. Signature(rounds[1])[i] = Signature(rounds[2])[i]
      BY <2>1
    <3>3. \A r : i \in DOMAIN r => /\ Signature(r)[i][1] = r[i].says
                                   /\ Signature(r)[i][2] = r[i].leaf
                                   /\ Signature(r)[i][3] = r[i].version
      BY DEF Signature
    <3> HIDE DEF Signature
    <3>. QED BY <3>1, <3>2, <3>3
  <2>. QED BY <2>5
<1>4. phase = "exited" /\ exitCode \notin {"killed", "traceback"} =>
        CASE rounds # <<>> ->
               Summarises(exitCode, [i \in DOMAIN Last(rounds) |-> ExitOf(Last(rounds)[i].says)])
          [] rounds = <<>> -> IF exitCode = "OK" THEN command.watch ELSE ~command.accepted
  BY <1>1 DEF ExitTold
<1>. QED BY <1>2, <1>3, <1>4 DEF RoundsTold

-----------------------------------------------------------------------------
\* What a check says of a layer rests on the one below: it names a timeout only
\* when no address answered or the handshake had all of its time, speaks of a
\* certificate only after an accepted connection, and holds a socket exactly
\* while a handshake may use it -- for any targets, retries and answers.
THEOREM Layers == CommandSpec => []LayersTrue
<1>1. CommandInv => LayersTrue
  BY LayersFollow DEF CommandInv
<1>. QED BY <1>1, CommandInitInv, CommandInvStep, PTL DEF CommandSpec

\* Success is said only of a sound certificate that covers the name asked for;
\* every round has an outcome for each target, about its own name; the exit code
\* sums up the last complete round; and "no change" means that nothing did.
THEOREM Checks == CommandSpec => []ChecksTold
<1>1. CommandInv => ChecksTold
  BY RoundsFollow DEF CommandInv, CheckInv, ChecksTold
<1>. QED BY <1>1, CommandInitInv, CommandInvStep, PTL DEF CommandSpec
=============================================================================
