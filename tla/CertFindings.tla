---------------------------- MODULE CertFindings ----------------------------
(***************************************************************************)
(* tls/inspect.py and the verdict of tls/api.py: what is wrong with a      *)
(* certificate, from the errors recorded during the handshake, the name    *)
(* that was asked for and the days that are left.                          *)
(*                                                                         *)
(* A name is the sequence of its labels, an address a sequence of one.     *)
(* A leaf is [sans, days, selfSigned].                                     *)
(***************************************************************************)
EXTENDS Integers, Sequences, SequencesExt

Errno == {"expired", "not_yet_valid", "depth_zero_self_signed", "self_signed_in_chain",
          "unable_to_get_issuer", "other"}

FindingCode ==
  {"expired", "not_yet_valid", "name_mismatch", "self_signed", "untrusted_chain",
   "incomplete_chain", "no_sans", "expiring_soon", "legacy_protocol"}

Invalid == FindingCode \ {"expiring_soon", "legacy_protocol"}

\* Mutant: a wildcard stands for any number of labels.
DnsNameMatchesDeep(pattern, host) ==
  \/ pattern = host
  \/ /\ Len(pattern) > 1 /\ pattern[1] = "*"
     /\ Len(host) >= Len(pattern)
     /\ SubSeq(host, Len(host) - Len(pattern) + 2, Len(host)) = Tail(pattern)

\* _dns_name_matches: the same name, or a wildcard for exactly one label.
DnsNameMatches(pattern, host) ==
  \/ pattern = host
  \/ /\ Len(pattern) > 1 /\ pattern[1] = "*"
     /\ Len(pattern) = Len(host)
     /\ Tail(pattern) = Tail(host)

\* match_hostname: an address is compared with the addresses, a name with the
\* names, and a certificate without alternative names matches nothing.
MatchHostname(wanted, sans) ==
  \E san \in sans :
    /\ san.kind = wanted.kind
    /\ IF wanted.kind = "ip" THEN san.name = wanted.name
                             ELSE DnsNameMatches(san.name, wanted.name)

\* _classify_verify_error.
Classify(errno, leaf, chainLength) ==
  CASE errno = "expired" -> "expired"
    [] errno = "not_yet_valid" -> "not_yet_valid"
    [] errno = "depth_zero_self_signed" -> "self_signed"
    [] errno = "unable_to_get_issuer" /\ chainLength <= 1 /\ ~leaf.selfSigned -> "incomplete_chain"
    [] OTHER -> "untrusted_chain"

\* add: a condition is reported once.
Add(findings, code) == IF Contains(findings, code) THEN findings ELSE Append(findings, code)

\* All that was recorded during the handshake, in that order.
AddAll(recorded) ==
  LET added[i \in 0 .. Len(recorded)] ==
        IF i = 0 THEN <<>> ELSE Add(added[i - 1], recorded[i])
  IN  added[Len(recorded)]

AddIf(findings, condition, code) == IF condition THEN Add(findings, code) ELSE findings

\* build_findings.
BuildFindings(leaf, matched, errors, chainLength, version, warnDays) ==
  LET verified == AddAll([i \in DOMAIN errors |-> Classify(errors[i], leaf, chainLength)])
      named    == AddIf(AddIf(verified, ~matched /\ leaf.sans = {}, "no_sans"),
                        ~matched, "name_mismatch")
      spoken   == AddIf(named, version \in {"SSLv3", "TLSv1", "TLSv1.1"}, "legacy_protocol")
  IN  AddIf(spoken,
            warnDays > 0 /\ leaf.days \in 0 .. warnDays /\ ToSet(spoken) \cap Invalid = {},
            "expiring_soon")

\* check: the verdict of a completed handshake.
VerdictOn(findings) ==
  CASE ToSet(findings) \cap Invalid # {} -> "cert_invalid"
    [] ToSet(findings) \cap Invalid = {} /\ Contains(findings, "expiring_soon") -> "expiring_soon"
    [] OTHER -> "ok"
=============================================================================
