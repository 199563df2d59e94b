------------------------------ MODULE DnsQuery ------------------------------
(***************************************************************************)
(* One call of the DNS library (dns/api.py over dns/resolver.py): lookup,  *)
(* lookup_all and reverse ask one resolver for one record type after the   *)
(* other; compare does so with every resolver it is given.  Each question  *)
(* is tried over UDP or TCP until an answer comes or the tries run out.    *)
(*                                                                         *)
(* The resolvers answer each datagram and each connection as they like.    *)
(* The history `log` keeps the verdict on each question, for the           *)
(* properties to compare with what the call reports.                       *)
(***************************************************************************)
EXTENDS Naturals, Sequences, FiniteSets

CONSTANTS
  MaxServers,   \* resolvers a comparison can name (bound)
  MaxTypes,     \* record types a call can ask for (bound)
  MaxTries,     \* --retries at most (bound)
  Transports,   \* subset of {"auto", "udp", "tcp"}
  Records       \* what resolvers can answer with

ASSUME TransportAssumption == Transports \subseteq {"auto", "udp", "tcp"}
ASSUME QueryBoundAssumption ==
  /\ MaxServers \in Nat \ {0, 1} /\ MaxTypes \in Nat \ {0} /\ MaxTries \in Nat

Code == {"ok", "nxdomain", "servfail", "refused", "timeout", "dns_error", "usage_error"}
Verdict == [code : Code, records : SUBSET Records]

Found(R)  == [code |-> "ok", records |-> R]
Failed(c) == [code |-> c, records |-> {}]

VARIABLES
  servers, types, retries, transport,   \* the options: two counts, a count, a transport
  comparing,    \* compare, not lookup
  pc,
  at, type,     \* which resolver, which record type
  tries,        \* tries that failed for this question
  records,      \* _query_types: records
  firstError,   \* _query_types: the code of first_error, or "none"
  answers,      \* compare: answers
  log,          \* history: the verdict on each question
  outcome       \* what the call returned or raised

options   == <<servers, types, retries, transport, comparing>>
queryVars == <<options, pc, at, type, tries, records, firstError, answers, log, outcome>>

Entry == IF transport = "tcp" THEN "tcp" ELSE "udp"

Idle ==
  /\ pc = "idle"
  /\ at = 1 /\ type = 1 /\ tries = 0
  /\ records = {} /\ firstError = "none"
  /\ answers = <<>> /\ log = <<>>
  /\ outcome = Failed("usage_error")

QueryInit ==
  /\ comparing \in BOOLEAN
  /\ servers \in 1 .. MaxServers
  /\ types \in 1 .. MaxTypes
  /\ retries \in 0 .. MaxTries
  /\ transport \in Transports
  /\ Idle

Return(o) ==
  /\ pc' = "over"
  /\ outcome' = o
  /\ UNCHANGED <<at, type, tries>>

Raise(c) ==
  /\ Return(Failed(c))
  /\ UNCHANGED <<records, firstError, answers, log>>

\* compare: at least two resolvers.  lookup: the first resolver given, else
\* that of the system, which may not be known.  A target can be invalid.
Begin ==
  /\ pc = "idle"
  /\ \/ Raise("usage_error")
     \/ ~comparing /\ Raise("dns_error")
     \/ /\ comparing => servers > 1
        /\ pc' = Entry
        /\ UNCHANGED <<at, type, tries, records, firstError, answers, log, outcome>>
  /\ UNCHANGED options

\* Mutant: agreement is judged by the records alone.
ConsistentByRecords(s) == Cardinality({s[i].records : i \in DOMAIN s}) = 1

\* _comparison_consistent: one signature, which is outcome and record set.
Consistent(s) == Cardinality({<<s[i].code, s[i].records>> : i \in DOMAIN s}) = 1

Question(s, t) ==
  /\ pc' = Entry
  /\ at' = s /\ type' = t /\ tries' = 0

\* compare: what this resolver said is an answer of its own, whatever it is.
NextServer(v) ==
  /\ answers' = Append(answers, v)
  /\ records' = {} /\ firstError' = "none"
  /\ IF at < servers
       THEN Question(at + 1, 1) /\ UNCHANGED outcome
       ELSE Return([code |-> "ok", answers |-> answers', consistent |-> Consistent(answers')])

\* The lookup at one resolver ends.
EndLookup(v) ==
  IF comparing
    THEN NextServer(v)
    ELSE Return(v) /\ UNCHANGED <<records, firstError, answers>>

\* Mutant: a type that fails hides what other types have answered.
ToleratedStrict(R, e) == IF e # "none" THEN Failed(e) ELSE Found(R)

\* _query_types, after the last type.
Tolerated(R, e) == IF R = {} /\ e # "none" THEN Failed(e) ELSE Found(R)

\* query raises or returns v for this type: NXDOMAIN ends the lookup, another
\* failure is kept if it is the first one, records are added to the rest.
Conclude(v) ==
  LET R == records \cup v.records
      e == IF firstError = "none" /\ v.code # "ok" THEN v.code ELSE firstError
  IN  /\ log' = Append(log, [server |-> at, type |-> type, verdict |-> v])
      /\ IF v.code = "nxdomain" THEN EndLookup(v)
         ELSE IF type < types
           THEN /\ Question(at, type + 1)
                /\ records' = R /\ firstError' = e
                /\ UNCHANGED <<answers, outcome>>
           ELSE EndLookup(Tolerated(R, e))

\* DnspythonResolver.query: the verdict on a whole response.
Judge(rcode, R) ==
  CASE rcode = "NOERROR"  -> Found(R)
    [] rcode = "NXDOMAIN" -> Failed("nxdomain")
    [] rcode = "REFUSED"  -> Failed("refused")
    [] OTHER -> Failed("servfail")

Asking == pc \in {"udp", "tcp"}

Answer ==
  /\ Asking
  /\ \/ \E R \in SUBSET Records : Conclude(Judge("NOERROR", R))
     \/ \E rcode \in {"NXDOMAIN", "REFUSED", "SERVFAIL"} : Conclude(Judge(rcode, {}))
  /\ UNCHANGED options

\* A truncated datagram: in AUTO the question goes to TCP, within the same try.
\* With --transport udp it counts as the answer (Answer).
Truncated ==
  /\ pc = "udp" /\ transport = "auto"
  /\ pc' = "tcp"
  /\ UNCHANGED <<options, at, type, tries, records, firstError, answers, log, outcome>>

\* Mutant: a truncated answer that cannot be completed is not a try.
TryFailsFree(v) ==
  /\ Asking
  /\ IF tries < retries \/ pc = "tcp"
       THEN /\ pc' = Entry
            /\ tries' = IF pc = "udp" THEN tries + 1 ELSE tries
            /\ UNCHANGED <<at, type, records, firstError, answers, log, outcome>>
       ELSE Conclude(v)
  /\ UNCHANGED options

\* Mutant: one try more than --retries allows.
TryFailsGreedy(v) ==
  /\ Asking
  /\ IF tries <= retries
       THEN /\ pc' = Entry
            /\ tries' = tries + 1
            /\ UNCHANGED <<at, type, records, firstError, answers, log, outcome>>
       ELSE Conclude(v)
  /\ UNCHANGED options

\* Silence or an error of the socket: another try, over the transport it
\* starts with, or the last failure decides.
TryFails(v) ==
  /\ Asking
  /\ IF tries < retries
       THEN /\ pc' = Entry
            /\ tries' = tries + 1
            /\ UNCHANGED <<at, type, records, firstError, answers, log, outcome>>
       ELSE Conclude(v)
  /\ UNCHANGED options

Silence     == TryFails(Failed("timeout"))
Unreachable == TryFails(Failed("servfail"))

\* dnspython raises what _send does not catch: a connection that ends early
\* (EOFError), a response that does not parse or match (BadResponse).
Malformed ==
  /\ Asking
  /\ Return([code |-> "raw", records |-> {}])
  /\ UNCHANGED <<options, records, firstError, answers, log>>

QueryStep == Begin \/ Answer \/ Truncated \/ Silence \/ Unreachable \/ Malformed
-----------------------------------------------------------------------------
(* Correctness.                                                            *)

QueryTypeOK ==
  /\ comparing \in BOOLEAN
  /\ servers \in 1 .. MaxServers /\ types \in 1 .. MaxTypes
  /\ retries \in 0 .. MaxTries /\ transport \in Transports
  /\ pc \in {"idle", "udp", "tcp", "over"}
  /\ at \in 1 .. servers /\ type \in 1 .. types /\ tries \in 0 .. retries
  /\ records \subseteq Records /\ firstError \in Code \cup {"none"}
  /\ answers \in Seq(Verdict) /\ Len(answers) <= servers
  /\ log \in Seq([server : 1 .. servers, type : 1 .. types, verdict : Verdict])

\* The questions put to a resolver, by their place in the log, and those of
\* them that failed.
Put(s)  == {i \in DOMAIN log : log[i].server = s}
Lost(s) == {i \in Put(s) : log[i].verdict.code # "ok"}
Got(s)  == UNION {log[i].verdict.records : i \in Put(s)}

\* What a resolver said in the end, by the verdicts on the questions put to it.
Said(s) ==
  IF \E i \in Lost(s) : log[i].verdict.code = "nxdomain" THEN Failed("nxdomain")
  ELSE IF Got(s) = {} /\ Lost(s) # {}
    THEN log[CHOOSE i \in Lost(s) : \A j \in Lost(s) : i <= j].verdict
    ELSE Found(Got(s))

\* api.py _query_types, "Records from the types that answer are aggregated; a
\* failure is surfaced only when nothing resolves": the result of a lookup, and
\* each answer of a comparison, is what that resolver said to all questions put
\* to it, and to no other resolver.
LookupTrue ==
  /\ \A s \in DOMAIN answers : answers[s] = Said(s)
  /\ pc = "over" /\ log # <<>> /\ outcome.code # "raw" /\ ~comparing => outcome = Said(1)

\* api.py compare: "one ResolverAnswer per resolver" and "a consistent flag
\* that is True only when every resolver agrees".
ComparisonTrue ==
  pc = "over" /\ comparing /\ "answers" \in DOMAIN outcome =>
    /\ Len(outcome.answers) = servers
    /\ outcome.consistent <=>
         \A s, u \in 1 .. servers :
           /\ outcome.answers[s].code = outcome.answers[u].code
           /\ outcome.answers[s].records = outcome.answers[u].records

\* What a lookup or a comparison reports is what the resolvers said.
AnswersTrue == LookupTrue /\ ComparisonTrue
=============================================================================
