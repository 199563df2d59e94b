------------------------------ MODULE DnsTrace ------------------------------
(***************************************************************************)
(* dns/resolver.py trace_resolution: from the root down, one server a hop, *)
(* following referrals until an answer, a failure, a hop that names no     *)
(* server that can be found, or the depth limit.  The servers may refer    *)
(* anywhere: up to the root itself, in circles, to a server without an     *)
(* address.                                                                *)
(***************************************************************************)
EXTENDS Naturals, Sequences, SequencesExt

CONSTANTS
  MaxDepth,     \* _MAX_TRACE_DEPTH
  Address,      \* addresses of name servers
  Glue,         \* the lists of addresses a response can come with
  Contents,     \* records an answer can hold
  Zone,         \* zones name servers are named for, "." included
  Root, Top,    \* the first root server and the zone "."
  NoZone        \* no name server is named

ASSUME TraceAssumption ==
  /\ MaxDepth \in Nat \ {0}
  /\ Root \in Address /\ Glue \subseteq Seq(Address)
  /\ Top \in Zone /\ NoZone \notin Zone

VARIABLES
  hop,          \* "idle", "ask", "A", "AAAA" (looking up a name server), "over", "raw"
  candidates,   \* servers
  zone,
  steps,
  offers        \* history: what each response told of the next hop

traceVars == <<hop, candidates, zone, steps, offers>>

TraceInit ==
  /\ hop = "idle"
  /\ candidates = <<Root>>
  /\ zone = Top
  /\ steps = <<>>
  /\ offers = <<>>

TraceBegin ==
  /\ hop = "idle"
  /\ hop' \in {"ask", "bad"}      \* an invalid target
  /\ UNCHANGED <<candidates, zone, steps, offers>>

\* The names of name servers are told apart by the zone they are named for.
Record(response, found, offer) ==
  /\ steps' = Append(steps, [server |-> candidates[1], zone |-> zone, response |-> response,
                             records |-> found, referrals |-> offer.zone])
  /\ offers' = Append(offers, offer)

Nothing == [next |-> <<>>, zone |-> NoZone]

\* An answer section, of which the records of known types are kept, or a timeout
\* or socket error, is the last step.
HopEnds ==
  /\ hop = "ask"
  /\ \/ \E found \in SUBSET Contents : Record("answer", found, Nothing)
     \/ Record("error", {}, Nothing)
  /\ hop' = "over"
  /\ UNCHANGED <<candidates, zone>>

\* As in DnsQuery, what dnspython raises beyond that is not caught.
HopBreaks ==
  /\ hop = "ask"
  /\ hop' = "raw"
  /\ UNCHANGED <<candidates, zone, steps, offers>>

\* Mutant: a hop that offers no server leaves the last one in charge.
GoOnStubborn(next) ==
  /\ candidates' = IF next = <<>> THEN candidates ELSE next
  /\ hop' = IF Len(steps') = MaxDepth THEN "over" ELSE "ask"

\* The loop goes round while there is a server to ask and depth left.
GoOn(next) ==
  /\ candidates' = next
  /\ hop' = IF next = <<>> \/ Len(steps') = MaxDepth THEN "over" ELSE "ask"

\* Mutant: a referral to the root is taken for no referral.
ReferralTop(z, glue) ==
  /\ hop = "ask"
  /\ Record("referral", {}, [next |-> glue, zone |-> z])
  /\ zone' = IF z \in {NoZone, Top} THEN zone ELSE z
  /\ IF glue = <<>> /\ z \notin {NoZone, Top}
       THEN hop' = "A" /\ UNCHANGED candidates
       ELSE GoOn(glue)

\* No answer section: _referral reads name servers (with the zone they are
\* named for, which may be "." again) and addresses, either of which may be
\* missing; _next_hop_servers prefers the addresses.
Referral(z, glue) ==
  /\ hop = "ask"
  /\ Record("referral", {}, [next |-> glue, zone |-> z])
  /\ zone' = IF z = NoZone THEN zone ELSE z
  /\ IF glue = <<>> /\ z # NoZone
       THEN hop' = "A" /\ UNCHANGED candidates
       ELSE GoOn(glue)

HopRefers ==
  \E z \in Zone \cup {NoZone}, glue \in Glue : Referral(z, glue)

\* _resolve_glue: the first name server named is looked up, A then AAAA.
GlueFound ==
  /\ hop \in {"A", "AAAA"}
  /\ \E a \in Address :
       /\ offers' = [offers EXCEPT ![Len(offers)].next = <<a>>]
       /\ UNCHANGED steps
       /\ GoOn(<<a>>)
  /\ UNCHANGED zone

GlueMissing ==
  /\ hop \in {"A", "AAAA"}
  /\ UNCHANGED <<zone, steps, offers>>
  /\ IF hop = "A" THEN hop' = "AAAA" /\ UNCHANGED candidates ELSE GoOn(<<>>)

TraceStep == TraceBegin \/ HopEnds \/ HopBreaks \/ HopRefers \/ GlueFound \/ GlueMissing
-----------------------------------------------------------------------------
(* Correctness.                                                            *)

TraceTypeOK ==
  /\ hop \in {"idle", "bad", "ask", "A", "AAAA", "over", "raw"}
  /\ candidates \in Seq(Address) /\ zone \in Zone
  /\ steps \in Seq([server : Address, zone : Zone, response : {"answer", "error", "referral"},
                    records : SUBSET Contents, referrals : Zone \cup {NoZone}])
  /\ offers \in Seq([next : Seq(Address), zone : Zone \cup {NoZone}])

\* The zone in charge at hop i: the last one delegated before it, were it ".".
ZoneAt(i) ==
  LET told == {j \in 1 .. i - 1 : offers[j].zone # NoZone} IN
    IF told = {} THEN Top ELSE offers[CHOOSE j \in told : \A k \in told : k <= j].zone

\* FR-008, the steps are the path that was followed: each hop after the first
\* asked the server that the one before it offered, for the zone last delegated;
\* only the last step can be an answer or an error; and a path that ends in a
\* referral ended because that referral led to no server or the depth was used up.
TracePath ==
  /\ \A i \in DOMAIN steps :
       /\ IF i = 1 THEN steps[i].server = Root
          ELSE offers[i - 1].next # <<>> /\ steps[i].server = offers[i - 1].next[1]
       /\ steps[i].zone = ZoneAt(i)
       /\ steps[i].response # "referral" => i = Len(steps) /\ hop = "over"
  /\ Len(steps) <= MaxDepth
  /\ hop = "over" /\ Last(steps).response = "referral"
       => Len(steps) = MaxDepth \/ Last(offers).next = <<>>
=============================================================================
