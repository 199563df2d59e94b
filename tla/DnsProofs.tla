----------------------------- MODULE DnsProofs ------------------------------
(***************************************************************************)
(* Proofs about DnsCommand: `dns lookup` and `reverse` with any targets,   *)
(* resolvers, record types, retries and rounds, and servers that refer as  *)
(* they like.                                                              *)
(***************************************************************************)
EXTENDS DnsCommand, ExitCodeProofs, FiniteSetTheorems, TLAPS

-----------------------------------------------------------------------------
(***************************************************************************)
(* The zone in charge.  That the set of hops which delegated a zone has a  *)
(* last one is carried along the trace, hop by hop.                        *)
(***************************************************************************)
Delegating(o, i) == {j \in 1 .. i - 1 : o[j].zone # NoZone}

IsLatest(j, S) == j \in S /\ \A k \in S : k <= j

ZoneBy(o, S) == IF S = {} THEN Top ELSE o[CHOOSE j \in S : \A k \in S : k <= j].zone

ZoneIn(o, i) == ZoneBy(o, Delegating(o, i))

Settled(o, i) == Delegating(o, i) = {} \/ \E j : IsLatest(j, Delegating(o, i))

\* The latest of some hops is found by CHOOSE.
LEMMA LatestChosen ==
  ASSUME NEW S \in SUBSET Nat, NEW j, IsLatest(j, S)
  PROVE  (CHOOSE k \in S : \A l \in S : l <= k) = j
<1>1. \E k \in S : \A l \in S : l <= k
  BY DEF IsLatest
<1> DEFINE c == CHOOSE k \in S : \A l \in S : l <= k
<1>2. c \in S /\ \A l \in S : l <= c
  BY <1>1
<1>3. c <= j /\ j <= c
  BY <1>2 DEF IsLatest
<1>4. c \in Nat /\ j \in Nat
  BY <1>2 DEF IsLatest
<1>5. c = j
  <2> HIDE DEF c
  <2>. QED BY <1>3, <1>4
<1>. QED BY <1>5

\* Responses that delegate the same zones before hop i have the same in charge.
LEMMA ZoneKept ==
  ASSUME NEW o, NEW p, NEW i \in Nat, Settled(o, i),
         \A j \in 1 .. i - 1 : p[j].zone = o[j].zone
  PROVE  ZoneIn(p, i) = ZoneIn(o, i) /\ Settled(p, i)
<1>1. Delegating(p, i) = Delegating(o, i)
  BY DEF Delegating
<1>2. Settled(p, i)
  BY <1>1 DEF Settled
<1>3. CASE Delegating(o, i) = {}
  BY <1>1, <1>2, <1>3 DEF ZoneIn, ZoneBy
<1>4. ASSUME NEW j, IsLatest(j, Delegating(o, i))
      PROVE  ZoneIn(p, i) = ZoneIn(o, i)
  <2>1. Delegating(o, i) \in SUBSET Nat
    BY DEF Delegating
  <2>2. (CHOOSE k \in Delegating(o, i) : \A l \in Delegating(o, i) : l <= k) = j
    BY <2>1, <1>4, LatestChosen
  <2>3. j \in 1 .. i - 1 /\ Delegating(o, i) # {}
    BY <1>4 DEF IsLatest, Delegating
  <2>4. ZoneIn(o, i) = o[j].zone
    BY <2>2, <2>3, Zenon DEF ZoneIn, ZoneBy
  <2>5. ZoneIn(p, i) = p[j].zone
    BY <1>1, <2>2, <2>3, Zenon DEF ZoneIn, ZoneBy
  <2>. QED BY <2>3, <2>4, <2>5
<1>. QED BY <1>2, <1>3, <1>4 DEF Settled

\* One more response hands over to the zone it delegates, if it does.
LEMMA ZoneGrows ==
  ASSUME NEW o, NEW p, NEW n \in Nat, Settled(o, n + 1),
         \A j \in 1 .. n : p[j].zone = o[j].zone
  PROVE  /\ Settled(p, n + 2)
         /\ ZoneIn(p, n + 2) = IF p[n + 1].zone = NoZone THEN ZoneIn(o, n + 1) ELSE p[n + 1].zone
<1>0. /\ \A j \in 1 .. (n + 1) - 1 : p[j].zone = o[j].zone
      /\ n + 1 \in Nat
  OBVIOUS
<1>1. ZoneIn(p, n + 1) = ZoneIn(o, n + 1) /\ Settled(p, n + 1)
  BY <1>0, ZoneKept
<1>2. CASE p[n + 1].zone = NoZone
  <2>1. Delegating(p, n + 2) = Delegating(p, n + 1)
    <3>1. \A j : j \in 1 .. (n + 2) - 1 <=> j \in 1 .. (n + 1) - 1 \/ j = n + 1
      OBVIOUS
    <3>. QED BY <3>1, <1>2 DEF Delegating
  <2>2. Settled(p, n + 2)
    BY <2>1, <1>1 DEF Settled
  <2>3. ZoneIn(p, n + 2) = ZoneIn(p, n + 1)
    BY <2>1 DEF ZoneIn
  <2>. QED BY <2>2, <2>3, <1>1, <1>2
<1>3. CASE p[n + 1].zone # NoZone
  <2> DEFINE D == Delegating(p, n + 2)
  <2>1. D \in SUBSET Nat /\ n + 1 \in D /\ \A k \in D : k <= n + 1
    BY <1>3 DEF Delegating
  <2>2. IsLatest(n + 1, D)
    BY <2>1 DEF IsLatest
  <2>3. (CHOOSE k \in D : \A l \in D : l <= k) = n + 1
    <3> HIDE DEF D
    <3>. QED BY <2>1, <2>2, LatestChosen
  <2>4. ZoneIn(p, n + 2) = p[n + 1].zone
    BY <2>1, <2>3, Zenon DEF ZoneIn, ZoneBy
  <2>5. Settled(p, n + 2)
    BY <2>2 DEF Settled
  <2>. QED BY <2>4, <2>5, <1>3
<1>. QED BY <1>2, <1>3

-----------------------------------------------------------------------------
(***************************************************************************)
(* The trace.                                                              *)
(***************************************************************************)
Response == {"answer", "error", "referral"}
Hop      == [server : Address, zone : Zone, response : Response,
             records : SUBSET Contents, referrals : Zone \cup {NoZone}]
Offer    == [next : Seq(Address), zone : Zone \cup {NoZone}]

\* Hop i asked the server it was offered, for the zone in charge.
FollowedAt(i) ==
  /\ IF i = 1 THEN steps[i].server = Root
     ELSE offers[i - 1].next # <<>> /\ steps[i].server = offers[i - 1].next[1]
  /\ steps[i].zone = ZoneIn(offers, i)

Followed == \A i \in 1 .. Len(steps) : FollowedAt(i)

InCharge ==
  /\ zone = ZoneIn(offers, Len(steps) + 1)
  /\ \A i \in 1 .. Len(steps) + 1 : Settled(offers, i)

\* Where the trace stands: whom it asks next, and why it goes on or does not.
Standing ==
  /\ \A i \in 1 .. Len(steps) : steps[i].response # "referral" => i = Len(steps) /\ hop = "over"
  /\ hop \in {"idle", "bad"} => steps = <<>>
  /\ hop \in {"idle", "ask"} =>
       /\ Len(steps) < MaxDepth /\ candidates # <<>>
       /\ IF steps = <<>> THEN candidates = <<Root>> ELSE offers[Len(steps)].next = candidates
  /\ hop \in {"A", "AAAA"} => steps # <<>> /\ offers[Len(steps)].next = <<>>
  /\ hop = "over" =>
       /\ steps # <<>>
       /\ steps[Len(steps)].response = "referral" =>
            Len(steps) = MaxDepth \/ offers[Len(steps)].next = <<>>

TraceInv ==
  /\ TraceTypeOK
  /\ Len(offers) = Len(steps) /\ Len(steps) <= MaxDepth
  /\ InCharge /\ Followed /\ Standing

\* A fresh trace.
Fresh == hop = "idle" /\ candidates = <<Root>> /\ zone = Top /\ steps = <<>> /\ offers = <<>>

LEMMA TraceStarts == Fresh => TraceInv
<1> SUFFICES ASSUME Fresh PROVE TraceInv
  OBVIOUS
<1> USE DEF Fresh
<1>1. TraceTypeOK
  BY TraceAssumption DEF TraceTypeOK
<1>2. \A i \in 1 .. 1 : Delegating(offers, i) = {}
  BY DEF Delegating
<1>3. InCharge
  BY <1>2 DEF InCharge, ZoneIn, ZoneBy, Settled
<1>. QED BY <1>1, <1>3, TraceAssumption DEF TraceInv, Followed, Standing

\* A response is recorded: the path so far is kept, and one hop longer.
LEMMA Recorded ==
  ASSUME TraceInv, hop = "ask", NEW r \in Response, NEW found \in SUBSET Contents,
         NEW e \in Offer, Record(r, found, e)
  PROVE  /\ steps' \in Seq(Hop) /\ offers' \in Seq(Offer)
         /\ Len(steps') = Len(steps) + 1 /\ Len(offers') = Len(steps')
         /\ Len(steps') <= MaxDepth
         /\ \A i \in 1 .. Len(steps) : steps'[i].response = "referral"
         /\ steps'[Len(steps')].response = r /\ offers'[Len(steps')] = e
         /\ \A i \in 1 .. Len(steps') + 1 : Settled(offers', i)
         /\ ZoneIn(offers', Len(steps') + 1) = IF e.zone = NoZone THEN zone ELSE e.zone
         /\ Followed'
<1> DEFINE n == Len(steps)
           s == [server |-> candidates[1], zone |-> zone, response |-> r,
                 records |-> found, referrals |-> e.zone]
<1>0. /\ steps \in Seq(Hop) /\ offers \in Seq(Offer)
      /\ n \in Nat /\ Len(offers) = n /\ n < MaxDepth /\ MaxDepth \in Nat
      /\ candidates \in Seq(Address) /\ candidates # <<>> /\ zone \in Zone
  BY TraceAssumption DEF TraceInv, TraceTypeOK, Standing, Hop, Offer, Response
<1>1. s \in Hop
  BY <1>0 DEF Hop, Offer
<1>2. steps' = Append(steps, s) /\ offers' = Append(offers, e)
  BY DEF Record
<1> HIDE DEF s
<1>3. /\ steps' \in Seq(Hop) /\ Len(steps') = n + 1
      /\ \A i \in 1 .. n : steps'[i] = steps[i]
      /\ steps'[n + 1] = s
  BY <1>0, <1>1, <1>2
<1>4. /\ offers' \in Seq(Offer) /\ Len(offers') = n + 1
      /\ \A i \in 1 .. n : offers'[i] = offers[i]
      /\ offers'[n + 1] = e
  BY <1>0, <1>2
<1>5. s.response = r /\ s.server = candidates[1] /\ s.zone = zone
  BY DEF s
<1>6. \A i \in 1 .. n : steps'[i].response = "referral"
  BY <1>3 DEF TraceInv, Standing
<1>7. \A i \in 1 .. n + 1 : ZoneIn(offers', i) = ZoneIn(offers, i) /\ Settled(offers', i)
  <2> SUFFICES ASSUME NEW i \in 1 .. n + 1
               PROVE  ZoneIn(offers', i) = ZoneIn(offers, i) /\ Settled(offers', i)
    OBVIOUS
  <2>1. i \in Nat /\ \A j \in 1 .. i - 1 : offers'[j].zone = offers[j].zone
    BY <1>0, <1>4
  <2>2. Settled(offers, i)
    BY DEF TraceInv, InCharge
  <2>. QED BY <2>1, <2>2, ZoneKept
<1>8. /\ Settled(offers', n + 2)
      /\ ZoneIn(offers', n + 2) = IF e.zone = NoZone THEN zone ELSE e.zone
  <2>1. Settled(offers, n + 1) /\ zone = ZoneIn(offers, n + 1)
    BY <1>0 DEF TraceInv, InCharge
  <2>2. \A j \in 1 .. n : offers'[j].zone = offers[j].zone
    BY <1>4
  <2>3. /\ Settled(offers', n + 2)
        /\ ZoneIn(offers', n + 2)
             = IF offers'[n + 1].zone = NoZone THEN ZoneIn(offers, n + 1) ELSE offers'[n + 1].zone
    <3>1. /\ n \in Nat /\ Settled(offers, n + 1)
          /\ \A j \in 1 .. n : offers'[j].zone = offers[j].zone
      BY <1>0, <2>1, <2>2
    <3> HIDE DEF n
    <3>. QED BY <3>1, ZoneGrows
  <2>. QED BY <2>1, <2>3, <1>4
<1>9. \A i \in 1 .. n : FollowedAt(i)'
  <2> SUFFICES ASSUME NEW i \in 1 .. n PROVE FollowedAt(i)'
    OBVIOUS
  <2>1. FollowedAt(i) /\ ZoneIn(offers', i) = ZoneIn(offers, i)
    BY <1>0, <1>7 DEF TraceInv, Followed
  <2>2. i # 1 => i - 1 \in 1 .. n
    BY <1>0
  <2>. QED BY <2>1, <2>2, <1>3, <1>4 DEF FollowedAt
<1>10. ASSUME NEW i, i = n + 1 PROVE FollowedAt(i)'
  <2>1. s.zone = ZoneIn(offers', n + 1)
    BY <1>0, <1>5, <1>7 DEF TraceInv, InCharge
  <2>2. CASE n = 0
    <3>1. candidates = <<Root>>
      BY <1>0, <2>2 DEF TraceInv, Standing
    <3>. QED BY <2>1, <2>2, <3>1, <1>3, <1>5, <1>10 DEF FollowedAt
  <2>3. CASE n # 0
    <3>1. offers[n].next = candidates /\ steps # <<>>
      BY <1>0, <2>3 DEF TraceInv, Standing
    <3>2. offers'[n].next = candidates /\ n + 1 # 1 /\ (n + 1) - 1 = n
      BY <3>1, <1>0, <1>4, <2>3
    <3>. QED BY <2>1, <3>2, <1>0, <1>3, <1>5, <1>10 DEF FollowedAt
  <2>. QED BY <2>2, <2>3
<1>11. Followed'
  BY <1>0, <1>3, <1>9, <1>10 DEF Followed
<1>12. \A i \in 1 .. (n + 1) + 1 : Settled(offers', i)
  <2>1. \A i \in 1 .. (n + 1) + 1 : i \in 1 .. n + 1 \/ i = n + 2
    BY <1>0
  <2>. QED BY <2>1, <1>7, <1>8
<1>13. (n + 1) + 1 = n + 2 /\ n + 1 <= MaxDepth
  BY <1>0
<1>. QED BY <1>3, <1>4, <1>5, <1>6, <1>8, <1>11, <1>12, <1>13

\* An answer or an error ends the trace.
LEMMA EndsKeep == TraceInv /\ HopEnds => TraceInv'
<1> SUFFICES ASSUME TraceInv, HopEnds PROVE TraceInv'
  OBVIOUS
<1>1. PICK r \in {"answer", "error"}, found \in SUBSET Contents : Record(r, found, Nothing)
  BY DEF HopEnds
<1>2. hop = "ask" /\ hop' = "over" /\ candidates' = candidates /\ zone' = zone
  BY DEF HopEnds
<1>3. r \in Response /\ Nothing \in Offer /\ Nothing.zone = NoZone
  BY DEF Response, Nothing, Offer
<1>4. /\ steps' \in Seq(Hop) /\ offers' \in Seq(Offer)
      /\ Len(steps') = Len(steps) + 1 /\ Len(offers') = Len(steps')
      /\ Len(steps') <= MaxDepth
      /\ \A i \in 1 .. Len(steps) : steps'[i].response = "referral"
      /\ steps'[Len(steps')].response = r
      /\ \A i \in 1 .. Len(steps') + 1 : Settled(offers', i)
      /\ ZoneIn(offers', Len(steps') + 1) = zone
      /\ Followed'
  BY <1>1, <1>2, <1>3, Recorded
<1>5. TraceTypeOK'
  BY <1>2, <1>4 DEF TraceInv, TraceTypeOK, Hop, Offer, Response
<1>6. InCharge'
  BY <1>2, <1>4 DEF InCharge
<1>7. Standing'
  <2>1. Len(steps) \in Nat /\ steps' # <<>>
    BY <1>4 DEF TraceInv, TraceTypeOK
  <2>. QED BY <2>1, <1>2, <1>3, <1>4 DEF Standing
<1>. QED BY <1>4, <1>5, <1>6, <1>7 DEF TraceInv

\* A referral hands over to the addresses it gives, or has a name looked up.
LEMMA RefersKeep == TraceInv /\ HopRefers => TraceInv'
<1> SUFFICES ASSUME TraceInv, HopRefers PROVE TraceInv'
  OBVIOUS
<1>1. PICK z \in Zone \cup {NoZone}, glue \in Glue : Referral(z, glue)
  BY DEF HopRefers
<1> DEFINE e == [next |-> glue, zone |-> z]
<1>2. glue \in Seq(Address)
  BY TraceAssumption
<1>3. /\ hop = "ask" /\ Record("referral", {}, e)
      /\ zone' = IF z = NoZone THEN zone ELSE z
      /\ IF glue = <<>> /\ z # NoZone
           THEN hop' = "A" /\ UNCHANGED candidates
           ELSE GoOn(glue)
  BY <1>1 DEF Referral
<1>4. "referral" \in Response /\ e \in Offer /\ e.zone = z /\ e.next = glue
  BY <1>2 DEF Response, Offer
<1> HIDE DEF e
<1>5. /\ steps' \in Seq(Hop) /\ offers' \in Seq(Offer)
      /\ Len(steps') = Len(steps) + 1 /\ Len(offers') = Len(steps')
      /\ Len(steps') <= MaxDepth
      /\ \A i \in 1 .. Len(steps) : steps'[i].response = "referral"
      /\ steps'[Len(steps')].response = "referral" /\ offers'[Len(steps')] = e
      /\ \A i \in 1 .. Len(steps') + 1 : Settled(offers', i)
      /\ ZoneIn(offers', Len(steps') + 1) = IF e.zone = NoZone THEN zone ELSE e.zone
      /\ Followed'
  BY <1>3, <1>4, Recorded
<1>6. /\ candidates' \in Seq(Address) /\ zone' \in Zone
      /\ hop' \in {"A", "over", "ask"}
      /\ hop' = "A" => glue = <<>>
      /\ hop' = "over" => glue = <<>> \/ Len(steps') = MaxDepth
      /\ hop' = "ask" => glue # <<>> /\ Len(steps') # MaxDepth /\ candidates' = glue
  BY <1>2, <1>3 DEF GoOn, TraceInv, TraceTypeOK
<1>7. TraceTypeOK'
  BY <1>5, <1>6 DEF TraceTypeOK, Hop, Offer, Response
<1>8. InCharge'
  BY <1>3, <1>4, <1>5 DEF InCharge
<1>9. Standing'
  <2>1. /\ Len(steps) \in Nat /\ steps' # <<>> /\ Len(steps') \in Nat /\ MaxDepth \in Nat
        /\ \A i \in 1 .. Len(steps') : i \in 1 .. Len(steps) \/ i = Len(steps')
    BY <1>5, TraceAssumption DEF TraceInv, TraceTypeOK
  <2>2. \A i \in 1 .. Len(steps') : steps'[i].response = "referral"
    BY <1>5, <2>1
  <2>3. offers'[Len(steps')].next = glue
    BY <1>4, <1>5
  <2>4. hop' = "ask" => Len(steps') < MaxDepth
    BY <2>1, <1>5, <1>6
  <2>. QED BY <2>1, <2>2, <2>3, <2>4, <1>6 DEF Standing
<1>. QED BY <1>5, <1>7, <1>8, <1>9 DEF TraceInv

\* The address of a name server is found: it is what the last hop offers.
LEMMA GlueKeeps == TraceInv /\ GlueFound => TraceInv'
<1> SUFFICES ASSUME TraceInv, GlueFound PROVE TraceInv'
  OBVIOUS
<1> DEFINE n == Len(steps)
<1>1. PICK a \in Address :
        /\ offers' = [offers EXCEPT ![Len(offers)].next = <<a>>]
        /\ UNCHANGED steps
        /\ GoOn(<<a>>)
  BY DEF GlueFound
<1>2. /\ hop \in {"A", "AAAA"} /\ zone' = zone /\ steps' = steps
      /\ candidates' = <<a>> /\ <<a>> # <<>>
      /\ hop' = IF n = MaxDepth THEN "over" ELSE "ask"
  BY <1>1 DEF GlueFound, GoOn
<1>3. /\ steps # <<>> /\ offers \in Seq(Offer) /\ steps \in Seq(Hop)
      /\ n \in Nat \ {0} /\ Len(offers) = n /\ n <= MaxDepth /\ MaxDepth \in Nat
      /\ \A i \in 1 .. n : steps[i].response = "referral"
  BY <1>2, TraceAssumption DEF TraceInv, TraceTypeOK, Standing, Hop, Offer, Response
<1>4. /\ offers' \in Seq(Offer) /\ Len(offers') = n
      /\ \A i \in 1 .. n : offers'[i].zone = offers[i].zone
      /\ \A i \in 1 .. n - 1 : offers'[i] = offers[i]
      /\ offers'[n].next = <<a>>
  <2>1. offers[n] \in Offer /\ n \in DOMAIN offers /\ <<a>> \in Seq(Address)
    BY <1>3
  <2>2. [offers[n] EXCEPT !.next = <<a>>] \in Offer
    BY <2>1 DEF Offer
  <2>3. offers' = [offers EXCEPT ![n] = [offers[n] EXCEPT !.next = <<a>>]]
    BY <1>1, <1>3
  <2>4. offers' \in Seq(Offer) /\ Len(offers') = n
    BY <2>2, <2>3, <1>3
  <2>5. \A i \in 1 .. n : i # n => offers'[i] = offers[i]
    BY <2>3, <1>3
  <2>6. offers'[n] = [offers[n] EXCEPT !.next = <<a>>]
    BY <2>1, <2>3
  <2>7. offers'[n].zone = offers[n].zone /\ offers'[n].next = <<a>>
    BY <2>1, <2>6 DEF Offer
  <2>. QED BY <2>4, <2>5, <2>7, <1>3
<1>5. \A i \in 1 .. n + 1 : ZoneIn(offers', i) = ZoneIn(offers, i) /\ Settled(offers', i)
  <2> SUFFICES ASSUME NEW i \in 1 .. n + 1
               PROVE  ZoneIn(offers', i) = ZoneIn(offers, i) /\ Settled(offers', i)
    OBVIOUS
  <2>1. i \in Nat /\ \A j \in 1 .. i - 1 : offers'[j].zone = offers[j].zone
    BY <1>3, <1>4
  <2>2. Settled(offers, i)
    BY DEF TraceInv, InCharge
  <2>. QED BY <2>1, <2>2, ZoneKept
<1>6. TraceTypeOK'
  BY <1>2, <1>3, <1>4 DEF TraceInv, TraceTypeOK, Hop, Offer, Response
<1>7. InCharge'
  BY <1>2, <1>3, <1>5 DEF TraceInv, InCharge
<1>8. \A i \in 1 .. n : FollowedAt(i)'
  <2> SUFFICES ASSUME NEW i \in 1 .. n PROVE FollowedAt(i)'
    OBVIOUS
  <2>1. FollowedAt(i) /\ ZoneIn(offers', i) = ZoneIn(offers, i)
    BY <1>3, <1>5 DEF TraceInv, Followed
  <2>2. i # 1 => i - 1 \in 1 .. n - 1
    BY <1>3
  <2>. QED BY <2>1, <2>2, <1>2, <1>4 DEF FollowedAt
<1>9. Followed'
  BY <1>2, <1>8 DEF Followed
<1>10. Standing'
  <2>1. n # MaxDepth => n < MaxDepth
    BY <1>3
  <2>. QED BY <2>1, <1>2, <1>3, <1>4 DEF Standing
<1>. QED BY <1>2, <1>3, <1>4, <1>6, <1>7, <1>9, <1>10 DEF TraceInv

\* A step that adds nothing to the path.
LEMMA PathSame ==
  ASSUME TraceInv, UNCHANGED <<zone, steps, offers>>
  PROVE  InCharge' /\ Followed'
<1>1. \A i : FollowedAt(i) => FollowedAt(i)'
  BY DEF FollowedAt
<1>. QED BY <1>1 DEF TraceInv, InCharge, Followed

LEMMA TraceKeeps == TraceInv /\ TraceStep => TraceInv'
<1> SUFFICES ASSUME TraceInv, TraceStep PROVE TraceInv'
  OBVIOUS
<1>1. CASE TraceBegin
  <2>1. InCharge' /\ Followed'
    BY <1>1, PathSame DEF TraceBegin
  <2>. QED BY <2>1, <1>1 DEF TraceBegin, TraceInv, TraceTypeOK, Standing
<1>2. CASE HopEnds
  BY <1>2, EndsKeep
<1>3. CASE HopBreaks
  <2>1. InCharge' /\ Followed'
    BY <1>3, PathSame DEF HopBreaks
  <2>. QED BY <2>1, <1>3 DEF HopBreaks, TraceInv, TraceTypeOK, Standing
<1>4. CASE HopRefers
  BY <1>4, RefersKeep
<1>5. CASE GlueFound
  BY <1>5, GlueKeeps
<1>6. CASE GlueMissing
  <2>1. InCharge' /\ Followed'
    BY <1>6, PathSame DEF GlueMissing
  <2>2. hop' \in {"AAAA", "over"} /\ (hop' = "AAAA" => candidates' = candidates)
        /\ (hop' = "over" => candidates' = <<>>)
    BY <1>6 DEF GlueMissing, GoOn
  <2>3. hop \in {"A", "AAAA"} /\ UNCHANGED <<zone, steps, offers>>
    BY <1>6 DEF GlueMissing
  <2>4. TraceTypeOK'
    <3>1. <<>> \in Seq(Address) /\ candidates \in Seq(Address)
      BY DEF TraceInv, TraceTypeOK
    <3>2. candidates' \in Seq(Address)
      BY <2>2, <3>1
    <3>3. hop' \in {"idle", "bad", "ask", "A", "AAAA", "over", "raw"}
      BY <2>2
    <3>. QED BY <2>3, <3>2, <3>3 DEF TraceInv, TraceTypeOK
  <2>5. Standing'
    BY <2>2, <2>3 DEF TraceInv, Standing
  <2>. QED BY <2>1, <2>3, <2>4, <2>5 DEF TraceInv
<1>. QED BY <1>1, <1>2, <1>3, <1>4, <1>5, <1>6 DEF TraceStep

\* A command takes a step of its trace, leaves it alone or starts a fresh one.
LEMMA TraceInvariance == Spec => []TraceInv
<1>1. CommandInit => TraceInv
  BY TraceStarts DEF CommandInit, TraceInit, Fresh
<1>2. TraceInv /\ UNCHANGED traceVars => TraceInv'
  <2> SUFFICES ASSUME TraceInv, UNCHANGED traceVars PROVE TraceInv'
    OBVIOUS
  <2>1. InCharge' /\ Followed'
    BY PathSame DEF traceVars
  <2>. QED BY <2>1 DEF traceVars, TraceInv, TraceTypeOK, Standing
<1>3. ReadyTrace => TraceInv'
  <2>1. ReadyTrace => Fresh'
    BY DEF ReadyTrace, Fresh
  <2>2. Fresh' => TraceInv'
    BY TraceStarts, PTL
  <2>. QED BY <2>1, <2>2
<1>4. TraceInv /\ [Next]_vars => TraceInv'
  <2> SUFFICES ASSUME TraceInv, [Next]_vars PROVE TraceInv'
    OBVIOUS
  <2>1. TraceStep \/ ReadyTrace \/ UNCHANGED traceVars
    BY DEF Next, Step, Work, Collect, EndRound, Sleep, Interrupt, Ready, vars
  <2>. QED BY <2>1, <1>2, <1>3, TraceKeeps
<1>. QED BY <1>1, <1>4, PTL DEF Spec

\* FR-008 of the trace, as TracePath states it.
THEOREM TracesFollow == Spec => []TracePath
<1>1. TraceInv => TracePath
  <2> SUFFICES ASSUME TraceInv PROVE TracePath
    OBVIOUS
  <2>1. \A i : ZoneAt(i) = ZoneIn(offers, i)
    BY Zenon DEF ZoneAt, ZoneIn, ZoneBy, Delegating
  <2>2. DOMAIN steps = 1 .. Len(steps) /\ Len(offers) = Len(steps)
    BY DEF TraceInv, TraceTypeOK
  <2>. QED BY <2>1, <2>2 DEF TraceInv, Followed, FollowedAt, Standing, TracePath, Last
<1>. QED BY <1>1, TraceInvariance, PTL

-----------------------------------------------------------------------------
(***************************************************************************)
(* What a resolver said, as the log grows.                                 *)
(***************************************************************************)
PutIn(l, s)  == {i \in DOMAIN l : l[i].server = s}
LostIn(l, s) == {i \in PutIn(l, s) : l[i].verdict.code # "ok"}
GotIn(l, s)  == UNION {l[i].verdict.records : i \in PutIn(l, s)}
NoName(l, s) == \E i \in LostIn(l, s) : l[i].verdict.code = "nxdomain"
FirstOf(S)   == CHOOSE i \in S : \A j \in S : i <= j

SaidIn(l, s) ==
  IF NoName(l, s) THEN Failed("nxdomain")
  ELSE IF GotIn(l, s) = {} /\ LostIn(l, s) # {} THEN l[FirstOf(LostIn(l, s))].verdict
  ELSE Found(GotIn(l, s))

IsFirst(j, S) == j \in S /\ \A k \in S : j <= k

\* R and e are the records and the first error of what resolver s said so far.
Sums(l, s, R, e) ==
  /\ R = GotIn(l, s)
  /\ IF LostIn(l, s) = {} THEN e = "none"
     ELSE \E j : IsFirst(j, LostIn(l, s)) /\ l[j].verdict.code = e

Known(l, s) == \E R, e : Sums(l, s, R, e)

\* A failure comes without records.
Pure(l) == \A i \in DOMAIN l : l[i].verdict.code # "ok" => l[i].verdict.records = {}

\* The first of some questions is found by CHOOSE.
LEMMA FirstChosen ==
  ASSUME NEW S \in SUBSET Nat, NEW j, IsFirst(j, S)
  PROVE  FirstOf(S) = j
<1>1. \E k \in S : \A l \in S : k <= l
  BY DEF IsFirst
<1> DEFINE c == CHOOSE k \in S : \A l \in S : k <= l
<1>2. c \in S /\ \A l \in S : c <= l
  BY <1>1
<1>3. c <= j /\ j <= c
  BY <1>2 DEF IsFirst
<1>4. c \in Nat /\ j \in Nat
  BY <1>2 DEF IsFirst
<1>5. c = j
  <2> HIDE DEF c
  <2>. QED BY <1>3, <1>4
<1>. QED BY <1>5 DEF FirstOf

\* _query_types, after the last type: what the resolver said to all of them.
LEMMA SaidTolerated ==
  ASSUME NEW Q, NEW l \in Seq(Q), NEW s, NEW R, NEW e, Sums(l, s, R, e),
         Pure(l), \A i \in DOMAIN l : l[i].verdict \in Verdict, ~NoName(l, s)
  PROVE  SaidIn(l, s) = Tolerated(R, e)
<1> DEFINE L == LostIn(l, s)
<1>1. L \in SUBSET Nat /\ L \subseteq DOMAIN l /\ L \subseteq PutIn(l, s)
  BY DEF LostIn, PutIn
<1>2. CASE L = {}
  BY <1>2 DEF SaidIn, Tolerated, Sums
<1>3. CASE L # {} /\ R # {}
  BY <1>3 DEF SaidIn, Tolerated, Sums, NoName
<1>4. CASE L # {} /\ R = {}
  <2>1. PICK j : IsFirst(j, L) /\ l[j].verdict.code = e
    BY <1>4 DEF Sums
  <2>2. FirstOf(L) = j
    <3> HIDE DEF L
    <3>. QED BY <1>1, <2>1, FirstChosen
  <2>3. SaidIn(l, s) = l[j].verdict
    <3>1. GotIn(l, s) = {} /\ L # {}
      BY <1>4 DEF Sums
    <3>. QED BY <3>1, <2>2 DEF SaidIn
  <2>4. j \in DOMAIN l /\ e # "ok"
    BY <1>1, <2>1 DEF IsFirst, LostIn
  <2>5. l[j].verdict \in Verdict /\ l[j].verdict.records = {} /\ e # "none"
    BY <2>1, <2>4 DEF Pure, Verdict, Code
  <2>6. l[j].verdict = Failed(e)
    BY <2>1, <2>5 DEF Verdict, Failed
  <2>. QED BY <2>3, <2>5, <2>6, <1>4 DEF Tolerated
<1>. QED BY <1>2, <1>3, <1>4

\* A question put to one resolver says nothing of another.
LEMMA OthersSaid ==
  ASSUME NEW Q, NEW l \in Seq(Q), NEW q \in Q, NEW s, q.server # s, Known(l, s)
  PROVE  LET m == Append(l, q) IN
           /\ SaidIn(m, s) = SaidIn(l, s)
           /\ \A R, e : Sums(l, s, R, e) => Sums(m, s, R, e)
           /\ NoName(m, s) = NoName(l, s)
<1> DEFINE m == Append(l, q)
<1>1. /\ DOMAIN m = DOMAIN l \cup {Len(l) + 1} /\ DOMAIN l \subseteq Nat
      /\ \A i \in DOMAIN l : m[i] = l[i]
      /\ m[Len(l) + 1] = q
  OBVIOUS
<1> HIDE DEF m
<1>2. PutIn(m, s) = PutIn(l, s) /\ PutIn(l, s) \subseteq DOMAIN l
  BY <1>1 DEF PutIn
<1>3. LostIn(m, s) = LostIn(l, s) /\ LostIn(l, s) \subseteq DOMAIN l
  BY <1>1, <1>2 DEF LostIn
<1>4. GotIn(m, s) = GotIn(l, s)
  BY <1>1, <1>2 DEF GotIn
<1>5. NoName(m, s) = NoName(l, s)
  BY <1>1, <1>3 DEF NoName
<1>6. \A R, e : Sums(l, s, R, e) => Sums(m, s, R, e)
  BY <1>1, <1>3, <1>4 DEF Sums, IsFirst
<1>7. SaidIn(m, s) = SaidIn(l, s)
  <2>1. CASE LostIn(l, s) = {}
    BY <1>3, <1>4, <1>5, <2>1 DEF SaidIn
  <2>2. ASSUME NEW j, IsFirst(j, LostIn(l, s))
        PROVE  SaidIn(m, s) = SaidIn(l, s)
    <3>1. FirstOf(LostIn(l, s)) = j
      <4>1. LostIn(l, s) \in SUBSET Nat
        BY <1>1, <1>3
      <4>. QED BY <4>1, <2>2, FirstChosen
    <3>2. m[j] = l[j]
      BY <1>1, <1>3, <2>2 DEF IsFirst
    <3>. QED BY <3>1, <3>2, <1>3, <1>4, <1>5 DEF SaidIn
  <2>3. LostIn(l, s) = {} \/ \E j : IsFirst(j, LostIn(l, s))
    BY DEF Known, Sums
  <2>. QED BY <2>1, <2>2, <2>3
<1>. QED BY <1>5, <1>6, <1>7 DEF m

\* Conclude keeps the records and the first error of the resolver it asks.
LEMMA SumGrows ==
  ASSUME NEW Q, NEW l \in Seq(Q), NEW q \in Q, NEW R, NEW e,
         Sums(l, q.server, R, e), \A i \in DOMAIN l : l[i].verdict \in Verdict,
         ~NoName(l, q.server)
  PROVE  LET m == Append(l, q) IN
           /\ Sums(m, q.server, R \cup q.verdict.records,
                   IF e = "none" /\ q.verdict.code # "ok" THEN q.verdict.code ELSE e)
           /\ NoName(m, q.server) <=> q.verdict.code = "nxdomain"
<1> DEFINE m == Append(l, q)
           s == q.server
           n == Len(l) + 1
           f == IF e = "none" /\ q.verdict.code # "ok" THEN q.verdict.code ELSE e
<1>1. /\ DOMAIN m = DOMAIN l \cup {n} /\ DOMAIN l = 1 .. Len(l) /\ n \in Nat
      /\ n \notin DOMAIN l /\ \A i \in DOMAIN l : m[i] = l[i] /\ i \in Nat /\ i < n
      /\ m[n] = q
  OBVIOUS
<1> HIDE DEF m, n, s
<1>2. PutIn(m, s) = PutIn(l, s) \cup {n} /\ PutIn(l, s) \subseteq DOMAIN l
  BY <1>1 DEF PutIn, s
<1>3. LostIn(m, s) = LostIn(l, s) \cup (IF q.verdict.code # "ok" THEN {n} ELSE {})
      /\ LostIn(l, s) \subseteq DOMAIN l
  BY <1>1, <1>2 DEF LostIn
<1>4. GotIn(m, s) = GotIn(l, s) \cup q.verdict.records
  <2>1. \A r : r \in GotIn(m, s) <=> \E i \in PutIn(m, s) : r \in m[i].verdict.records
    BY DEF GotIn
  <2>2. \A r : r \in GotIn(l, s) <=> \E i \in PutIn(l, s) : r \in l[i].verdict.records
    BY DEF GotIn
  <2>3. \A i \in PutIn(l, s) : m[i] = l[i]
    BY <1>1, <1>2
  <2>. QED BY <2>1, <2>2, <2>3, <1>1, <1>2
<1>5. NoName(m, s) <=> q.verdict.code = "nxdomain"
  <2>1. \A i \in LostIn(l, s) : m[i].verdict.code # "nxdomain"
    BY <1>1, <1>3 DEF NoName, s
  <2>2. q.verdict.code = "nxdomain" => n \in LostIn(m, s) /\ m[n].verdict.code = "nxdomain"
    BY <1>1, <1>3
  <2>. QED BY <2>1, <2>2, <1>1, <1>3 DEF NoName
<1>6. IF LostIn(m, s) = {} THEN f = "none"
      ELSE \E j : IsFirst(j, LostIn(m, s)) /\ m[j].verdict.code = f
  <2>1. CASE LostIn(l, s) = {}
    <3>1. e = "none"
      BY <2>1 DEF Sums, s
    <3>2. CASE q.verdict.code = "ok"
      BY <2>1, <3>1, <3>2, <1>3
    <3>3. CASE q.verdict.code # "ok"
      <4>1. LostIn(m, s) = {n} /\ f = q.verdict.code
        BY <2>1, <3>1, <3>3, <1>3
      <4>2. IsFirst(n, LostIn(m, s))
        BY <4>1, <1>1 DEF IsFirst
      <4>. QED BY <4>1, <4>2, <1>1
    <3>. QED BY <3>2, <3>3
  <2>2. CASE LostIn(l, s) # {}
    <3>1. PICK j : IsFirst(j, LostIn(l, s)) /\ l[j].verdict.code = e
      BY <2>2 DEF Sums, s
    <3>2. j \in DOMAIN l
      BY <3>1, <1>3 DEF IsFirst
    <3>3. e # "none"
      BY <3>1, <3>2 DEF Verdict, Code
    <3>4. IsFirst(j, LostIn(m, s))
      BY <3>1, <3>2, <1>1, <1>3 DEF IsFirst
    <3>. QED BY <3>1, <3>2, <3>3, <3>4, <1>1 DEF IsFirst
  <2>. QED BY <2>1, <2>2
<1>7. Sums(m, s, R \cup q.verdict.records, f)
  BY <1>4, <1>6 DEF Sums, s
<1>. QED BY <1>5, <1>7 DEF m, s

-----------------------------------------------------------------------------
(***************************************************************************)
(* Lookups and comparisons.                                                *)
(***************************************************************************)
Comparison == [code : {"ok"}, answers : Seq(Verdict), consistent : BOOLEAN]
LogEntry   == [server : 1 .. servers, type : 1 .. types, verdict : Verdict]

QueryTyped ==
  /\ QueryTypeOK
  /\ outcome \in Verdict \cup [code : {"raw"}, records : SUBSET Records] \cup Comparison
  /\ pc = "idle" => log = <<>>
  /\ ~comparing => at = 1 /\ answers = <<>>

\* The answers of resolvers before this one are complete, this one's is in the
\* making, and the others have not been asked.
Gathered ==
  /\ \A s \in DOMAIN answers : answers[s] = SaidIn(log, s)
  /\ Pure(log)
  /\ \A s : Known(log, s)
  /\ pc # "over" =>
       /\ Len(answers) = at - 1
       /\ \A i \in DOMAIN log : log[i].server <= at
       /\ Sums(log, at, records, firstError) /\ ~NoName(log, at)

\* What the call returned.
Returned ==
  /\ pc = "over" /\ log # <<>> /\ outcome.code # "raw" /\ ~comparing => outcome = SaidIn(log, 1)
  /\ outcome \in Comparison =>
       Len(outcome.answers) = servers /\ outcome.consistent = Consistent(outcome.answers)
  /\ pc = "over" /\ comparing /\ outcome \notin Comparison =>
       outcome.code = "raw" \/ outcome = Failed("usage_error")

QueryInv == QueryTyped /\ Gathered /\ Returned

VerdictFacts ==
  /\ \A R \in SUBSET Records : Found(R) \in Verdict
  /\ \A c \in Code : Failed(c) \in Verdict
  /\ \A c : Failed(c).records = {} /\ Failed(c).code = c
  /\ \A R : Found(R).code = "ok" /\ Found(R).records = R

LEMMA Verdicts == VerdictFacts
BY DEF VerdictFacts, Found, Failed, Verdict, Code

\* Verdicts and comparisons are told apart by their fields.
LEMMA NotCompared == \A v \in Verdict \cup [code : {"raw"}, records : SUBSET Records] : v \notin Comparison
<1> SUFFICES ASSUME NEW v \in Verdict \cup [code : {"raw"}, records : SUBSET Records], v \in Comparison
             PROVE  FALSE
  OBVIOUS
<1>1. DOMAIN v = {"code", "answers", "consistent"}
  BY DEF Comparison
<1>2. DOMAIN v = {"code", "records"}
  BY DEF Verdict
<1>. QED BY <1>1, <1>2

\* A call that has not begun.
LEMMA IdleInv ==
  Idle /\ servers \in 1 .. MaxServers /\ types \in 1 .. MaxTypes /\ retries \in 0 .. MaxTries
       /\ transport \in Transports /\ comparing \in BOOLEAN
  => QueryInv
<1> SUFFICES ASSUME Idle, servers \in 1 .. MaxServers, types \in 1 .. MaxTypes,
                    retries \in 0 .. MaxTries, transport \in Transports, comparing \in BOOLEAN
             PROVE  QueryInv
  OBVIOUS
<1>1. \A s : /\ PutIn(log, s) = {} /\ LostIn(log, s) = {} /\ GotIn(log, s) = {}
  BY DEF Idle, PutIn, LostIn, GotIn
<1>2. \A s : Sums(log, s, {}, "none") /\ ~NoName(log, s)
  BY <1>1 DEF Sums, NoName
<1>3. outcome \in Verdict
  BY Verdicts DEF Idle, VerdictFacts, Code
<1>4. QueryTyped
  BY <1>3, QueryBoundAssumption DEF Idle, QueryTyped, QueryTypeOK
<1>5. Gathered
  BY <1>2 DEF Idle, Gathered, Pure, Known
<1>6. Returned
  BY <1>3, NotCompared DEF Idle, Returned
<1>. QED BY <1>4, <1>5, <1>6 DEF QueryInv

\* An answer of a comparison, or the result of a lookup: EndLookup(v), if v is
\* what the resolver said.
LEMMA EndKeeps ==
  ASSUME QueryInv, Asking, UNCHANGED options, NEW v \in Verdict, EndLookup(v),
         NEW q \in LogEntry, q.server = at, log' = Append(log, q), Pure(log'),
         \A s : Known(log', s), v = SaidIn(log', at)
  PROVE  QueryInv'
<1>0. /\ log \in Seq(LogEntry) /\ log' \in Seq(LogEntry) /\ LogEntry' = LogEntry
      /\ at \in 1 .. servers /\ servers \in Nat /\ Len(answers) = at - 1 /\ answers \in Seq(Verdict)
      /\ DOMAIN log' = DOMAIN log \cup {Len(log) + 1}
      /\ \A i \in DOMAIN log : log'[i] = log[i]
      /\ log'[Len(log) + 1] = q /\ log' # <<>> /\ pc # "idle" /\ pc # "over"
      /\ types \in Nat
  <2>1. /\ log \in Seq(LogEntry) /\ LogEntry' = LogEntry
        /\ servers \in Nat /\ types \in Nat /\ at \in 1 .. servers /\ answers \in Seq(Verdict)
    BY QueryBoundAssumption DEF QueryInv, QueryTyped, QueryTypeOK, LogEntry, options
  <2>2. pc # "idle" /\ pc # "over" /\ Len(answers) = at - 1
    BY DEF Asking, QueryInv, Gathered
  <2> HIDE DEF LogEntry
  <2>3. /\ log' \in Seq(LogEntry) /\ Len(log') = Len(log) + 1 /\ Len(log) \in Nat
        /\ \A i \in 1 .. Len(log) : log'[i] = log[i]
        /\ log'[Len(log) + 1] = q
    BY <2>1
  <2>4. DOMAIN log = 1 .. Len(log) /\ DOMAIN log' = 1 .. Len(log) + 1
    BY <2>1, <2>3
  <2>. QED BY <2>1, <2>2, <2>3, <2>4
<1>1. \A s \in DOMAIN answers : answers[s] = SaidIn(log', s)
  <2> SUFFICES ASSUME NEW s \in DOMAIN answers PROVE answers[s] = SaidIn(log', s)
    OBVIOUS
  <2>1. s # q.server
    BY <1>0
  <2>2. Known(log, s) /\ answers[s] = SaidIn(log, s)
    BY DEF QueryInv, Gathered
  <2>. QED BY <2>1, <2>2, <1>0, OthersSaid
<1>2. CASE ~comparing
  <2>1. /\ pc' = "over" /\ outcome' = v /\ UNCHANGED <<at, type, tries, records, firstError, answers>>
    BY <1>2 DEF EndLookup, Return
  <2>2. QueryTyped'
    BY <2>1, <1>0, <1>2 DEF QueryInv, QueryTyped, QueryTypeOK, LogEntry, options
  <2>3. Gathered'
    BY <2>1, <1>1 DEF Gathered
  <2>4. Returned'
    BY <2>1, <1>2, NotCompared DEF Returned, QueryInv, QueryTyped, options
  <2>. QED BY <2>2, <2>3, <2>4 DEF QueryInv
<1>3. CASE comparing
  <2>1. NextServer(v)
    BY <1>3 DEF EndLookup
  <2>2. /\ answers' = Append(answers, v) /\ answers' \in Seq(Verdict)
        /\ Len(answers') = at /\ records' = {} /\ firstError' = "none"
    BY <2>1, <1>0 DEF NextServer
  <2>3. \A s \in DOMAIN answers' : answers'[s] = SaidIn(log', s)
    BY <2>2, <1>0, <1>1
  <2>4. CASE at < servers
    <3>1. /\ pc' = Entry /\ at' = at + 1 /\ type' = 1 /\ tries' = 0 /\ outcome' = outcome
      BY <2>1, <2>4 DEF NextServer, Question
    <3>2. pc' \in {"udp", "tcp"}
      BY <3>1 DEF Entry
    <3>3. QueryTyped'
      BY <2>2, <2>4, <3>1, <3>2, <1>0, <1>3 DEF QueryInv, QueryTyped, QueryTypeOK, LogEntry, options
    <3>4. \A i \in DOMAIN log' : log'[i].server <= at
      BY <1>0 DEF QueryInv, Gathered
    <3>5. Sums(log', at + 1, {}, "none") /\ ~NoName(log', at + 1)
      <4>1. PutIn(log', at + 1) = {}
        BY <3>4, <1>0, SMTT(20) DEF PutIn, LogEntry
      <4>. QED BY <4>1 DEF LostIn, GotIn, Sums, NoName
    <3>6. Gathered'
      <4>1. \A i \in DOMAIN log' : log'[i].server \in Nat
        <5>1. \A i \in DOMAIN log' : log'[i] \in LogEntry
          BY <1>0
        <5>2. \A e \in LogEntry : e.server \in Nat
          BY <1>0 DEF LogEntry
        <5>. QED BY <5>1, <5>2
      <4>2. \A i \in DOMAIN log' : log'[i].server <= at'
        BY <4>1, <3>1, <3>4, <1>0
      <4>3. Sums(log', at', records', firstError') /\ ~NoName(log', at')
        BY <2>2, <3>1, <3>5
      <4>4. Len(answers') = at' - 1
        BY <2>2, <3>1, <1>0
      <4>. QED BY <2>3, <4>2, <4>3, <4>4 DEF Gathered
    <3>7. Returned'
      BY <3>1, <3>2, <1>0 DEF QueryInv, Returned, options, Consistent
    <3>. QED BY <3>3, <3>6, <3>7 DEF QueryInv
  <2>5. CASE ~(at < servers)
    <3> DEFINE o == [code |-> "ok", answers |-> answers', consistent |-> Consistent(answers')]
    <3>1. /\ pc' = "over" /\ outcome' = o /\ UNCHANGED <<at, type, tries>>
      BY <2>1, <2>5 DEF NextServer, Return
    <3>2. Consistent(answers') \in BOOLEAN
      BY DEF Consistent
    <3>3. o \in Comparison
      BY <2>2, <3>2 DEF Comparison
    <3>4. QueryTyped'
      BY <2>2, <3>1, <3>3, <1>0, <1>3 DEF QueryInv, QueryTyped, QueryTypeOK, LogEntry, options
    <3>5. Gathered'
      BY <2>3, <3>1 DEF Gathered
    <3>6. Returned'
      <4>1. Len(answers') = servers
        BY <2>2, <2>5, <1>0
      <4>2. comparing' /\ servers' = servers
        BY <1>3 DEF options
      <4>3. outcome'.answers = answers' /\ outcome'.consistent = Consistent(answers')
        BY <3>1
      <4>4. outcome' \in Comparison
        BY <3>1, <3>3
      <4>. QED BY <4>1, <4>2, <4>3, <4>4 DEF Returned, Consistent
    <3>. QED BY <3>4, <3>5, <3>6 DEF QueryInv
  <2>. QED BY <2>4, <2>5
<1>. QED BY <1>2, <1>3, Zenon

\* A verdict on a question: Conclude(v).
LEMMA ConcludeKeeps ==
  ASSUME QueryInv, Asking, UNCHANGED options, NEW v \in Verdict, Conclude(v),
         v.code # "ok" => v.records = {}
  PROVE  QueryInv'
<1> DEFINE R == records \cup v.records
           e == IF firstError = "none" /\ v.code # "ok" THEN v.code ELSE firstError
           q == [server |-> at, type |-> type, verdict |-> v]
<1>1. /\ log \in Seq(LogEntry) /\ LogEntry' = LogEntry
      /\ servers \in Nat /\ types \in Nat /\ at \in 1 .. servers /\ type \in 1 .. types
      /\ records \subseteq Records /\ firstError \in Code \cup {"none"}
      /\ pc # "idle" /\ pc # "over"
      /\ Sums(log, at, records, firstError) /\ ~NoName(log, at)
      /\ Len(answers) = at - 1
  BY QueryBoundAssumption
  DEF QueryInv, QueryTyped, QueryTypeOK, LogEntry, options, Asking, Gathered
<1>2. q \in LogEntry /\ q.server = at /\ q.verdict = v
  BY <1>1 DEF LogEntry
<1>3. R \subseteq Records /\ e \in Code \cup {"none"} /\ (e # "none" => e \in Code)
  BY <1>1 DEF Verdict
<1>4. log' = Append(log, q)
  BY DEF Conclude
<1>5. \A en \in LogEntry : en.verdict \in Verdict
  BY DEF LogEntry
<1>6. /\ IF v.code = "nxdomain" THEN EndLookup(v)
         ELSE IF type < types
           THEN /\ Question(at, type + 1)
                /\ records' = R /\ firstError' = e
                /\ UNCHANGED <<answers, outcome>>
           ELSE EndLookup(Tolerated(R, e))
  BY DEF Conclude
<1> HIDE DEF q, LogEntry, R, e
<1>7. /\ log' \in Seq(LogEntry) /\ log' # <<>>
      /\ \A i \in DOMAIN log : log[i] \in LogEntry /\ log'[i] = log[i]
      /\ \A i \in DOMAIN log' : i \in DOMAIN log \/ log'[i] = q
      /\ \A i \in DOMAIN log' : log'[i] \in LogEntry
  BY <1>1, <1>2, <1>4
<1>8. Pure(log')
  BY <1>2, <1>7 DEF Pure, QueryInv, Gathered
<1>9. /\ \A i \in DOMAIN log : log[i].verdict \in Verdict
      /\ \A i \in DOMAIN log' : log'[i].verdict \in Verdict
  BY <1>5, <1>7
<1>10. Sums(log', at, R, e) /\ (NoName(log', at) <=> v.code = "nxdomain")
  BY <1>1, <1>2, <1>4, <1>9, SumGrows DEF R, e
<1>11. \A s : Known(log', s)
  <2> SUFFICES ASSUME NEW s PROVE Known(log', s)
    OBVIOUS
  <2>1. CASE s = at
    BY <1>10, <2>1 DEF Known
  <2>2. CASE s # at
    <3>1. Known(log, s)
      BY DEF QueryInv, Gathered
    <3>2. \A S, f : Sums(log, s, S, f) => Sums(log', s, S, f)
      BY <3>1, <2>2, <1>1, <1>2, <1>4, OthersSaid
    <3>. QED BY <3>1, <3>2 DEF Known
  <2>. QED BY <2>1, <2>2
<1>12. CASE v.code = "nxdomain"
  <2>1. EndLookup(v)
    BY <1>6, <1>12
  <2>2. v = Failed("nxdomain")
    BY <1>12 DEF Verdict, Failed
  <2>3. v = SaidIn(log', at)
    BY <1>10, <1>12, <2>2 DEF SaidIn
  <2>. QED BY <2>1, <2>3, <1>2, <1>4, <1>8, <1>11, EndKeeps
<1>13. CASE v.code # "nxdomain" /\ type < types
  <2>1. /\ pc' = Entry /\ at' = at /\ type' = type + 1 /\ tries' = 0
        /\ records' = R /\ firstError' = e /\ UNCHANGED <<answers, outcome>>
    BY <1>6, <1>13 DEF Question
  <2>2. pc' \in {"udp", "tcp"}
    BY <2>1 DEF Entry
  <2>3. QueryTyped'
    <3>1. type' \in 1 .. types /\ tries' \in 0 .. retries
      BY <2>1, <1>1, <1>13 DEF QueryInv, QueryTyped, QueryTypeOK
    <3>2. log' \in Seq([server : 1 .. servers, type : 1 .. types, verdict : Verdict])
      BY <1>7 DEF LogEntry
    <3>3. records' \subseteq Records /\ firstError' \in Code \cup {"none"}
      BY <2>1, <1>3
    <3>. QED BY <2>1, <2>2, <3>1, <3>2, <3>3, <1>1 DEF QueryInv, QueryTyped, QueryTypeOK, options
  <2>4. \A s \in DOMAIN answers : answers[s] = SaidIn(log', s)
    <3> SUFFICES ASSUME NEW s \in DOMAIN answers PROVE answers[s] = SaidIn(log', s)
      OBVIOUS
    <3>1. s # at
      BY <1>1 DEF QueryInv, QueryTyped, QueryTypeOK
    <3>2. Known(log, s) /\ answers[s] = SaidIn(log, s)
      BY DEF QueryInv, Gathered
    <3>. QED BY <3>1, <3>2, <1>1, <1>2, <1>4, OthersSaid
  <2>5. \A i \in DOMAIN log' : log'[i].server <= at
    BY <1>1, <1>2, <1>7 DEF QueryInv, Gathered
  <2>6. Gathered'
    BY <2>1, <2>4, <2>5, <1>1, <1>8, <1>10, <1>11, <1>13 DEF Gathered
  <2>7. Returned'
    BY <2>1, <2>2 DEF QueryInv, Returned, options, Consistent, Comparison
  <2>. QED BY <2>3, <2>6, <2>7 DEF QueryInv
<1>14. CASE v.code # "nxdomain" /\ ~(type < types)
  <2>1. EndLookup(Tolerated(R, e))
    BY <1>6, <1>14
  <2>2. Tolerated(R, e) \in Verdict
    BY <1>3, Verdicts DEF VerdictFacts, Tolerated
  <2>3. Tolerated(R, e) = SaidIn(log', at)
    BY <1>7, <1>8, <1>9, <1>10, <1>14, SaidTolerated
  <2>. QED BY <2>1, <2>2, <2>3, <1>2, <1>4, <1>8, <1>11, EndKeeps
<1>. QED BY <1>12, <1>13, <1>14

\* A step of a call that puts no question.
LEMMA SameLog ==
  ASSUME QueryInv, UNCHANGED <<options, log, answers, outcome>>, pc # "over",
         pc' \in {"udp", "tcp"}, UNCHANGED <<at, type, records, firstError>>,
         tries' \in 0 .. retries
  PROVE  QueryInv'
<1>1. QueryTyped'
  BY DEF QueryInv, QueryTyped, QueryTypeOK, options
<1>2. Gathered'
  BY DEF QueryInv, Gathered
<1>3. Returned'
  BY DEF QueryInv, Returned, options, Consistent
<1>. QED BY <1>1, <1>2, <1>3 DEF QueryInv

\* A call ends with an error that no resolver gave.
LEMMA Broken ==
  ASSUME QueryInv, UNCHANGED <<options, log, answers, at, type, tries, records, firstError>>,
         pc' = "over", NEW o \in Verdict \cup [code : {"raw"}, records : SUBSET Records],
         outcome' = o, log = <<>> \/ o.code = "raw",
         comparing => o.code = "raw" \/ o = Failed("usage_error")
  PROVE  QueryInv'
<1>1. QueryTyped'
  BY DEF QueryInv, QueryTyped, QueryTypeOK, options
<1>2. Gathered'
  BY DEF QueryInv, Gathered
<1>3. Returned'
  BY NotCompared DEF Returned, options, Comparison
<1>. QED BY <1>1, <1>2, <1>3 DEF QueryInv

LEMMA QueryKeeps == QueryInv /\ QueryStep => QueryInv'
<1> SUFFICES ASSUME QueryInv, QueryStep PROVE QueryInv'
  OBVIOUS
<1>0. /\ Entry \in {"udp", "tcp"} /\ tries \in 0 .. retries /\ retries \in Nat
      /\ pc = "idle" => log = <<>>
  BY QueryBoundAssumption DEF Entry, QueryInv, QueryTyped, QueryTypeOK
<1>1. CASE Begin
  <2>1. CASE Raise("usage_error")
    <3>1. Failed("usage_error") \in Verdict
      BY Verdicts DEF VerdictFacts, Code
    <3>. QED BY <1>0, <1>1, <2>1, <3>1, Broken DEF Begin, Raise, Return
  <2>2. CASE Raise("dns_error")
    <3>1. Failed("dns_error") \in Verdict
      BY Verdicts DEF VerdictFacts, Code
    <3>. QED BY <1>0, <1>1, <2>2, <3>1, Broken DEF Begin, Raise, Return
  <2>3. CASE pc' = Entry /\ UNCHANGED <<at, type, tries, records, firstError, answers, log, outcome>>
    BY <1>0, <1>1, <2>3, SameLog DEF Begin
  <2>. QED BY <1>1, <2>1, <2>2, <2>3 DEF Begin
<1>2. CASE Answer
  <2>1. PICK v \in Verdict : Conclude(v) /\ (v.code # "ok" => v.records = {})
    <3>1. ASSUME NEW R \in SUBSET Records, Conclude(Judge("NOERROR", R))
          PROVE  \E v \in Verdict : Conclude(v) /\ (v.code # "ok" => v.records = {})
      <4>1. Judge("NOERROR", R) = Found(R)
        BY DEF Judge
      <4>2. Found(R) \in Verdict /\ Found(R).code = "ok"
        BY Verdicts DEF VerdictFacts
      <4>. QED BY <3>1, <4>1, <4>2
    <3>2. ASSUME NEW rcode \in {"NXDOMAIN", "REFUSED", "SERVFAIL"}, Conclude(Judge(rcode, {}))
          PROVE  \E v \in Verdict : Conclude(v) /\ (v.code # "ok" => v.records = {})
      <4>1. PICK c \in {"nxdomain", "refused", "servfail"} : Judge(rcode, {}) = Failed(c)
        BY DEF Judge
      <4>2. Failed(c) \in Verdict /\ Failed(c).records = {}
        BY Verdicts DEF VerdictFacts, Code
      <4>. QED BY <3>2, <4>1, <4>2
    <3>. QED BY <1>2, <3>1, <3>2 DEF Answer
  <2>. QED BY <1>2, <2>1, ConcludeKeeps DEF Answer
<1>3. CASE Truncated
  BY <1>0, <1>3, SameLog DEF Truncated
<1>4. ASSUME NEW c \in {"timeout", "servfail"}, TryFails(Failed(c))
      PROVE  QueryInv'
  <2>1. Failed(c) \in Verdict /\ Failed(c).records = {}
    BY Verdicts DEF VerdictFacts, Code
  <2>2. CASE tries < retries
    <3>1. tries + 1 \in 0 .. retries
      BY <1>0, <2>2
    <3>. QED BY <1>0, <1>4, <2>2, <3>1, SameLog DEF TryFails, Asking
  <2>3. CASE ~(tries < retries)
    BY <1>4, <2>1, <2>3, ConcludeKeeps DEF TryFails
  <2>. QED BY <2>2, <2>3
<1>5. CASE Malformed
  <2>1. [code |-> "raw", records |-> {}] \in [code : {"raw"}, records : SUBSET Records]
    OBVIOUS
  <2>. QED BY <1>5, <2>1, Broken DEF Malformed, Return
<1>. QED BY <1>1, <1>2, <1>3, <1>4, <1>5 DEF QueryStep, Silence, Unreachable

-----------------------------------------------------------------------------
(***************************************************************************)
(* Commands: targets, rounds and the exit code.                            *)
(***************************************************************************)
Path   == [code : {"ok"}, path : Seq(Hop)]
Result == Verdict \cup Comparison \cup Path

\* RoundExit, of the outcomes rs of a command with the options tr and co.
GoodBy(r, tr) == IF tr THEN Last(r.path).response = "answer" ELSE r.consistent

ExitBy(rs, tr, co) ==
  LET done == {i \in DOMAIN rs : rs[i].code = "ok"} IN
    IF ~tr /\ ~co THEN AggregateExit({ExitOf(rs[i].code) : i \in DOMAIN rs})
    ELSE IF done = {} THEN "USAGE"
    ELSE IF done = DOMAIN rs /\ \A i \in done : GoodBy(rs[i], tr) THEN "OK"
    ELSE "PARTIAL"

ExitOver(rs) == ExitBy(rs, tracing, comparing)

\* ExitTells, of the outcomes rs.
Tells(exit, rs) ==
  IF ~tracing /\ ~comparing
    THEN Summarises(exit, [i \in DOMAIN rs |-> ExitOf(rs[i].code)])
    ELSE LET done == {i \in DOMAIN rs : rs[i].code = "ok"}
             good == {i \in done : Good(rs[i])}
         IN  /\ exit \in {"OK", "PARTIAL", "USAGE"}
             /\ exit = "OK" <=> good = DOMAIN rs
             /\ exit = "USAGE" <=> done = {}

CommandTyped ==
  /\ tracing \in BOOLEAN /\ watching \in BOOLEAN
  /\ targets \in 1 .. MaxTargets
  /\ phase \in {"running", "round", "sleep", "exited"}
  /\ results \in Seq(Result) /\ last \in Seq(Result)
  /\ rounds \in 0 .. MaxRounds
  /\ shown \in {"nothing", "initial", "changed", "no change"}
  /\ code \in ExitCode /\ exitCode \in ExitCode \cup {"none"}
  /\ exitCode # "none" <=> phase = "exited"

\* Rounds are complete, and the code belongs to the last of them.
Counted ==
  /\ Len(results) <= targets
  /\ phase = "running" => Len(results) < targets
  /\ phase = "round" => Len(results) = targets
  /\ phase \in {"running", "round"} => rounds < MaxRounds
  /\ rounds > 0 => Len(last) = targets /\ code = ExitOver(last)
  /\ phase = "exited" /\ exitCode # "ERROR" /\ rounds > 0 => exitCode = ExitOver(last)

CommandInv == CommandTyped /\ Counted

LEMMA ResultCode == \A r \in Result : r.code \in Code
BY DEF Result, Verdict, Comparison, Path, Code

LEMMA ExitType ==
  ASSUME NEW rs \in Seq(Result)
  PROVE  ExitOver(rs) \in ExitCode
<1>1. CASE ~tracing /\ ~comparing
  <2> DEFINE codes == {ExitOf(rs[i].code) : i \in DOMAIN rs}
  <2>1. \A c \in Code : ExitOf(c) \in ExitCode
    BY DEF Code, ExitOf, ExitCode
  <2>2. \A i \in DOMAIN rs : rs[i].code \in Code
    BY ResultCode
  <2>3. codes \subseteq ExitCode
    BY <2>1, <2>2
  <2>4. AggregateExit(codes) \in codes \cup {"OK", "PARTIAL"}
    BY AggregateOneOf
  <2>5. ExitOver(rs) = AggregateExit(codes)
    BY <1>1 DEF ExitOver, ExitBy
  <2>. QED BY <2>3, <2>4, <2>5 DEF ExitCode
<1>2. CASE tracing \/ comparing
  BY <1>2 DEF ExitOver, ExitBy, ExitCode
<1>. QED BY <1>1, <1>2

\* The exit code of a round tells how its targets came out.
LEMMA ExitTrue ==
  ASSUME NEW rs \in Seq(Result), rs # <<>>
  PROVE  Tells(ExitOver(rs), rs)
<1>0. Len(rs) \in Nat \ {0} /\ DOMAIN rs = 1 .. Len(rs)
  OBVIOUS
<1>1. CASE ~tracing /\ ~comparing
  <2> DEFINE codes == [i \in DOMAIN rs |-> ExitOf(rs[i].code)]
  <2>1. {codes[i] : i \in DOMAIN codes} = {ExitOf(rs[i].code) : i \in DOMAIN rs}
    OBVIOUS
  <2>2. ExitOver(rs) = AggregateExit({codes[i] : i \in DOMAIN codes})
    BY <1>1, <2>1 DEF ExitOver, ExitBy
  <2>3. DOMAIN codes = 1 .. Len(rs)
    BY <1>0
  <2> HIDE DEF codes
  <2>4. Summarises(AggregateExit({codes[i] : i \in DOMAIN codes}), codes)
    BY <1>0, <2>3, AggregateSummarises
  <2>. QED BY <1>1, <2>2, <2>4 DEF Tells, codes
<1>2. CASE tracing \/ comparing
  <2> DEFINE done == {i \in DOMAIN rs : rs[i].code = "ok"}
             good == {i \in done : Good(rs[i])}
  <2>1. good = DOMAIN rs <=> done = DOMAIN rs /\ \A i \in done : Good(rs[i])
    OBVIOUS
  <2>2. ExitOver(rs) = IF done = {} THEN "USAGE" ELSE IF good = DOMAIN rs THEN "OK" ELSE "PARTIAL"
    BY <1>2, <2>1 DEF ExitOver, ExitBy, GoodBy, Good
  <2>3. done = {} => good # DOMAIN rs
    BY <1>0
  <2>4. /\ ExitOver(rs) \in {"OK", "PARTIAL", "USAGE"}
        /\ ExitOver(rs) = "OK" <=> good = DOMAIN rs
        /\ ExitOver(rs) = "USAGE" <=> done = {}
    <3> HIDE DEF good, done
    <3>. QED BY <2>2, <2>3
  <2>. QED BY <1>2, <2>4 DEF Tells
<1>. QED BY <1>1, <1>2

\* Signature, of the outcomes rs; it tells what it should if each that failed did
\* so in the one way that comparisons and traces can, and a path is referrals up
\* to its last step.
SigBy(rs, tr, co) ==
  LET done == {i \in DOMAIN rs : rs[i].code = "ok"} IN
    IF ~tr /\ ~co THEN [i \in DOMAIN rs |-> rs[i]]
    ELSE [i \in done |-> IF tr THEN Responses(rs[i].path) ELSE rs[i].answers]

Straight(path) == path # <<>> /\ \A j \in 1 .. Len(path) - 1 : path[j].response = "referral"

ShapedBy(r, tr, co) ==
  /\ tr => r = Failed("usage_error") \/ (r \in Path /\ Straight(r.path))
  /\ ~tr /\ co => \/ r = Failed("usage_error")
                 \/ (r \in Comparison /\ r.consistent = Consistent(r.answers))

Shaped(r) == ShapedBy(r, tracing, comparing)

AllShaped(rs) == \A i \in DOMAIN rs : Shaped(rs[i])

\* Paths of referrals have the same responses if they are as long and end alike.
LEMMA PathsAlike ==
  ASSUME NEW p \in Seq(Hop), NEW q \in Seq(Hop), Straight(p), Straight(q)
  PROVE  Responses(p) = Responses(q)
           <=> Len(p) = Len(q) /\ Last(p).response = Last(q).response
<1>0. /\ Len(p) \in Nat \ {0} /\ DOMAIN p = 1 .. Len(p)
      /\ Len(q) \in Nat \ {0} /\ DOMAIN q = 1 .. Len(q)
      /\ Last(p) = p[Len(p)] /\ Last(q) = q[Len(q)]
  BY DEF Straight, Last
<1>1. ASSUME Responses(p) = Responses(q)
      PROVE  Len(p) = Len(q) /\ Last(p).response = Last(q).response
  <2>1. DOMAIN Responses(p) = DOMAIN p /\ DOMAIN Responses(q) = DOMAIN q
    BY DEF Responses
  <2>2. 1 .. Len(p) = 1 .. Len(q)
    BY <1>0, <1>1, <2>1
  <2>3. Len(p) = Len(q)
    <3>1. Len(p) \in 1 .. Len(p) /\ Len(q) \in 1 .. Len(q)
      BY <1>0
    <3>2. Len(p) \in 1 .. Len(q) /\ Len(q) \in 1 .. Len(p)
      BY <2>2, <3>1
    <3>3. Len(p) <= Len(q) /\ Len(q) <= Len(p)
      BY <1>0, <3>2
    <3>4. \A m, n \in Nat : m <= n /\ n <= m => m = n
      OBVIOUS
    <3>5. Len(p) \in Nat /\ Len(q) \in Nat
      BY <1>0
    <3>. QED BY <3>3, <3>4, <3>5, Zenon
  <2>4. Responses(p)[Len(p)] = p[Len(p)].response /\ Responses(q)[Len(q)] = q[Len(q)].response
    BY <1>0 DEF Responses
  <2>. QED BY <1>0, <1>1, <2>3, <2>4
<1>2. ASSUME Len(p) = Len(q), Last(p).response = Last(q).response
      PROVE  Responses(p) = Responses(q)
  <2>1. ASSUME NEW i \in DOMAIN p PROVE p[i].response = q[i].response
    <3>1. i \in 1 .. Len(p) - 1 \/ i = Len(p)
      BY <1>0
    <3>. QED BY <1>0, <1>2, <3>1 DEF Straight
  <2>. QED BY <1>0, <1>2, <2>1 DEF Responses
<1>. QED BY <1>1, <1>2

\* Whether two outcomes are told apart, by what the signature keeps of them.
LEMMA ToldByPart ==
  ASSUME NEW r, NEW l, Shaped(r), Shaped(l), tracing \/ comparing
  PROVE  ~ToldApart(r, l)
           <=> /\ r.code = "ok" <=> l.code = "ok"
               /\ r.code = "ok" => IF tracing THEN Responses(r.path) = Responses(l.path)
                                   ELSE r.answers = l.answers
<1>1. /\ Failed("usage_error").code # "ok"
      /\ \A o \in Path \cup Comparison : o.code = "ok"
  BY DEF Failed, Path, Comparison
<1>2. CASE tracing
  <2>1. /\ r = Failed("usage_error") \/ (r \in Path /\ Straight(r.path))
        /\ l = Failed("usage_error") \/ (l \in Path /\ Straight(l.path))
    BY <1>2 DEF Shaped, ShapedBy
  <2>2. CASE r.code = "ok" /\ l.code = "ok"
    <3>1. /\ r.path \in Seq(Hop) /\ Straight(r.path)
          /\ l.path \in Seq(Hop) /\ Straight(l.path)
      BY <1>1, <2>1, <2>2 DEF Path
    <3>2. Responses(r.path) = Responses(l.path)
            <=> Len(r.path) = Len(l.path) /\ Last(r.path).response = Last(l.path).response
      BY <3>1, PathsAlike
    <3>. QED BY <1>2, <2>2, <3>2 DEF ToldApart
  <2>3. CASE ~(r.code = "ok" /\ l.code = "ok")
    <3>1. r.code # "ok" /\ l.code # "ok" => r = l
      BY <1>1, <2>1
    <3>. QED BY <1>2, <2>3, <3>1 DEF ToldApart
  <2>. QED BY <2>2, <2>3
<1>3. CASE ~tracing
  <2>1. /\ \/ r = Failed("usage_error")
           \/ (r \in Comparison /\ r.consistent = Consistent(r.answers))
        /\ \/ l = Failed("usage_error")
           \/ (l \in Comparison /\ l.consistent = Consistent(l.answers))
    BY <1>3 DEF Shaped, ShapedBy
  <2>2. ASSUME r.code = "ok", l.code = "ok", r.answers = l.answers PROVE r = l
    <3>1. r \in Comparison /\ l \in Comparison /\ r.consistent = l.consistent
      BY <1>1, <2>1, <2>2
    <3>. QED BY <2>2, <3>1 DEF Comparison
  <2>3. r.code # "ok" /\ l.code # "ok" => r = l
    BY <1>1, <2>1
  <2>. QED BY <1>3, <2>2, <2>3 DEF ToldApart
<1>. QED BY <1>2, <1>3

\* Rounds have the same signature if none of their outcomes are told apart.
LEMMA SignatureTells ==
  ASSUME NEW rs \in Seq(Result), NEW ls \in Seq(Result), Len(rs) = Len(ls),
         AllShaped(rs), AllShaped(ls)
  PROVE  SigBy(rs, tracing, comparing) = SigBy(ls, tracing, comparing)
           <=> \A i \in DOMAIN rs : ~ToldApart(rs[i], ls[i])
<1>0. /\ DOMAIN rs = DOMAIN ls
      /\ rs = [i \in DOMAIN rs |-> rs[i]] /\ ls = [i \in DOMAIN ls |-> ls[i]]
  OBVIOUS
<1>1. CASE ~tracing /\ ~comparing
  <2>1. rs = ls <=> \A i \in DOMAIN rs : rs[i] = ls[i]
    BY <1>0
  <2>. QED BY <1>0, <1>1, <2>1 DEF SigBy, ToldApart
<1>2. CASE tracing \/ comparing
  <2> DEFINE Done(qs) == {i \in DOMAIN qs : qs[i].code = "ok"}
             Part(r)  == IF tracing THEN Responses(r.path) ELSE r.answers
  <2>1. \A qs : SigBy(qs, tracing, comparing) = [i \in Done(qs) |-> Part(qs[i])]
    BY <1>2 DEF SigBy
  <2>2. \A i \in DOMAIN rs : ~ToldApart(rs[i], ls[i])
          <=> /\ i \in Done(rs) <=> i \in Done(ls)
              /\ i \in Done(rs) => Part(rs[i]) = Part(ls[i])
    <3> SUFFICES ASSUME NEW i \in DOMAIN rs
                 PROVE  ~ToldApart(rs[i], ls[i])
                          <=> /\ i \in Done(rs) <=> i \in Done(ls)
                              /\ i \in Done(rs) => Part(rs[i]) = Part(ls[i])
      OBVIOUS
    <3>1. Shaped(rs[i]) /\ Shaped(ls[i])
      BY <1>0 DEF AllShaped
    <3>2. i \in Done(rs) <=> rs[i].code = "ok"
      OBVIOUS
    <3>3. i \in Done(ls) <=> ls[i].code = "ok"
      BY <1>0
    <3>. QED BY <1>2, <3>1, <3>2, <3>3, ToldByPart
  <2>3. Done(rs) \subseteq DOMAIN rs /\ Done(ls) \subseteq DOMAIN rs
    BY <1>0
  <2> HIDE DEF Done, Part
  <2>4. /\ DOMAIN [i \in Done(rs) |-> Part(rs[i])] = Done(rs)
        /\ DOMAIN [i \in Done(ls) |-> Part(ls[i])] = Done(ls)
        /\ \A i \in Done(rs) : [j \in Done(rs) |-> Part(rs[j])][i] = Part(rs[i])
        /\ \A i \in Done(ls) : [j \in Done(ls) |-> Part(ls[j])][i] = Part(ls[i])
    OBVIOUS
  <2>5. ASSUME [i \in Done(rs) |-> Part(rs[i])] = [i \in Done(ls) |-> Part(ls[i])]
        PROVE  Done(rs) = Done(ls) /\ \A i \in Done(rs) : Part(rs[i]) = Part(ls[i])
    <3>1. Done(rs) = Done(ls)
      BY <2>4, <2>5
    <3>2. ASSUME NEW i \in Done(rs) PROVE Part(rs[i]) = Part(ls[i])
      <4>1. [j \in Done(rs) |-> Part(rs[j])][i] = Part(rs[i])
        OBVIOUS
      <4>2. i \in Done(ls)
        BY <3>1
      <4>3. [j \in Done(ls) |-> Part(ls[j])][i] = Part(ls[i])
        BY <4>2
      <4>. QED BY <2>5, <4>1, <4>3
    <3>. QED BY <3>1, <3>2
  <2>6. ASSUME Done(rs) = Done(ls), \A i \in Done(rs) : Part(rs[i]) = Part(ls[i])
        PROVE  [i \in Done(rs) |-> Part(rs[i])] = [i \in Done(ls) |-> Part(ls[i])]
    BY <2>6
  <2>7. (\A i \in DOMAIN rs : ~ToldApart(rs[i], ls[i]))
          <=> Done(rs) = Done(ls) /\ \A i \in Done(rs) : Part(rs[i]) = Part(ls[i])
    BY <2>2, <2>3
  <2>. QED BY <2>1, <2>5, <2>6, <2>7
<1>. QED BY <1>1, <1>2

\* Rounds whose outcomes are not told apart exit with the same code.
LEMMA AlikeExit ==
  ASSUME NEW rs \in Seq(Result), NEW ls \in Seq(Result), Len(rs) = Len(ls),
         \A i \in DOMAIN rs : ~ToldApart(rs[i], ls[i])
  PROVE  ExitOver(rs) = ExitOver(ls)
<1>0. DOMAIN rs = DOMAIN ls
  OBVIOUS
<1>1. CASE ~tracing
  <2>1. rs = ls
    BY <1>0, <1>1 DEF ToldApart
  <2>. QED BY <2>1
<1>2. CASE tracing
  <2> DEFINE Done(qs) == {i \in DOMAIN qs : qs[i].code = "ok"}
  <2>1. ASSUME NEW i \in DOMAIN rs
        PROVE  /\ rs[i].code = "ok" <=> ls[i].code = "ok"
               /\ rs[i].code = "ok" => (GoodBy(rs[i], tracing) <=> GoodBy(ls[i], tracing))
    <3>1. ~ToldApart(rs[i], ls[i])
      OBVIOUS
    <3>2. CASE rs[i].code = "ok" /\ ls[i].code = "ok"
      BY <1>2, <3>1, <3>2 DEF ToldApart, GoodBy
    <3>3. CASE ~(rs[i].code = "ok" /\ ls[i].code = "ok")
      BY <1>2, <3>1, <3>3 DEF ToldApart
    <3>. QED BY <3>2, <3>3
  <2>2. Done(rs) = Done(ls)
    BY <1>0, <2>1
  <2>3. (\A i \in Done(rs) : GoodBy(rs[i], tracing)) <=> (\A i \in Done(ls) : GoodBy(ls[i], tracing))
    BY <2>1, <2>2
  <2>4. \A qs : ExitOver(qs) = IF Done(qs) = {} THEN "USAGE"
                               ELSE IF Done(qs) = DOMAIN qs /\ \A i \in Done(qs) : GoodBy(qs[i], tracing)
                                 THEN "OK" ELSE "PARTIAL"
    BY <1>2 DEF ExitOver, ExitBy
  <2> HIDE DEF Done
  <2>. QED BY <1>0, <2>2, <2>3, <2>4
<1>. QED BY <1>1, <1>2

\* What is kept of a target that is over.
LEMMA ResultType ==
  ASSUME TraceInv, QueryInv, Over, ~Raw
  PROVE  ResultOf \in Result
<1>1. CASE ~tracing
  BY <1>1 DEF Over, Raw, ResultOf, Result, QueryInv, QueryTyped
<1>2. CASE tracing /\ hop = "bad"
  <2>1. Failed("usage_error") \in Verdict
    BY Verdicts DEF VerdictFacts, Code
  <2>. QED BY <1>2, <2>1 DEF ResultOf, Result
<1>3. CASE tracing /\ hop # "bad"
  <2>1. steps \in Seq(Hop)
    BY DEF TraceInv, TraceTypeOK, Hop, Response
  <2>2. [code |-> "ok", path |-> steps] \in Path
    BY <2>1 DEF Path
  <2>. QED BY <1>3, <2>2 DEF ResultOf, Result
<1>. QED BY <1>1, <1>2, <1>3

\* Ready is a fresh call.
LEMMA ReadyKeeps == QueryInv /\ ReadyQuery => QueryInv'
<1> DEFINE Options ==
      /\ servers \in 1 .. MaxServers /\ types \in 1 .. MaxTypes /\ retries \in 0 .. MaxTries
      /\ transport \in Transports /\ comparing \in BOOLEAN
<1>1. QueryInv => Options
  BY DEF QueryInv, QueryTyped, QueryTypeOK
<1>2. Idle /\ Options => QueryInv
  BY IdleInv
<1>3. (Idle /\ Options)' => QueryInv'
  BY <1>2, PTL
<1>4. ReadyQuery => Idle'
  BY DEF ReadyQuery, Idle
<1>5. Options /\ ReadyQuery => Options'
  BY DEF ReadyQuery, options
<1>. QED BY <1>1, <1>3, <1>4, <1>5

\* The outcome of a target is collected.
LEMMA CollectKeeps == CommandInv /\ TraceInv /\ QueryInv /\ Collect => CommandInv'
<1> SUFFICES ASSUME CommandInv, TraceInv, QueryInv, Collect PROVE CommandInv'
  OBVIOUS
<1>0. /\ phase = "running" /\ Over /\ UNCHANGED <<commandOptions, rounds, last, previous, shown, code>>
      /\ UNCHANGED comparing
  BY DEF Collect, Ready, ReadyQuery, options
<1>1. UNCHANGED <<tracing, comparing>>
  BY <1>0 DEF commandOptions
<1>2. CASE Raw
  <2>1. phase' = "exited" /\ exitCode' = "ERROR" /\ UNCHANGED results
    BY <1>2 DEF Collect
  <2>2. CommandTyped'
    BY <2>1, <1>0 DEF CommandInv, CommandTyped, commandOptions, ExitCode
  <2>3. Counted'
    BY <2>1, <1>0, <1>1 DEF CommandInv, Counted, ExitOver, commandOptions
  <2>. QED BY <2>2, <2>3 DEF CommandInv
<1>3. CASE ~Raw
  <2>1. /\ results' = Append(results, ResultOf) /\ exitCode' = exitCode
        /\ phase' = IF Len(results') = targets THEN "round" ELSE "running"
    BY <1>3 DEF Collect
  <2>2. ResultOf \in Result
    BY <1>0, <1>3, ResultType
  <2>3. /\ results \in Seq(Result) /\ targets \in Nat
        /\ Len(results) < targets /\ rounds < MaxRounds /\ exitCode = "none"
    <3>1. results \in Seq(Result) /\ Len(results) < targets /\ rounds < MaxRounds
      BY <1>0 DEF CommandInv, CommandTyped, Counted
    <3>2. exitCode = "none"
      BY <1>0 DEF CommandInv, CommandTyped
    <3>3. targets \in Nat
      <4>1. targets \in 1 .. MaxTargets
        BY DEF CommandInv, CommandTyped
      <4>. QED BY <4>1, CommandAssumption
    <3>. QED BY <3>1, <3>2, <3>3
  <2>4. results' \in Seq(Result) /\ Len(results') = Len(results) + 1 /\ Len(results) \in Nat
    BY <2>1, <2>2, <2>3
  <2>5. phase' \in {"running", "round"} /\ Len(results') <= targets
        /\ (phase' = "running" => Len(results') < targets)
        /\ (phase' = "round" => Len(results') = targets)
    BY <2>1, <2>3, <2>4
  <2>6. CommandTyped'
    BY <2>1, <2>3, <2>4, <2>5, <1>0 DEF CommandInv, CommandTyped, commandOptions
  <2>7. Counted'
    BY <2>1, <2>3, <2>5, <1>0, <1>1 DEF CommandInv, Counted, ExitOver, commandOptions
  <2>. QED BY <2>6, <2>7 DEF CommandInv
<1>. QED BY <1>2, <1>3

\* A round ends.
LEMMA RoundKeeps == CommandInv /\ EndRound => CommandInv'
<1> SUFFICES ASSUME CommandInv, EndRound PROVE CommandInv'
  OBVIOUS
<1>0. /\ phase = "round" /\ rounds' = rounds + 1 /\ code' = RoundExit /\ last' = results
      /\ UNCHANGED <<commandOptions, results, comparing>>
  BY DEF EndRound, queryVars, options
<1>1. ExitOver(last)' = ExitOver(results)
  BY <1>0 DEF ExitOver, commandOptions
<1>2. RoundExit = ExitOver(results)
  BY DEF RoundExit, ExitOver, ExitBy, GoodBy, Good, Answered
<1>3. /\ results \in Seq(Result) /\ Len(results) = targets /\ exitCode = "none"
      /\ rounds \in 0 .. MaxRounds /\ rounds < MaxRounds
      /\ shown \in {"nothing", "initial", "changed", "no change"}
  BY <1>0 DEF CommandInv, CommandTyped, Counted
<1>4. ExitOver(results) \in ExitCode
  BY <1>3, ExitType
<1>5. code' \in ExitCode /\ code' = ExitOver(last)'
  BY <1>0, <1>1, <1>2, <1>4
<1>6. \/ phase' = "sleep" /\ exitCode' = exitCode
      \/ phase' = "exited" /\ exitCode' = ExitOver(results)
  BY <1>2 DEF EndRound
<1>7. shown' \in {"nothing", "initial", "changed", "no change"}
  BY <1>3 DEF EndRound
<1>8. rounds' \in 0 .. MaxRounds
  <2>1. rounds + 1 \in 0 .. MaxRounds
    <3>1. rounds \in 0 .. MaxRounds /\ rounds < MaxRounds
      BY <1>3
    <3>. QED BY <3>1, CommandAssumption
  <2>. QED BY <2>1, <1>0
<1>9. exitCode' \in ExitCode \cup {"none"} /\ (exitCode' # "none" <=> phase' = "exited")
  BY <1>3, <1>4, <1>6 DEF ExitCode
<1>10. CommandTyped'
  BY <1>0, <1>3, <1>5, <1>6, <1>7, <1>8, <1>9 DEF CommandInv, CommandTyped, commandOptions
<1>11. Counted'
  <2>1. /\ targets' = targets /\ results' = results
        /\ phase' \in {"sleep", "exited"} /\ Len(last') = targets /\ code' = ExitOver(last)'
        /\ phase' = "exited" => exitCode' = ExitOver(last)'
    BY <1>0, <1>1, <1>2, <1>3, <1>6 DEF commandOptions
  <2>. QED BY <2>1, <1>3 DEF Counted, CommandInv
<1>. QED BY <1>10, <1>11 DEF CommandInv

LEMMA CommandKeeps == CommandInv /\ TraceInv /\ QueryInv /\ [Next]_vars => CommandInv'
<1> SUFFICES ASSUME CommandInv, TraceInv, QueryInv, [Next]_vars PROVE CommandInv'
  OBVIOUS
<1>1. CASE Collect
  BY <1>1, CollectKeeps
<1>2. CASE EndRound
  BY <1>2, RoundKeeps
<1>3. CASE Sleep
  <2>1. UNCHANGED <<tracing, comparing>>
    BY <1>3 DEF Sleep, queryVars, options, commandOptions
  <2>2. last' = last => ExitOver(last)' = ExitOver(last)
    BY <2>1 DEF ExitOver
  <2>3. <<>> \in Seq(Result) /\ Len(<<>>) = 0
    OBVIOUS
  <2>4. CommandTyped'
    BY <1>3, <2>3 DEF Sleep, CommandInv, CommandTyped, commandOptions
  <2>5. Counted'
    <3>1. /\ phase' = "running" /\ results' = <<>> /\ rounds < MaxRounds /\ exitCode # "ERROR"
          /\ UNCHANGED <<targets, rounds, last, code, exitCode>>
      BY <1>3 DEF Sleep, commandOptions, CommandInv, CommandTyped
    <3>2. 0 < targets /\ 0 <= targets
      <4>1. targets \in 1 .. MaxTargets
        BY DEF CommandInv, CommandTyped
      <4>. QED BY <4>1, CommandAssumption
    <3>3. rounds > 0 => Len(last) = targets /\ code = ExitOver(last)
      BY DEF CommandInv, Counted
    <3>. QED BY <2>2, <2>3, <3>1, <3>2, <3>3 DEF Counted
  <2>. QED BY <2>4, <2>5 DEF CommandInv
<1>4. CASE Interrupt
  <2>1. UNCHANGED <<tracing, comparing>>
    BY <1>4 DEF Interrupt, Ready, ReadyQuery, options, commandOptions
  <2>2. last' = last => ExitOver(last)' = ExitOver(last)
    BY <2>1 DEF ExitOver
  <2>3. code # "none"
    BY DEF CommandInv, CommandTyped, ExitCode
  <2>4. CommandTyped'
    BY <1>4, <2>3 DEF Interrupt, CommandInv, CommandTyped, commandOptions
  <2>5. Counted'
    BY <1>4, <2>2 DEF Interrupt, CommandInv, Counted, commandOptions
  <2>. QED BY <2>4, <2>5 DEF CommandInv
<1>5. CASE UNCHANGED commandVars /\ UNCHANGED comparing
  <2>1. ExitOver(last)' = ExitOver(last)
    BY <1>5 DEF ExitOver, commandVars, commandOptions
  <2>2. CommandTyped'
    BY <1>5 DEF CommandInv, CommandTyped, commandVars, commandOptions
  <2>3. Counted'
    BY <1>5, <2>1 DEF CommandInv, Counted, commandVars, commandOptions
  <2>. QED BY <2>2, <2>3 DEF CommandInv
<1>6. CASE Work
  <2>1. QueryStep => UNCHANGED comparing
    BY DEF QueryStep, Begin, Answer, Truncated, Silence, Unreachable, TryFails, Malformed, options
  <2>2. UNCHANGED queryVars => UNCHANGED comparing
    BY DEF queryVars, options
  <2>. QED BY <1>6, <2>1, <2>2, <1>5 DEF Work
<1>7. CASE UNCHANGED vars
  BY <1>5, <1>7 DEF vars, queryVars, options
<1>. QED BY <1>1, <1>2, <1>3, <1>4, <1>6, <1>7 DEF Next, Step

\* All of it holds from the first state on.
LEMMA Starts == CommandInit => QueryInv /\ TraceInv /\ CommandInv
<1> SUFFICES ASSUME CommandInit PROVE QueryInv /\ TraceInv /\ CommandInv
  OBVIOUS
<1>1. QueryInv
  BY IdleInv DEF CommandInit, QueryInit
<1>2. TraceInv
  BY TraceStarts DEF CommandInit, TraceInit, Fresh
<1>3. <<>> \in Seq(Result) /\ Len(<<>>) = 0
  OBVIOUS
<1>4. CommandTyped
  BY <1>3, CommandAssumption DEF CommandInit, CommandTyped, ExitCode
<1>5. Counted
  BY <1>3, CommandAssumption DEF CommandInit, Counted
<1>. QED BY <1>1, <1>2, <1>4, <1>5 DEF CommandInv

\* A command takes a step of its call, leaves it alone or starts a fresh one.
LEMMA QueryNext == QueryInv /\ [Next]_vars => QueryInv'
<1> SUFFICES ASSUME QueryInv, [Next]_vars PROVE QueryInv'
  OBVIOUS
<1>1. QueryStep \/ ReadyQuery \/ UNCHANGED queryVars
  BY DEF Next, Step, Work, Collect, EndRound, Sleep, Interrupt, Ready, vars
<1>2. CASE UNCHANGED queryVars
  <2>1. QueryTyped'
    BY <1>2 DEF QueryInv, QueryTyped, QueryTypeOK, queryVars, options
  <2>2. Gathered'
    BY <1>2 DEF QueryInv, Gathered, queryVars, options
  <2>3. Returned'
    BY <1>2 DEF QueryInv, Returned, Consistent, queryVars, options
  <2>. QED BY <2>1, <2>2, <2>3 DEF QueryInv
<1>. QED BY <1>1, <1>2, QueryKeeps, ReadyKeeps

(* What each round is compared by is the signature of the one before it.   *)
Compared ==
  /\ AllShaped(results) /\ AllShaped(last)
  /\ watching /\ rounds > 0 => previous = SigBy(last, tracing, comparing)

\* What is kept of a target has the shape that signatures can tell apart.
LEMMA ResultShape ==
  ASSUME TraceInv, QueryInv, Over, ~Raw
  PROVE  Shaped(ResultOf)
<1>1. CASE ~tracing /\ comparing
  <2>1. ResultOf = outcome /\ pc = "over" /\ outcome.code # "raw"
    BY <1>1 DEF Over, Raw, ResultOf
  <2>2. CASE outcome \in Comparison
    BY <1>1, <2>1, <2>2 DEF Shaped, ShapedBy, QueryInv, Returned
  <2>3. CASE outcome \notin Comparison
    BY <1>1, <2>1, <2>3 DEF Shaped, ShapedBy, QueryInv, Returned
  <2>. QED BY <2>2, <2>3
<1>2. CASE tracing
  <2>1. CASE hop = "bad"
    BY <1>2, <2>1 DEF ResultOf, Shaped, ShapedBy
  <2>2. CASE hop # "bad"
    <3>1. ResultOf = [code |-> "ok", path |-> steps]
      BY <1>2, <2>2 DEF ResultOf
    <3>2. steps \in Seq(Hop) /\ Len(steps) \in Nat
      BY DEF TraceInv, TraceTypeOK, Hop, Response
    <3>3. hop = "over"
      BY <1>2, <2>2 DEF Over, Raw
    <3>4. steps # <<>> /\ \A i \in 1 .. Len(steps) : steps[i].response # "referral" => i = Len(steps)
      BY <3>3 DEF TraceInv, Standing
    <3>5. Straight(steps)
      BY <3>2, <3>4 DEF Straight
    <3>. QED BY <1>2, <3>1, <3>2, <3>5 DEF Path, Shaped, ShapedBy
  <2>. QED BY <2>1, <2>2
<1>3. CASE ~tracing /\ ~comparing
  BY <1>3 DEF Shaped, ShapedBy
<1>. QED BY <1>1, <1>2, <1>3

\* Neither the options nor the outcomes change.
LEMMA ShapesKept ==
  ASSUME UNCHANGED <<tracing, comparing>>
  PROVE  /\ UNCHANGED results => (AllShaped(results) => AllShaped(results)')
         /\ UNCHANGED last => (AllShaped(last) => AllShaped(last)')
         /\ last' = results => (AllShaped(results) => AllShaped(last)')
BY DEF AllShaped, Shaped

LEMMA CompareKeeps ==
  Compared /\ CommandInv /\ TraceInv /\ QueryInv /\ [Next]_vars => Compared'
<1> SUFFICES ASSUME Compared, CommandInv, TraceInv, QueryInv, [Next]_vars PROVE Compared'
  OBVIOUS
<1>0. UNCHANGED <<tracing, comparing, watching>>
  BY DEF Next, Step, Work, TraceStep, QueryStep, Begin, Answer, Truncated, Silence, Unreachable,
         TryFails, Malformed, Collect, EndRound, Sleep, Interrupt, Ready, ReadyQuery,
         vars, queryVars, options, commandVars, commandOptions
<1>1. CASE Collect
  <2>1. UNCHANGED <<last, previous, rounds>> /\ phase = "running" /\ Over
    BY <1>1 DEF Collect
  <2>2. AllShaped(results)'
    <3>1. CASE Raw
      BY <1>0, <1>1, <3>1, ShapesKept DEF Collect, Compared
    <3>2. CASE ~Raw
      <4>1. results' = Append(results, ResultOf) /\ results \in Seq(Result)
        BY <1>1, <3>2 DEF Collect, CommandInv, CommandTyped
      <4>2. Shaped(ResultOf) /\ ResultOf \in Result
        BY <2>1, <3>2, ResultShape, ResultType
      <4> DEFINE r == ResultOf
      <4> HIDE DEF r
      <4>3. \A i \in DOMAIN results' : (i \in DOMAIN results /\ results'[i] = results[i]) \/ results'[i] = r
        BY <4>1, <4>2 DEF r
      <4>4. \A i \in DOMAIN results' : Shaped(results'[i])
        BY <4>2, <4>3 DEF Compared, AllShaped, r
      <4>. QED BY <1>0, <4>4 DEF AllShaped, Shaped
    <3>. QED BY <3>1, <3>2
  <2>. QED BY <1>0, <2>1, <2>2, ShapesKept DEF Compared
<1>2. CASE EndRound
  <2>1. last' = results /\ UNCHANGED results
    BY <1>2 DEF EndRound
  <2>2. watching => previous' = SigBy(results, tracing, comparing)
    BY <1>2 DEF EndRound, Signature, SigBy, Answered
  <2>. QED BY <1>0, <2>1, <2>2, ShapesKept DEF Compared
<1>3. CASE Sleep
  <2>1. results' = <<>> /\ UNCHANGED <<last, previous, rounds>>
    BY <1>3 DEF Sleep
  <2>2. AllShaped(results)'
    BY <2>1 DEF AllShaped
  <2>. QED BY <1>0, <2>1, <2>2, ShapesKept DEF Compared
<1>4. CASE UNCHANGED <<results, last, previous, rounds>>
  BY <1>0, <1>4, ShapesKept DEF Compared
<1>5. Work \/ Interrupt \/ UNCHANGED vars => UNCHANGED <<results, last, previous, rounds>>
  BY DEF Work, Interrupt, vars, commandVars
<1>. QED BY <1>1, <1>2, <1>3, <1>4, <1>5 DEF Next, Step

LEMMA Invariance == Spec => [](QueryInv /\ TraceInv /\ CommandInv /\ Compared)
<1>1. QueryInv /\ CommandInv /\ Compared /\ TraceInv /\ [Next]_vars
      => QueryInv' /\ CommandInv' /\ Compared'
  BY QueryNext, CommandKeeps, CompareKeeps
<1>2. CommandInit => Compared
  BY DEF CommandInit, Compared, AllShaped
<1>. QED BY <1>1, <1>2, Starts, TraceInvariance, PTL DEF Spec

-----------------------------------------------------------------------------
(***************************************************************************)
(* The theorems.                                                           *)
(***************************************************************************)
LEMMA SaidSame == \A s : Said(s) = SaidIn(log, s)
<1>1. \A s : Put(s) = PutIn(log, s)
  BY DEF Put, PutIn
<1>2. \A s : Lost(s) = LostIn(log, s) /\ Got(s) = GotIn(log, s)
  BY <1>1 DEF Lost, LostIn, Got, GotIn
<1>3. \A s : Said(s) = IF \E i \in Lost(s) : log[i].verdict.code = "nxdomain" THEN Failed("nxdomain")
                     ELSE IF Got(s) = {} /\ Lost(s) # {} THEN log[FirstOf(Lost(s))].verdict
                     ELSE Found(Got(s))
  BY DEF Said, FirstOf
<1>. QED BY <1>2, <1>3 DEF SaidIn, NoName

\* The results of a lookup, and the answers of a comparison with its verdict on
\* them, are what the resolvers said to the questions put to them.
THEOREM AnswersHold == Spec => []AnswersTrue
<1>1. QueryInv => LookupTrue
  BY SaidSame DEF QueryInv, Gathered, Returned, LookupTrue
<1>2. QueryInv => ComparisonTrue
  <2> SUFFICES ASSUME QueryInv, pc = "over", comparing, "answers" \in DOMAIN outcome
               PROVE  /\ Len(outcome.answers) = servers
                      /\ outcome.consistent <=>
                           \A s, u \in 1 .. servers :
                             /\ outcome.answers[s].code = outcome.answers[u].code
                             /\ outcome.answers[s].records = outcome.answers[u].records
    BY DEF ComparisonTrue
  <2> DEFINE a == outcome.answers
             sig(i) == <<a[i].code, a[i].records>>
             sigs == {sig(i) : i \in DOMAIN a}
  <2>1. outcome \in Comparison
    <3>1. \A v \in Verdict \cup [code : {"raw"}, records : SUBSET Records] : "answers" \notin DOMAIN v
      BY DEF Verdict
    <3>. QED BY <3>1 DEF QueryInv, QueryTyped
  <2>2. Len(a) = servers /\ outcome.consistent = Consistent(a)
    BY <2>1 DEF QueryInv, Returned
  <2>3. a \in Seq(Verdict) /\ servers \in Nat \ {0} /\ DOMAIN a = 1 .. servers
    BY <2>1, <2>2, QueryBoundAssumption DEF Comparison, QueryInv, QueryTyped, QueryTypeOK
  <2>4. Consistent(a) <=> Cardinality(sigs) = 1
    BY DEF Consistent
  <2>5. IsFiniteSet(sigs)
    <3> DEFINE f == [i \in DOMAIN a |-> sig(i)]
    <3>1. IsFiniteSet(DOMAIN a)
      BY <2>3, FS_Interval
    <3>2. f \in Surjection(DOMAIN a, sigs)
      BY DEF Surjection
    <3> HIDE DEF f, sigs, a
    <3>. QED BY <3>1, <3>2, FS_Surjection
  <2>6. sig(1) \in sigs
    BY <2>3
  <2>7. Cardinality(sigs) = 1 <=> \A s, u \in 1 .. servers : sig(s) = sig(u)
    <3>1. Cardinality(sigs) = 1 <=> \E x : sigs = {x}
      <4> HIDE DEF sigs
      <4>. QED BY <2>5, FS_Singleton
    <3>2. (\E x : sigs = {x}) => \A s, u \in 1 .. servers : sig(s) = sig(u)
      <4>1. \A s \in 1 .. servers : sig(s) \in sigs
        BY <2>3
      <4> HIDE DEF sigs, sig
      <4>. QED BY <4>1
    <3>3. (\A s, u \in 1 .. servers : sig(s) = sig(u)) => sigs = {sig(1)}
      BY <2>3
    <3>. QED BY <3>1, <3>2, <3>3
  <2>. QED BY <2>2, <2>4, <2>7
<1>. QED BY <1>1, <1>2, Invariance, PTL DEF AnswersTrue

\* Every variable of a DNS command keeps its type.
THEOREM DnsTyped == Spec => []TypeOK
<1>1. QueryInv /\ TraceInv /\ CommandInv => TypeOK
  <2> SUFFICES ASSUME QueryInv, TraceInv, CommandInv PROVE TypeOK
    OBVIOUS
  <2>1. \A i \in DOMAIN results : results[i].code \in Code
    <3>1. \A i \in DOMAIN results : results[i] \in Result
      <4>1. results \in Seq(Result)
        BY DEF CommandInv, CommandTyped
      <4>. QED BY <4>1
    <3>. QED BY <3>1, ResultCode
  <2>. QED BY <2>1 DEF QueryInv, QueryTyped, TraceInv, CommandInv, CommandTyped, Counted, TypeOK
<1>. QED BY <1>1, Invariance, PTL

\* Art. IX: the exit code is that of the last completed round, and tells how
\* its targets came out.
THEOREM DnsExits == Spec => []ExitTells
<1>1. CommandInv /\ TypeOK => ExitTells
  <2> SUFFICES ASSUME CommandInv, TypeOK, phase = "exited", exitCode # "ERROR", rounds > 0
               PROVE  Tells(exitCode, last)
    BY DEF ExitTells, Tells
  <2>1. last \in Seq(Result) /\ last # <<>> /\ exitCode = ExitOver(last)
    <3>1. last \in Seq(Result) /\ Len(last) = targets /\ exitCode = ExitOver(last)
      BY DEF CommandInv, CommandTyped, Counted
    <3>2. targets \in 1 .. MaxTargets
      BY DEF CommandInv, CommandTyped
    <3>. QED BY <3>1, <3>2, CommandAssumption
  <2>. QED BY <2>1, ExitTrue
<1>. QED BY <1>1, Invariance, DnsTyped, PTL

\* FR-010 as far as the code goes: a round under --watch is announced as changed
\* exactly if some target of a lookup or comparison came out otherwise, or some
\* trace was made or failed where it was not before, was longer or shorter or
\* ended otherwise; and a round that exits with another code always is.
THEOREM DnsChanges == Spec => ChangeShown
<1> DEFINE Shown ==
      phase = "round" /\ phase' = "sleep" =>
        IF rounds = 0 THEN shown' = "initial"
        ELSE /\ shown' = IF \E i \in DOMAIN results : ToldApart(results[i], last[i])
                           THEN "changed" ELSE "no change"
             /\ shown' = "no change" => code' = code
<1>1. CommandInv /\ Compared /\ [Next]_vars => [Shown]_vars
  <2> SUFFICES ASSUME CommandInv, Compared, Next, phase = "round", phase' = "sleep"
               PROVE  Shown
    OBVIOUS
  <2>1. EndRound
    BY DEF Next, Step, Work, commandVars, Collect, Sleep, Interrupt
  <2>2. watching /\ shown' = IF rounds = 0 THEN "initial"
                             ELSE IF Signature # previous THEN "changed" ELSE "no change"
    BY <2>1 DEF EndRound
  <2>3. CASE rounds = 0
    BY <2>2, <2>3
  <2>4. CASE rounds # 0
    <3>1. rounds > 0
      <4>1. rounds \in 0 .. MaxRounds
        BY DEF CommandInv, CommandTyped
      <4>. QED BY <4>1, <2>4, CommandAssumption
    <3>2. Signature = SigBy(results, tracing, comparing)
      BY DEF Signature, SigBy, Answered
    <3>3. previous = SigBy(last, tracing, comparing)
      BY <2>2, <3>1 DEF Compared
    <3>4. /\ results \in Seq(Result) /\ last \in Seq(Result) /\ Len(results) = Len(last)
          /\ AllShaped(results) /\ AllShaped(last)
      BY <3>1 DEF CommandInv, CommandTyped, Counted, Compared
    <3>5. Signature = previous <=> \A i \in DOMAIN results : ~ToldApart(results[i], last[i])
      BY <3>2, <3>3, <3>4, SignatureTells
    <3>6. code = ExitOver(last)
      BY <3>1 DEF CommandInv, Counted
    <3>7. code' = ExitOver(results)
      BY <2>1 DEF EndRound, RoundExit, ExitOver, ExitBy, GoodBy, Good, Answered
    <3>8. (\A i \in DOMAIN results : ~ToldApart(results[i], last[i])) => code' = code
      BY <3>4, <3>6, <3>7, AlikeExit
    <3>. QED BY <2>2, <2>4, <3>5, <3>8
  <2>. QED BY <2>3, <2>4
<1>. QED BY <1>1, Invariance, PTL DEF Spec, ChangeShown

=============================================================================
