----------------------------- MODULE MCTlsCheck -----------------------------
(* Instances of TlsCommand: what is asked about and what servers present.    *)
(* Names and trust are varied in turn, not together: the findings about one *)
(* do not depend on the other, but for the warning, which both reach.       *)
EXTENDS TlsCommand

Dns(name) == [kind |-> "dns", name |-> name]
Ip(name)  == [kind |-> "ip", name |-> name]

MCWanted == {Dns(<<"a", "b">>), Dns(<<"w", "a", "b">>), Ip(<<"i">>)}

Sans == {Dns(<<"*", "b">>), Dns(<<"a", "b">>), Dns(<<"*", "a", "b">>), Dns(<<"*">>), Ip(<<"i">>)}

Leaf(sans, d, self) == [sans |-> sans, days |-> d, selfSigned |-> self]

Named == {[leaf |-> Leaf(sans, d, FALSE), errors |-> <<>>, chainLength |-> n, version |-> "TLSv1.3"] :
            sans \in {s \in SUBSET Sans : Cardinality(s) <= 2}, d \in {0, 2}, n \in 0 .. 2}

\* What a handshake can record: nothing, one error, an error behind another.
Errors == {<<>>} \cup {<<e>> : e \in Errno} \cup {<<"expired", e>> : e \in Errno}
          \cup {<<"other", "self_signed_in_chain">>}

Trusted == {[leaf |-> Leaf({Dns(<<"a", "b">>)}, d, self), errors |-> errors, chainLength |-> n,
             version |-> "TLSv1.3"] :
              d \in -1 .. 2, self \in BOOLEAN, errors \in Errors, n \in 1 .. 2}

\* A leaf that has expired is recorded as expired.
MCPresented ==
  Named \cup {p \in Trusted : p.leaf.days < 0 => Contains(p.errors, "expired")}
  \cup {[p EXCEPT !.version = "TLSv1.2"] : p \in {q \in Trusted : q.leaf.days = 2}}

-----------------------------------------------------------------------------
T(host) == [host |-> host, parsed |-> TRUE]

\* Whatever a server presents, to a program and to the command.
Checks ==
  {[program |-> TRUE, targets |-> <<T(w)>>, sni |-> NoName, warnDays |-> d, retries |-> 0,
    strict |-> s, watch |-> FALSE, accepted |-> TRUE, offers |-> "any"] :
     w \in MCWanted, d \in {0, 1}, s \in BOOLEAN}

Ours == Leaf({Dns(<<"a", "b">>)}, 2, FALSE)

Offer(leaf, errors, version) ==
  [leaf |-> leaf, errors |-> errors, chainLength |-> 1, version |-> version]

Do(targets, name, tries, case) ==
  [program |-> FALSE, targets |-> targets, sni |-> name, warnDays |-> 1, retries |-> tries,
   strict |-> FALSE, watch |-> FALSE, accepted |-> TRUE, offers |-> case]

Mine == Offer(Ours, <<>>, "TLSv1.3")

Pair == <<T(Dns(<<"a", "b">>)), T(Dns(<<"w", "a", "b">>))>>

\* Two targets, one of which the certificate does not cover, or is no target.
Batches ==
  {Do(Pair, name, 0, "one") : name \in {NoName, Dns(<<"a", "b">>)}}
  \cup {Do(<<[host |-> Ip(<<"i">>), parsed |-> FALSE], T(Dns(<<"a", "b">>))>>, NoName, 1, "one"),
        [Do(<<>>, NoName, 0, "one") EXCEPT !.accepted = FALSE]}

\* A certificate that is renewed, distrusted or comes over another version.
MCOffers ==
  [o \in {"any", "one", "changing"} |->
     CASE o = "any" -> MCPresented
       [] o = "one" -> {Mine}
       [] o = "changing" ->
            {Mine, Offer(Ours, <<>>, "TLSv1.2"), Offer(Ours, <<"other">>, "TLSv1.3"),
             Offer([Ours EXCEPT !.sans = @ \cup {Dns(<<"*">>)}], <<>>, "TLSv1.3")}]

Watched ==
  {[Do(<<T(Dns(<<"a", "b">>))>>, NoName, 0, "changing") EXCEPT !.watch = TRUE]}

MCCommand == Checks \cup Batches \cup Watched
=============================================================================
