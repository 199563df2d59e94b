----------------------------- MODULE MCNetProbe -----------------------------
(***************************************************************************)
(* Instances of NetCommand: every probe of one target, and checks of two   *)
(* targets that take different routes, or of one again and again.          *)
(***************************************************************************)
EXTENDS NetCommand

MCHost == {<<"a">>, <<"w", "a">>, <<"b">>}

T(host) == [host |-> host, parsed |-> TRUE]

Do(name, targets, tries) ==
  [name |-> name, targets |-> targets, udp |-> FALSE, retries |-> tries, count |-> 1,
   watch |-> FALSE, accepted |-> TRUE, proxy |-> "none", direct |-> FALSE,
   env |-> <<"none", "none">>, noProxy |-> {}, noProxyEnv |-> {}, noProxyGiven |-> FALSE]

Tunnel(c) == [c EXCEPT !.proxy = "good"]
Udp(c) == [c EXCEPT !.udp = TRUE]

Probes ==
  {[c EXCEPT !.count = n] : n \in 1 .. MaxCount,
     c \in UNION {{p, Udp(p), Tunnel(p), Udp(Tunnel(p))} :
                   p \in {Do("probe", <<T(<<"b">>)>>, r) : r \in 0 .. MaxRetries}}}

Pair == <<T(<<"w", "a">>), T(<<"b">>)>>

\* Every source of a proxy and of exemptions, over one target of each kind.
Routes ==
  {[Do("check", Pair, 0) EXCEPT !.proxy = p, !.env = e, !.noProxyEnv = x, !.direct = d] :
     p \in Given, d \in BOOLEAN, e \in {<<"none", "none">>, <<"none", "good">>, <<"good", "bad">>},
     x \in {{}, {<<"a">>}}}
  \cup {[Tunnel(Do("check", Pair, 0)) EXCEPT !.noProxyEnv = {<<"*">>},
           !.noProxy = {<<"b">>}, !.noProxyGiven = g] : g \in BOOLEAN}

Batches ==
  {Do("check", Pair, 1), Udp(Do("check", Pair, 1)), Tunnel(Do("check", Pair, 1)),
   [Udp(Tunnel(Do("check", Pair, 1))) EXCEPT !.noProxyEnv = {<<"b">>}],
   Do("check", <<[host |-> <<"a">>, parsed |-> FALSE], T(<<"b">>)>>, 1),
   [Do("check", <<>>, 0) EXCEPT !.accepted = FALSE]}

Watches ==
  {[c EXCEPT !.watch = TRUE] :
     c \in {Do("check", <<T(<<"b">>)>>, 0), Udp(Do("check", <<T(<<"b">>)>>, 0)),
            Tunnel(Do("check", <<T(<<"b">>)>>, 0))}}

MCCommand == Probes \cup Routes \cup Batches \cup Watches
=============================================================================
