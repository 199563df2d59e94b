----------------------------- MODULE MCAdCommand -----------------------------
(***************************************************************************)
(* Two servers; answers that list one of them twice, in and against the    *)
(* order of preference, by priority and by weight.  Every configuration    *)
(* for a Python caller, and commands with some of them.                    *)
(***************************************************************************)
EXTENDS AdCommand

CONSTANTS dc1, dc2

Srv(host, priority, weight) == [host |-> host, priority |-> priority, weight |-> weight]

MCAnswers ==
  {<<Srv(dc1, 0, 10), Srv(dc2, 0, 10)>>,
   <<Srv(dc1, 0, 10), Srv(dc2, 0, 20)>>,
   <<Srv(dc1, 10, 0), Srv(dc2, 5, 0), Srv(dc1, 0, 0)>>,
   <<Srv(dc1, 1, 0)>>}

Ldaps == [security |-> "ldaps", discover |-> FALSE, password |-> TRUE, cleartext |-> FALSE]
Found == [security |-> "starttls", discover |-> TRUE, password |-> TRUE, cleartext |-> FALSE]

Do(name, names, conf) ==
  [name |-> name, names |-> names, watch |-> FALSE, accepted |-> TRUE, config |-> conf,
   accounts |-> {}, visible |-> Attribute]

Fine == [disabled |-> FALSE, lockout |-> "none", neverExpires |-> FALSE,
         passwordEnds |-> "future", mustChange |-> FALSE, accountEnds |-> "max"]
LockedOut == [Fine EXCEPT !.lockout = "active"]
Forced == [Fine EXCEPT !.passwordEnds = "past"]

\* The end of the account depends on no other attribute.
Endless == {a \in Account : a.accountEnds = "max"}

MCCommand ==
  {Do("library", 1, c) : c \in Config}
  \cup {Do(n, 1, c) : n \in {"check", "groups", "member"}, c \in {Ldaps, Found}}
  \cup {Do("members", 2, Ldaps), Do("show", 2, Found)}
  \cup {[Do("show", 1, Ldaps) EXCEPT !.accepted = FALSE]}
  \cup {[Do("user", 1, Ldaps) EXCEPT !.accounts = Endless, !.visible = v \cup {"accountExpires"}] :
          v \in SUBSET Attribute}
  \cup {[Do("user", 1, Ldaps) EXCEPT !.accounts = {[Fine EXCEPT !.accountEnds = e] : e \in Filetime},
          !.visible = Attribute \ v] : v \in {{}, {"accountExpires"}}}
  \cup {[Do("user", 2, Ldaps) EXCEPT !.accounts = {Fine, LockedOut}],
        [Do("user", 1, Ldaps) EXCEPT !.watch = TRUE,
          !.accounts = {Fine, Forced, [Forced EXCEPT !.mustChange = TRUE]}]}
=============================================================================
