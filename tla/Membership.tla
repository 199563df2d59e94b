----------------------------- MODULE Membership -----------------------------
(***************************************************************************)
(* The group walks of AdClient (src/opskit/ad/api.py): membership and      *)
(* is_member climb memberOf (_expand_nested), members descends member      *)
(* (_expand_members).  Every read is a request to a server that other      *)
(* people change meanwhile, so each read may answer anything; what the     *)
(* walk was told is remembered in seen, and the properties compare the     *)
(* report with it.                                                         *)
(*                                                                         *)
(* A Dn is one spelling of a distinguished name; Key[d] is dn.lower(),     *)
(* which is what the visited set holds.                                    *)
(***************************************************************************)
EXTENDS Naturals, Sequences, Functions

CONSTANTS
  Dn, Key,     \* spellings of names, and the object each of them names
  Lists,       \* values a memberOf or member attribute can have
  Requests,    \* what the client may be asked for
  NoKey

Keys == {Key[d] : d \in Dn}
KeysOf(list) == {Key[d] : d \in Range(list)}

\* The values of one attribute name different objects.
Distinct(list) ==
  \A i, j \in DOMAIN list : i # j => Key[list[i]] # Key[list[j]]

RequestType ==
  [op : {"membership", "is_member", "members"}, effective : BOOLEAN]

ASSUME NameAssumption == Key = [d \in Dn |-> Key[d]] /\ NoKey \notin Keys
ASSUME ListAssumption == Lists \subseteq {l \in Seq(Dn) : Distinct(l)}
ASSUME RequestAssumption == Requests \subseteq RequestType

\* AdError stands for itself and PermissionDenied, what the directory answers;
\* NetError for the refusals, timeouts and TLS failures of the connection.
Failure == {"AdError", "NetError"}
FindError == Failure \cup {"PrincipalNotFound", "PrincipalIsGroup", "AmbiguousPrincipal"}

Class == {"user", "group", "unknown"}
Via == {"direct", "primary", "nested"}
Entry == [dn : Dn, via : Via, class : Class, path : Seq(Dn)]
Item == [dn : Dn, path : Seq(Dn)]

VARIABLES
  request, pc,
  top,        \* the group whose members are asked for
  target,     \* the group is_member asks about
  todo,       \* attribute values that are not dealt with yet
  chain,      \* the groups on the way to the values in todo
  results, visited, queue,
  seen,       \* history: links <<key, dn>> that reads have returned
  asked,      \* history: groups whose links were asked for
  outcome

vars == <<request, pc, top, target, todo, chain, results, visited, queue,
          seen, asked, outcome>>

Phase == {"find", "redirect", "find_group", "primary", "direct", "walk",
          "values", "done", "failed"}

-----------------------------------------------------------------------------
Entries == Range(results)
ResultKeys == {Key[e.dn] : e \in Entries}
Roots == {e \in Entries : e.via # "nested"}
RootKeys == {Key[e.dn] : e \in Roots}

Descends == request.op = "members"
Climbs == request.op \in {"membership", "is_member"}

Init ==
  /\ request \in Requests
  /\ pc = "find"
  /\ top = NoKey /\ target = NoKey
  /\ todo = <<>> /\ chain = <<>>
  /\ results = <<>> /\ queue = <<>> /\ visited = {}
  /\ seen = {} /\ asked = {}
  /\ outcome = "none"

Raise(errors) ==
  /\ outcome' \in errors
  /\ pc' = "failed"
  /\ UNCHANGED <<request, top, target, todo, chain, results, visited, queue,
                 seen, asked>>

(***************************************************************************)
(* _ensure and _find_one: connect if need be and look the named object up. *)
(***************************************************************************)
Find ==
  /\ pc = "find"
  /\ todo' \in Lists
  /\ IF Descends THEN top' \in Keys ELSE top' = top
  /\ pc' = CASE request.op = "is_member" -> "find_group"
             [] request.op = "membership" -> "primary"
             [] request.op = "members" -> "direct"
  /\ UNCHANGED <<request, target, chain, results, visited, queue, seen, asked,
                 outcome>>

FindFails == pc = "find" /\ Raise(Failure \cup {"AmbiguousPrincipal"})

\* _find_by_search matches nothing, _find_by_dn something else.
FindNothing ==
  /\ pc = "find"
  /\ IF Climbs
       THEN pc' = "redirect" /\ UNCHANGED outcome
       ELSE pc' = "failed" /\ outcome' = "PrincipalNotFound"
  /\ UNCHANGED <<request, top, target, todo, chain, results, visited, queue,
                 seen, asked>>

\* Mutant: a failure of the second search ends the lookup without an error.
RedirectSwallows ==
  /\ pc = "redirect"
  /\ Raise({"PrincipalIsGroup", "PrincipalNotFound", "none"})

\* _maybe_redirect_to_group: an AdError of the second search is swallowed.
Redirect ==
  /\ pc = "redirect"
  /\ Raise({"PrincipalIsGroup", "PrincipalNotFound"} \cup {"NetError"})

\* The second lookup of is_member.
FindGroup ==
  /\ pc = "find_group"
  /\ target' \in Keys
  /\ pc' = "primary"
  /\ UNCHANGED <<request, top, todo, chain, results, visited, queue, seen,
                 asked, outcome>>

FindGroupFails ==
  /\ pc = "find_group"
  /\ Raise(Failure \cup {"AmbiguousPrincipal", "PrincipalNotFound"})

-----------------------------------------------------------------------------
Direct(d, via, class) == [dn |-> d, via |-> via, class |-> class, path |-> <<>>]
AsItem(d, path) == [dn |-> d, path |-> path]

\* _direct_groups: the values of memberOf and, if the SID has a match, the
\* primary group, which the server does not list in memberOf.  The walk starts
\* from all of them.
StartClimb(groups) ==
  /\ results' = groups
  /\ visited' = {Key[e.dn] : e \in Range(groups)}
  /\ queue' = [i \in DOMAIN groups |-> AsItem(groups[i].dn, <<>>)]
  /\ todo' = <<>>
  /\ IF request.op = "is_member" \/ request.effective
       THEN pc' = "walk" /\ UNCHANGED outcome
       ELSE pc' = "done" /\ outcome' = "report"
  /\ UNCHANGED <<request, top, target, chain, seen, asked>>

DirectGroups == [i \in DOMAIN todo |-> Direct(todo[i], "direct", "group")]

Primary ==
  /\ pc = "primary"
  /\ \E d \in Dn :
       /\ Key[d] \notin KeysOf(todo)
       /\ StartClimb(Append(DirectGroups, Direct(d, "primary", "group")))

NoPrimary == pc = "primary" /\ StartClimb(DirectGroups)

PrimaryFails == pc = "primary" /\ Raise(Failure)

\* _direct_members(classify=False): nothing is read and nothing expanded.
DirectOnly ==
  /\ pc = "direct" /\ ~request.effective
  /\ results' = [i \in DOMAIN todo |-> Direct(todo[i], "direct", "unknown")]
  /\ todo' = <<>>
  /\ pc' = "done" /\ outcome' = "report"
  /\ UNCHANGED <<request, top, target, chain, visited, queue, seen, asked>>

\* _direct_members: one read per member; _read_entry_or_none makes an AdError
\* an "unknown" member.  Groups are queued in the order they are listed.
Classify ==
  /\ pc = "direct" /\ request.effective /\ todo # <<>>
  /\ \E class \in Class :
       /\ results' = Append(results, Direct(Head(todo), "direct", class))
       /\ queue' = IF class = "group"
                     THEN Append(queue, AsItem(Head(todo), <<>>)) ELSE queue
  /\ todo' = Tail(todo)
  /\ UNCHANGED <<request, pc, top, target, chain, visited, seen, asked, outcome>>

ClassifyFails ==
  pc = "direct" /\ request.effective /\ todo # <<>> /\ Raise({"NetError"})

\* Mutant: the group itself is not marked as visited.
StartDescentUnseeded ==
  /\ pc = "direct" /\ request.effective /\ todo = <<>>
  /\ visited' = ResultKeys
  /\ pc' = "walk"
  /\ UNCHANGED <<request, top, target, todo, chain, results, queue, seen,
                 asked, outcome>>

StartDescent ==
  /\ pc = "direct" /\ request.effective /\ todo = <<>>
  /\ visited' = {top} \cup ResultKeys
  /\ pc' = "walk"
  /\ UNCHANGED <<request, top, target, todo, chain, results, queue, seen,
                 asked, outcome>>

(***************************************************************************)
(* The loop of _expand_nested and _expand_members.                         *)
(***************************************************************************)
\* Mutant: pop() for popleft().
ExpandLast ==
  /\ pc = "walk" /\ queue # <<>>
  /\ LET group == queue[Len(queue)] IN
       /\ todo' \in Lists
       /\ seen' = seen \cup ({Key[group.dn]} \X Range(todo'))
       /\ chain' = Append(group.path, group.dn)
       /\ asked' = asked \cup {Key[group.dn]}
  /\ queue' = SubSeq(queue, 1, Len(queue) - 1)
  /\ pc' = "values"
  /\ UNCHANGED <<request, top, target, results, visited, outcome>>

\* popleft and the read of the group's links.
Expand ==
  /\ pc = "walk" /\ queue # <<>>
  /\ todo' \in Lists
  /\ seen' = seen \cup ({Key[Head(queue).dn]} \X Range(todo'))
  /\ chain' = Append(Head(queue).path, Head(queue).dn)
  /\ asked' = asked \cup {Key[Head(queue).dn]}
  /\ queue' = Tail(queue)
  /\ pc' = "values"
  /\ UNCHANGED <<request, top, target, results, visited, outcome>>

\* Mutant: a group that cannot be read is put back.
ExpandNothingAgain ==
  /\ pc = "walk" /\ queue # <<>>
  /\ asked' = asked \cup {Key[Head(queue).dn]}
  /\ queue' = Append(Tail(queue), Head(queue))
  /\ UNCHANGED <<request, pc, top, target, todo, chain, results, visited, seen,
                 outcome>>

\* No such object, or, going down, an AdError: the group is passed over.
ExpandNothing ==
  /\ pc = "walk" /\ queue # <<>>
  /\ asked' = asked \cup {Key[Head(queue).dn]}
  /\ queue' = Tail(queue)
  /\ UNCHANGED <<request, pc, top, target, todo, chain, results, visited, seen,
                 outcome>>

ExpandFails ==
  /\ pc = "walk" /\ queue # <<>>
  /\ Raise(IF Descends THEN {"NetError"} ELSE Failure)

Skip ==
  /\ pc = "values" /\ todo # <<>> /\ Key[Head(todo)] \in visited
  /\ todo' = Tail(todo)
  /\ UNCHANGED <<request, pc, top, target, chain, results, visited, queue,
                 seen, asked, outcome>>

\* A group up the tree is a group; a member is read to learn what it is.
Classes == IF Descends THEN Class ELSE {"group"}

\* Mutant: a key is not marked as visited when it is met.
AddUnmarked ==
  /\ pc = "values" /\ todo # <<>> /\ Key[Head(todo)] \notin visited
  /\ \E class \in Classes :
       /\ results' = Append(results, [dn |-> Head(todo), via |-> "nested",
                                      class |-> class, path |-> chain])
       /\ queue' = IF class = "group"
                     THEN Append(queue, AsItem(Head(todo), chain)) ELSE queue
  /\ todo' = Tail(todo)
  /\ UNCHANGED <<request, pc, top, target, chain, visited, seen, asked, outcome>>

\* Mutant: the chain handed on is that of the group, without the group.
AddShortChain ==
  /\ pc = "values" /\ todo # <<>> /\ Key[Head(todo)] \notin visited
  /\ \E class \in Classes :
       /\ results' = Append(results, [dn |-> Head(todo), via |-> "nested",
                                      class |-> class, path |-> chain])
       /\ queue' = IF class = "group"
                     THEN Append(queue, AsItem(Head(todo), <<>>)) ELSE queue
  /\ visited' = visited \cup {Key[Head(todo)]}
  /\ todo' = Tail(todo)
  /\ UNCHANGED <<request, pc, top, target, chain, seen, asked, outcome>>

Add ==
  /\ pc = "values" /\ todo # <<>> /\ Key[Head(todo)] \notin visited
  /\ \E class \in Classes :
       /\ results' = Append(results, [dn |-> Head(todo), via |-> "nested",
                                      class |-> class, path |-> chain])
       /\ queue' = IF class = "group"
                     THEN Append(queue, AsItem(Head(todo), chain)) ELSE queue
  /\ visited' = visited \cup {Key[Head(todo)]}
  /\ todo' = Tail(todo)
  /\ UNCHANGED <<request, pc, top, target, chain, seen, asked, outcome>>

AddFails ==
  /\ pc = "values" /\ todo # <<>> /\ Key[Head(todo)] \notin visited
  /\ Descends /\ Raise({"NetError"})

ValuesEnd ==
  /\ pc = "values" /\ todo = <<>>
  /\ pc' = "walk"
  /\ UNCHANGED <<request, top, target, todo, chain, results, visited, queue,
                 seen, asked, outcome>>

\* The queue is empty: the report, or the verdict of is_member.
Report ==
  /\ pc = "walk" /\ queue = <<>>
  /\ pc' = "done"
  /\ outcome' = CASE request.op # "is_member" -> "report"
                  [] request.op = "is_member" /\ target \in ResultKeys -> "member"
                  [] request.op = "is_member" /\ target \notin ResultKeys -> "not_member"
  /\ UNCHANGED <<request, top, target, todo, chain, results, visited, queue,
                 seen, asked>>

-----------------------------------------------------------------------------
Lookup == Find \/ FindFails \/ FindNothing \/ Redirect \/ FindGroup \/ FindGroupFails
Start == Primary \/ NoPrimary \/ PrimaryFails \/ DirectOnly \/ Classify
         \/ ClassifyFails \/ StartDescent
Walk == Expand \/ ExpandNothing \/ ExpandFails \/ Skip \/ Add \/ AddFails
        \/ ValuesEnd \/ Report

Next == Lookup \/ Start \/ Walk

Spec == Init /\ [][Next]_vars

\* The walk is one loop in one thread and every read ends (receive_timeout).
FairSpec == Spec /\ WF_vars(Next)

-----------------------------------------------------------------------------
(***************************************************************************)
(* Properties                                                              *)
(***************************************************************************)
\* Types; an outcome is there exactly when the operation is over.
TypeOK ==
  /\ request \in Requests /\ pc \in Phase
  /\ top \in Keys \cup {NoKey} /\ target \in Keys \cup {NoKey}
  /\ todo \in Seq(Dn) /\ chain \in Seq(Dn)
  /\ results \in Seq(Entry) /\ queue \in Seq(Item) /\ visited \subseteq Keys \cup {NoKey}
  /\ seen \subseteq Keys \X Dn /\ asked \subseteq Keys
  /\ outcome \in {"none", "report", "member", "not_member"} \cup FindError
  /\ outcome = "none" <=> pc \notin {"done", "failed"}

\* specs/004-ad-diagnostics/spec.md FR-010, specs/008-ad-enhancements FR-006:
\* each group or member is reported once, however many ways lead to it.
Once ==
  \A i, j \in DOMAIN results :
    i # j => Key[results[i].dn] # Key[results[j].dn]

\* Link(g, d): a read of the group g has returned the name d.
Link(g, d) == <<Key[g], d>> \in seen

\* FR-011, FR-005: the chain of a nested entry starts at a direct one and every
\* step of it, the last one to the entry included, is a link that was read.
ChainsReal ==
  \A e \in Entries :
    IF e.via = "nested"
      THEN /\ e.path # <<>>
           /\ \E r \in Roots : r.dn = e.path[1]
           /\ \A i \in 1..Len(e.path) - 1 : Link(e.path[i], e.path[i + 1])
           /\ Link(e.path[Len(e.path)], e.dn)
      ELSE e.path = <<>>

\* The docstrings of _expand_nested and _expand_members: each entry is reported
\* at its shortest chain, that is, no link that was read leads to an entry in
\* fewer steps than the chain reported for it.
NoShortcut ==
  pc = "done" =>
    \A g, e \in Entries, d \in Dn :
      Link(g.dn, d) /\ Key[d] = Key[e.dn] => Len(e.path) <= Len(g.path) + 1

\* Every entry of a report is there once, for a reason, and for the shortest one.
EntriesTrue == TypeOK /\ Once /\ ChainsReal /\ NoShortcut

Closed(S) == \A link \in seen : link[1] \in S => Key[link[2]] \in S

\* What the direct entries lead to over the links that were read.
Reached ==
  {k \in Keys : \A S \in SUBSET Keys : RootKeys \subseteq S /\ Closed(S) => k \in S}

\* SC-005: a report is exactly the transitive closure of the direct entries,
\* without the group it is about unless that is its own member; every group in
\* it was asked for its links; and the verdict of is_member agrees with it.
ReportIsClosure ==
  pc = "done" /\ (request.effective \/ request.op = "is_member") =>
    /\ ResultKeys = (Reached \ {top}) \cup RootKeys
    /\ \A e \in Entries : e.class = "group" => Key[e.dn] \in asked
    /\ request.op = "is_member" => (outcome = "member" <=> target \in Reached)

\* FR-010, FR-006: the walk ends, also when groups contain each other.
Ends == <>(pc \in {"done", "failed"})
=============================================================================
