----------------------------- MODULE WalkProofs -----------------------------
(***************************************************************************)
(* Proofs about Membership, for every set of names, every attribute value  *)
(* and every answer of the server.  TypeOK and the phase invariant Shape   *)
(* come first; Apart (no entry twice), Traced (where entries and queue     *)
(* items come from), Covered (what is still to be visited), Sound (the     *)
(* report has nothing extra) and Levelled (the queue is sorted by the      *)
(* length of the chains) build on them.                                    *)
(*                                                                         *)
(* Then DirSize, for every tree of names and whatever becomes of the files *)
(* in it during the walk: Places (each name is met once, beneath a         *)
(* directory that was visited), Reach (its depth), Accounted (no entry is  *)
(* lost from sight), Sums and Marks (what each directory has gathered      *)
(* while the sizes are rolled up) and Outcome (the result stays true once  *)
(* it is there).                                                           *)
(***************************************************************************)
EXTENDS Membership, DirSize, FiniteSetTheorems, ExitCodeProofs, TLAPS

USE DEF Range

-----------------------------------------------------------------------------
(***************************************************************************)
(* Sequences.                                                              *)
(***************************************************************************)
\* The first element of a sequence and the rest of it.
LEMMA HeadTail ==
  ASSUME NEW S, NEW s \in Seq(S), s # <<>>
  PROVE  /\ Head(s) \in S /\ Tail(s) \in Seq(S)
         /\ Range(s) = {Head(s)} \cup Range(Tail(s))
<1>1. Len(s) \in Nat /\ Len(s) >= 1 /\ Head(s) = s[1]
  OBVIOUS
<1>2. /\ Tail(s) \in Seq(S) /\ Len(Tail(s)) = Len(s) - 1
      /\ \A i \in 1..Len(s) - 1 : Tail(s)[i] = s[i + 1]
  OBVIOUS
<1>3. \A x \in Range(s) : x = Head(s) \/ x \in Range(Tail(s))
  <2>1. TAKE x \in Range(s)
  <2>2. PICK i \in 1..Len(s) : x = s[i]
    OBVIOUS
  <2>3. CASE i = 1
    BY <1>1, <2>2, <2>3
  <2>4. CASE i # 1
    <3>1. i - 1 \in 1..Len(s) - 1 /\ Tail(s)[i - 1] = s[i]
      BY <1>1, <1>2, <2>4
    <3>2. DOMAIN Tail(s) = 1..Len(s) - 1
      BY <1>2
    <3> QED BY <2>2, <3>1, <3>2
  <2> QED BY <2>3, <2>4
<1>4. \A x \in Range(Tail(s)) : x \in Range(s)
  <2>1. TAKE x \in Range(Tail(s))
  <2>2. PICK i \in 1..Len(s) - 1 : x = Tail(s)[i]
    BY <1>2
  <2> QED BY <1>1, <1>2, <2>2
<1>5. Head(s) \in S /\ Head(s) \in Range(s)
  BY <1>1
<1> DEFINE elements == Range(s)
           others == Range(Tail(s))
<1>6. elements = {Head(s)} \cup others
  <2>1. (\A x \in elements : x = Head(s) \/ x \in others) /\ (\A x \in others : x \in elements)
        /\ Head(s) \in elements
    BY <1>3, <1>4, <1>5
  <2> HIDE DEF elements, others
  <2> QED BY <2>1
<1> QED BY <1>2, <1>5, <1>6

\* An element is the first one or comes after it.
LEMMA HeadOrTail ==
  ASSUME NEW S, NEW s \in Seq(S), s # <<>>, NEW x \in Range(s)
  PROVE  x = Head(s) \/ x \in Range(Tail(s))
<1> DEFINE elements == Range(s)
           others == Range(Tail(s))
<1>1. elements = {Head(s)} \cup others
  BY HeadTail
<1>2. x \in elements
  OBVIOUS
<1> HIDE DEF elements, others
<1>3. x = Head(s) \/ x \in others
  BY <1>1, <1>2
<1> QED BY <1>3 DEF others

\* What Append adds.
LEMMA AppendRange ==
  ASSUME NEW S, NEW s \in Seq(S), NEW x \in S
  PROVE  /\ Append(s, x) \in Seq(S)
         /\ Range(Append(s, x)) = Range(s) \cup {x}
<1>1. /\ Append(s, x) \in Seq(S) /\ Len(Append(s, x)) = Len(s) + 1
      /\ \A i \in 1..Len(s) : Append(s, x)[i] = s[i]
      /\ Append(s, x)[Len(s) + 1] = x
  OBVIOUS
<1>2. \A y \in Range(Append(s, x)) : y \in Range(s) \cup {x}
  <2>1. TAKE y \in Range(Append(s, x))
  <2>2. PICK i \in 1..Len(s) + 1 : y = Append(s, x)[i]
    BY <1>1
  <2> QED BY <1>1, <2>2
<1>3. \A y \in Range(s) \cup {x} : y \in Range(Append(s, x))
  <2>1. DOMAIN Append(s, x) = 1..Len(s) + 1
    BY <1>1
  <2> QED BY <1>1, <2>1
<1> QED BY <1>1, <1>2, <1>3

\* A sequence is a function on its positions, and such a function is one.
LEMMA SeqFun ==
  ASSUME NEW S
  PROVE  /\ \A s \in Seq(S) : /\ Len(s) \in Nat /\ DOMAIN s = 1..Len(s)
                               /\ Range(s) \subseteq S
         /\ \A n \in Nat : \A f \in [1..n -> S] : f \in Seq(S) /\ Len(f) = n
         /\ <<>> \in Seq(S)
OBVIOUS

-----------------------------------------------------------------------------
(***************************************************************************)
(* Type correctness.                                                       *)
(***************************************************************************)
LEMMA KeyType == \A d \in Dn : Key[d] \in Keys
BY DEF Keys

\* An attribute value is a list of different names.
LEMMA ListType == \A l \in Lists : l \in Seq(Dn) /\ Distinct(l)
BY ListAssumption

\* Every step keeps the types.
LEMMA TypeStep ==
  ASSUME TypeOK, Next
  PROVE  TypeOK'
<1> USE DEF Failure, FindError, Phase
<1>1. CASE Lookup
  <2>1. CASE Find
    BY <2>1, ListType, RequestAssumption DEF TypeOK, Find, RequestType, Descends
  <2>2. CASE FindFails
    BY <2>2 DEF TypeOK, FindFails, Raise
  <2>3. CASE FindNothing
    BY <2>3 DEF TypeOK, FindNothing
  <2>4. CASE Redirect
    BY <2>4 DEF TypeOK, Redirect, Raise
  <2>5. CASE FindGroup
    BY <2>5 DEF TypeOK, FindGroup
  <2>6. CASE FindGroupFails
    BY <2>6 DEF TypeOK, FindGroupFails, Raise
  <2> QED BY <1>1, <2>1, <2>2, <2>3, <2>4, <2>5, <2>6 DEF Lookup
<1>2. CASE Start
  <2>0. /\ DirectGroups \in Seq(Entry) /\ DOMAIN DirectGroups = DOMAIN todo
    <3>1. todo \in Seq(Dn) /\ Len(todo) \in Nat /\ DOMAIN todo = 1..Len(todo)
      BY SeqFun DEF TypeOK
    <3>2. \A i \in 1..Len(todo) : Direct(todo[i], "direct", "group") \in Entry
      BY <3>1 DEF Direct, Entry, Via, Class
    <3>3. DirectGroups \in [1..Len(todo) -> Entry]
      BY <3>1, <3>2 DEF DirectGroups
    <3> QED BY <3>1, <3>3, SeqFun
  <2>1. ASSUME NEW g \in Seq(Entry), pc = "primary", StartClimb(g)
        PROVE  TypeOK'
    <3>1. [i \in DOMAIN g |-> AsItem(g[i].dn, <<>>)] \in Seq(Item)
      <4>1. Len(g) \in Nat /\ DOMAIN g = 1..Len(g) /\ \A i \in 1..Len(g) : g[i] \in Entry
        BY SeqFun
      <4>2. \A i \in 1..Len(g) : AsItem(g[i].dn, <<>>) \in Item
        BY <4>1, SeqFun DEF AsItem, Item, Entry
      <4> QED BY <4>1, <4>2, SeqFun
    <3>2. \A e \in Range(g) : Key[e.dn] \in Keys
      <4>1. Range(g) \subseteq Entry
        BY SeqFun
      <4> QED BY <4>1, KeyType DEF Entry
    <3> QED BY <2>1, <3>1, <3>2 DEF TypeOK, StartClimb
  <2>2. CASE Primary
    <3>1. PICK d \in Dn : StartClimb(Append(DirectGroups, Direct(d, "primary", "group")))
      BY <2>2 DEF Primary
    <3>2. Direct(d, "primary", "group") \in Entry
      BY DEF Direct, Entry, Via, Class
    <3>3. Append(DirectGroups, Direct(d, "primary", "group")) \in Seq(Entry)
      BY <2>0, <3>2, AppendRange
    <3> QED BY <2>1, <2>2, <3>1, <3>3 DEF Primary
  <2>3. CASE NoPrimary
    BY <2>0, <2>1, <2>3 DEF NoPrimary
  <2>4. CASE PrimaryFails
    BY <2>4 DEF TypeOK, PrimaryFails, Raise
  <2>5. CASE DirectOnly
    <3>1. [i \in DOMAIN todo |-> Direct(todo[i], "direct", "unknown")] \in Seq(Entry)
      <4>1. todo \in Seq(Dn) /\ Len(todo) \in Nat /\ DOMAIN todo = 1..Len(todo)
        BY SeqFun DEF TypeOK
      <4>2. \A i \in 1..Len(todo) : Direct(todo[i], "direct", "unknown") \in Entry
        BY <4>1 DEF Direct, Entry, Via, Class
      <4> QED BY <4>1, <4>2, SeqFun
    <3> QED BY <2>5, <3>1 DEF TypeOK, DirectOnly
  <2>6. CASE Classify
    <3>1. Head(todo) \in Dn /\ Tail(todo) \in Seq(Dn)
      BY <2>6, HeadTail DEF TypeOK, Classify
    <3>2. \A class \in Class : Direct(Head(todo), "direct", class) \in Entry
      BY <3>1 DEF Direct, Entry, Via
    <3>3. AsItem(Head(todo), <<>>) \in Item
      BY <3>1, SeqFun DEF AsItem, Item
    <3> QED BY <2>6, <3>1, <3>2, <3>3, AppendRange DEF TypeOK, Classify
  <2>7. CASE ClassifyFails
    BY <2>7 DEF TypeOK, ClassifyFails, Raise
  <2>8. CASE StartDescent
    <3>1. ResultKeys \subseteq Keys
      <4>1. Range(results) \subseteq Entry
        BY SeqFun DEF TypeOK
      <4> QED BY <4>1, KeyType DEF ResultKeys, Entries, Entry
    <3>2. top \in Keys \/ top = NoKey
      BY DEF TypeOK
    <3> QED BY <2>8, <3>1, <3>2 DEF TypeOK, StartDescent
  <2> QED BY <1>2, <2>2, <2>3, <2>4, <2>5, <2>6, <2>7, <2>8 DEF Start
<1>3. CASE Walk
  <2>1. CASE Expand
    <3>1. Head(queue) \in Item /\ Tail(queue) \in Seq(Item)
      BY <2>1, HeadTail DEF TypeOK, Expand
    <3>2. /\ Append(Head(queue).path, Head(queue).dn) \in Seq(Dn)
          /\ Key[Head(queue).dn] \in Keys
      BY <3>1, KeyType DEF Item
    <3>3. todo' \in Seq(Dn) /\ Range(todo') \subseteq Dn
      BY <2>1, ListType DEF Expand
    <3> QED BY <2>1, <3>1, <3>2, <3>3 DEF TypeOK, Expand
  <2>2. CASE ExpandNothing
    <3>1. Head(queue) \in Item /\ Tail(queue) \in Seq(Item)
      BY <2>2, HeadTail DEF TypeOK, ExpandNothing
    <3>2. Key[Head(queue).dn] \in Keys
      BY <3>1, KeyType DEF Item
    <3> QED BY <2>2, <3>1, <3>2 DEF TypeOK, ExpandNothing
  <2>3. CASE ExpandFails
    BY <2>3 DEF TypeOK, ExpandFails, Raise
  <2>4. CASE Skip
    <3>1. Tail(todo) \in Seq(Dn)
      BY <2>4, HeadTail DEF TypeOK, Skip
    <3> QED BY <2>4, <3>1 DEF TypeOK, Skip
  <2>5. CASE Add
    <3>1. Head(todo) \in Dn /\ Tail(todo) \in Seq(Dn)
      BY <2>5, HeadTail DEF TypeOK, Add
    <3>2. PICK class \in Classes :
            /\ results' = Append(results, [dn |-> Head(todo), via |-> "nested",
                                           class |-> class, path |-> chain])
            /\ queue' = IF class = "group"
                          THEN Append(queue, AsItem(Head(todo), chain)) ELSE queue
      BY <2>5 DEF Add
    <3>3. /\ [dn |-> Head(todo), via |-> "nested", class |-> class, path |-> chain] \in Entry
          /\ AsItem(Head(todo), chain) \in Item
      BY <3>1 DEF AsItem, Item, Entry, Via, TypeOK, Classes, Class
    <3>4. results' \in Seq(Entry) /\ queue' \in Seq(Item)
      BY <3>2, <3>3, AppendRange DEF TypeOK
    <3>5. Key[Head(todo)] \in Keys
      BY <3>1, KeyType
    <3> QED BY <2>5, <3>1, <3>4, <3>5 DEF TypeOK, Add
  <2>6. CASE AddFails
    BY <2>6 DEF TypeOK, AddFails, Raise
  <2>7. CASE ValuesEnd
    BY <2>7 DEF TypeOK, ValuesEnd
  <2>8. CASE Report
    <3>1. outcome' \in {"report", "member", "not_member"}
      BY <2>8 DEF Report
    <3> QED BY <2>8, <3>1 DEF TypeOK, Report
  <2> QED BY <1>3, <2>1, <2>2, <2>3, <2>4, <2>5, <2>6, <2>7, <2>8 DEF Walk
<1> QED BY <1>1, <1>2, <1>3 DEF Next

\* Every variable keeps its type and an outcome marks the end of an operation.
THEOREM WellTyped == Spec => []TypeOK
<1>1. Init => TypeOK
  BY DEF Init, TypeOK, Phase
<1>2. TypeOK /\ UNCHANGED vars => TypeOK'
  BY DEF TypeOK, vars
<1> QED BY <1>1, <1>2, TypeStep, PTL DEF Spec

-----------------------------------------------------------------------------
(***************************************************************************)
(* Phases.                                                                 *)
(***************************************************************************)
Nested == request.op = "is_member" \/ request.effective

Shape ==
  /\ pc \in {"find", "redirect", "find_group", "primary", "direct"} =>
       seen = {} /\ asked = {}
  /\ pc \in {"find", "redirect", "find_group", "primary"} =>
       results = <<>> /\ queue = <<>> /\ top = NoKey
  /\ pc \in {"find_group", "primary", "direct"} => Distinct(todo)
  /\ pc \in {"find_group", "primary"} => ~Descends
  /\ pc = "direct" => Descends
  /\ pc = "direct" /\ ~request.effective => results = <<>> /\ queue = <<>>
  /\ pc \in {"walk", "values"} => Nested
  /\ pc = "done" => queue = <<>> \/ ~Nested
  /\ pc = "done" /\ ~Nested => seen = {}
  /\ ~Descends => top = NoKey

\* What each phase has and has not begun.
LEMMA ShapeStep ==
  ASSUME TypeOK, Shape, Next
  PROVE  Shape'
<1> USE DEF Descends, Nested
<1>1. CASE Lookup
  BY <1>1, ListType, RequestAssumption DEF TypeOK, Shape, Lookup, Find, FindFails, FindNothing, Redirect,
     FindGroup, FindGroupFails, Raise, RequestType, Climbs
<1>2. CASE Start
  <2>1. CASE Primary \/ NoPrimary
    <3>1. PICK g : StartClimb(g) /\ pc = "primary"
      BY <2>1 DEF Primary, NoPrimary
    <3> QED BY <3>1 DEF Shape, StartClimb
  <2>2. CASE PrimaryFails \/ ClassifyFails
    BY <2>2 DEF Shape, PrimaryFails, ClassifyFails, Raise
  <2>3. CASE DirectOnly
    BY <2>3 DEF TypeOK, Shape, DirectOnly
  <2>4. CASE Classify
    <3>1. Distinct(Tail(todo))
      <4>1. Distinct(todo) /\ todo \in Seq(Dn) /\ todo # <<>>
        BY <2>4 DEF TypeOK, Shape, Classify
      <4>2. /\ Len(todo) \in Nat /\ DOMAIN todo = 1..Len(todo)
            /\ DOMAIN Tail(todo) = 1..Len(todo) - 1
            /\ \A i \in 1..Len(todo) - 1 : Tail(todo)[i] = todo[i + 1]
        BY <4>1
      <4> QED BY <4>1, <4>2 DEF Distinct
    <3> QED BY <2>4, <3>1 DEF Shape, Classify
  <2>5. CASE StartDescent
    BY <2>5 DEF Shape, StartDescent
  <2> QED BY <1>2, <2>1, <2>2, <2>3, <2>4, <2>5 DEF Start
<1>3. CASE Walk
  <2>1. CASE Expand \/ ExpandNothing
    BY <2>1 DEF Shape, Expand, ExpandNothing
  <2>2. CASE ExpandFails \/ AddFails
    BY <2>2 DEF Shape, ExpandFails, AddFails, Raise
  <2>3. CASE Skip \/ ValuesEnd
    BY <2>3 DEF Shape, Skip, ValuesEnd
  <2>4. CASE Add
    BY <2>4 DEF Shape, Add
  <2>5. CASE Report
    BY <2>5 DEF Shape, Report
  <2> QED BY <1>3, <2>1, <2>2, <2>3, <2>4, <2>5 DEF Walk
<1> QED BY <1>1, <1>2, <1>3 DEF Next

\* It holds always.
LEMMA Phases == Spec => []Shape
<1>1. Init => Shape
  BY DEF Init, Shape
<1>2. Shape /\ UNCHANGED vars => Shape'
  BY DEF Shape, vars, Descends, Nested, Distinct
<1> QED BY <1>1, <1>2, ShapeStep, WellTyped, PTL DEF Spec

-----------------------------------------------------------------------------
(***************************************************************************)
(* Steps that leave the walk alone, and the start of a climb.              *)
(***************************************************************************)
Quiet == Lookup \/ PrimaryFails \/ ClassifyFails \/ ExpandFails \/ AddFails

\* A quiet step changes nothing of the walk, or comes before it.
LEMMA QuietStep ==
  ASSUME TypeOK, Shape, Quiet
  PROVE  /\ UNCHANGED <<request, results, queue, seen, asked, visited, chain>>
         /\ pc' \in {"failed", "redirect", "find_group", "primary", "direct"}
         /\ \/ results = <<>> /\ queue = <<>> /\ seen = {} /\ asked = {}
            \/ pc' = "failed" /\ UNCHANGED <<top, todo>>
BY RequestAssumption DEF TypeOK, Shape, Quiet, Lookup, Find, FindFails, FindNothing, Redirect, FindGroup,
   FindGroupFails, PrimaryFails, ClassifyFails, ExpandFails, AddFails, Raise,
   RequestType, Descends

\* The steps that are left.
LEMMA Steps ==
  Next <=> \/ Quiet \/ Primary \/ NoPrimary \/ DirectOnly \/ Classify \/ StartDescent
           \/ Expand \/ ExpandNothing \/ Skip \/ Add \/ ValuesEnd \/ Report
BY DEF Next, Quiet, Lookup, Start, Walk

\* No two entries of s have the same key.
Unique(s) == \A i, j \in DOMAIN s : i # j => Key[s[i].dn] # Key[s[j].dn]

\* An entry with a new key can be appended.
LEMMA UniqueAppend ==
  ASSUME NEW s \in Seq(Entry), NEW x \in Entry, Unique(s),
         \A e \in Range(s) : Key[e.dn] # Key[x.dn]
  PROVE  Unique(Append(s, x))
<1>1. /\ Len(s) \in Nat /\ DOMAIN s = 1..Len(s)
      /\ DOMAIN Append(s, x) = 1..Len(s) + 1
      /\ \A i \in 1..Len(s) : Append(s, x)[i] = s[i]
      /\ Append(s, x)[Len(s) + 1] = x
  OBVIOUS
<1>2. \A i \in 1..Len(s) : Key[s[i].dn] # Key[x.dn]
  BY <1>1
<1> QED BY <1>1, <1>2 DEF Unique

\* Two elements with one key are the same.
LEMMA UniqueSame ==
  ASSUME NEW s \in Seq(Entry), Unique(s),
         NEW e \in Range(s), NEW f \in Range(s), Key[e.dn] = Key[f.dn]
  PROVE  e = f
BY DEF Unique

\* _direct_groups hands over different groups, each with an empty chain.
LEMMA ClimbStart ==
  ASSUME TypeOK, Shape, Primary \/ NoPrimary
  PROVE  \E g \in Seq(Entry) :
           /\ StartClimb(g) /\ pc = "primary" /\ Unique(g)
           /\ \A e \in Range(g) : e.via # "nested" /\ e.path = <<>>
<1>1. /\ todo \in Seq(Dn) /\ Len(todo) \in Nat /\ DOMAIN todo = 1..Len(todo)
      /\ pc = "primary" /\ Distinct(todo)
  BY SeqFun DEF TypeOK, Shape, Primary, NoPrimary
<1>2. \A i \in 1..Len(todo) : Direct(todo[i], "direct", "group") \in Entry
  BY <1>1, SeqFun DEF Direct, Entry, Via, Class
<1>3. /\ DirectGroups \in Seq(Entry) /\ DOMAIN DirectGroups = 1..Len(todo)
      /\ \A i \in 1..Len(todo) : DirectGroups[i] = Direct(todo[i], "direct", "group")
  BY <1>1, <1>2, SeqFun DEF DirectGroups
<1>4. Unique(DirectGroups)
  BY <1>1, <1>3 DEF Unique, Distinct, Direct
<1>5. \A e \in Range(DirectGroups) : /\ e.via # "nested" /\ e.path = <<>>
                                     /\ Key[e.dn] \in KeysOf(todo)
  BY <1>1, <1>3 DEF Direct, KeysOf
<1>6. CASE NoPrimary
  BY <1>1, <1>3, <1>4, <1>5, <1>6 DEF NoPrimary
<1>7. CASE Primary
  <2>1. PICK d \in Dn :
          /\ Key[d] \notin KeysOf(todo)
          /\ StartClimb(Append(DirectGroups, Direct(d, "primary", "group")))
    BY <1>7 DEF Primary
  <2> DEFINE x == Direct(d, "primary", "group")
  <2>2. x \in Entry /\ x.dn = d /\ x.via # "nested" /\ x.path = <<>>
    BY SeqFun DEF Direct, Entry, Via, Class
  <2> HIDE DEF x
  <2>3. Unique(Append(DirectGroups, x))
    BY <1>3, <1>4, <1>5, <2>1, <2>2, UniqueAppend
  <2>4. /\ Append(DirectGroups, x) \in Seq(Entry)
        /\ Range(Append(DirectGroups, x)) = Range(DirectGroups) \cup {x}
    BY <1>3, <2>2, AppendRange
  <2>5. StartClimb(Append(DirectGroups, x))
    BY <2>1 DEF x
  <2> QED BY <1>1, <1>5, <2>2, <2>3, <2>4, <2>5
<1> QED BY <1>6, <1>7

-----------------------------------------------------------------------------
(***************************************************************************)
(* No entry twice.                                                         *)
(***************************************************************************)
Visiting == pc \in {"walk", "values"} \/ (pc = "done" /\ Nested)

Apart ==
  /\ Unique(results)
  /\ pc = "direct" => \A e \in Entries : Key[e.dn] \notin KeysOf(todo)
  /\ Visiting => /\ ResultKeys \subseteq visited
                 /\ visited \subseteq ResultKeys \cup {top}
                 /\ top = NoKey \/ top \in visited
  /\ \A e \in Entries : e.via = "nested" => Key[e.dn] # top

\* What the two ways of adding an entry do to the entries.
LEMMA Appended ==
  ASSUME TypeOK, NEW x \in Entry, results' = Append(results, x)
  PROVE  /\ Entries' = Entries \cup {x}
         /\ ResultKeys' = ResultKeys \cup {Key[x.dn]}
<1>1. results \in Seq(Entry)
  BY DEF TypeOK
<1>2. Range(Append(results, x)) = Range(results) \cup {x}
  BY <1>1, AppendRange
<1>3. Range(results') = Range(results) \cup {x}
  BY <1>2
<1> QED BY <1>3 DEF Entries, ResultKeys

\* An entry is added only when its key was not visited.
LEMMA ApartStep ==
  ASSUME TypeOK, TypeOK', Shape, Apart, Next
  PROVE  Apart'
<1>1. CASE Quiet
  <2>1. CASE results = <<>>
    <3>1. results' = <<>> /\ Entries' = {} /\ ~Visiting'
      BY <1>1, <2>1, QuietStep DEF Entries, Visiting
    <3> QED BY <3>1 DEF Apart, Unique
  <2>2. CASE pc' = "failed" /\ UNCHANGED <<top, todo>>
    BY <1>1, <2>2, QuietStep DEF Apart, Entries, Visiting
  <2> QED BY <1>1, <2>1, <2>2, QuietStep
<1>2. CASE Primary \/ NoPrimary
  <2>1. PICK g \in Seq(Entry) :
           /\ StartClimb(g) /\ pc = "primary" /\ Unique(g)
           /\ \A e \in Range(g) : e.via # "nested" /\ e.path = <<>>
    BY <1>2, ClimbStart
  <2>2. /\ results' = g /\ visited' = ResultKeys' /\ pc' # "direct"
        /\ Entries' = Range(g) /\ top' = NoKey
    BY <2>1 DEF StartClimb, ResultKeys, Entries, Shape
  <2> QED BY <2>1, <2>2 DEF Apart
<1>3. CASE DirectOnly
  <2>1. /\ todo \in Seq(Dn) /\ Len(todo) \in Nat /\ DOMAIN todo = 1..Len(todo)
        /\ Distinct(todo)
    BY <1>3, SeqFun DEF TypeOK, Shape, DirectOnly
  <2>2. /\ DOMAIN results' = 1..Len(todo)
        /\ \A i \in 1..Len(todo) : results'[i] = Direct(todo[i], "direct", "unknown")
    BY <1>3, <2>1 DEF DirectOnly
  <2>3. Unique(results')
    BY <2>1, <2>2 DEF Unique, Distinct, Direct
  <2>4. \A e \in Range(results') : e.via = "direct"
    BY <2>2 DEF Direct
  <2>5. pc' = "done" /\ ~Visiting'
    BY <1>3 DEF Visiting, Nested, DirectOnly, Shape, Descends
  <2> QED BY <2>3, <2>4, <2>5 DEF Apart, Entries
<1>4. CASE Classify
  <2>1. /\ todo \in Seq(Dn) /\ todo # <<>> /\ Distinct(todo) /\ pc = "direct"
        /\ todo' = Tail(todo) /\ UNCHANGED <<pc, top>>
    BY <1>4 DEF TypeOK, Shape, Classify
  <2>2. PICK class \in Class : results' = Append(results, Direct(Head(todo), "direct", class))
    BY <1>4 DEF Classify
  <2> DEFINE x == Direct(Head(todo), "direct", class)
  <2>3. x \in Entry /\ x.dn = Head(todo) /\ x.via = "direct"
    BY <2>1, HeadTail, SeqFun DEF Direct, Entry, Via
  <2> HIDE DEF x
  <2>4. /\ Entries' = Entries \cup {x} /\ results' = Append(results, x)
    BY <2>2, <2>3, Appended DEF x
  <2>5. Key[Head(todo)] \notin KeysOf(Tail(todo))
    <3>1. /\ Len(todo) \in Nat /\ Len(todo) >= 1 /\ DOMAIN todo = 1..Len(todo)
          /\ DOMAIN Tail(todo) = 1..Len(todo) - 1 /\ Head(todo) = todo[1]
          /\ \A i \in 1..Len(todo) - 1 : Tail(todo)[i] = todo[i + 1]
      BY <2>1
    <3> QED BY <2>1, <3>1 DEF Distinct, KeysOf
  <2>6. /\ Key[Head(todo)] \in KeysOf(todo) /\ KeysOf(Tail(todo)) \subseteq KeysOf(todo)
    BY <2>1, HeadTail DEF KeysOf
  <2>7. Unique(results')
    <3>1. \A e \in Range(results) : Key[e.dn] # Key[x.dn]
      BY <2>1, <2>3, <2>6 DEF Apart, Entries
    <3> QED BY <2>3, <2>4, <3>1, UniqueAppend DEF Apart, TypeOK
  <2>8. ~Visiting'
    BY <2>1 DEF Visiting
  <2> QED BY <2>1, <2>3, <2>4, <2>5, <2>6, <2>7, <2>8 DEF Apart
<1>5. CASE StartDescent
  <2>1. /\ results' = results /\ top' = top /\ pc' = "walk"
        /\ visited' = {top} \cup ResultKeys
    BY <1>5 DEF StartDescent
  <2>2. Entries' = Entries /\ ResultKeys' = ResultKeys
    BY <2>1 DEF Entries, ResultKeys
  <2> QED BY <2>1, <2>2 DEF Apart
<1>6. CASE Expand \/ ExpandNothing \/ Skip \/ ValuesEnd
  <2>1. /\ UNCHANGED <<results, visited, top, request>> /\ pc' \in {"walk", "values"}
        /\ pc \in {"walk", "values"}
    BY <1>6 DEF Expand, ExpandNothing, Skip, ValuesEnd
  <2> QED BY <2>1 DEF Apart, Entries, ResultKeys, Visiting
<1>7. CASE Add
  <2>1. /\ todo \in Seq(Dn) /\ todo # <<>> /\ pc = "values" /\ pc' = "values"
        /\ Key[Head(todo)] \notin visited /\ visited' = visited \cup {Key[Head(todo)]}
        /\ top' = top
    BY <1>7 DEF TypeOK, Add
  <2>2. PICK class \in Classes :
          results' = Append(results, [dn |-> Head(todo), via |-> "nested",
                                      class |-> class, path |-> chain])
    BY <1>7 DEF Add
  <2> DEFINE x == [dn |-> Head(todo), via |-> "nested", class |-> class, path |-> chain]
  <2>3. x \in Entry /\ x.dn = Head(todo)
    BY <2>1, HeadTail DEF TypeOK, Entry, Via, Classes, Class
  <2> HIDE DEF x
  <2>4. /\ Entries' = Entries \cup {x} /\ results' = Append(results, x)
        /\ ResultKeys' = ResultKeys \cup {Key[Head(todo)]}
    BY <2>2, <2>3, Appended DEF x
  <2>5. /\ ResultKeys \subseteq visited /\ visited \subseteq ResultKeys \cup {top}
        /\ top = NoKey \/ top \in visited
    BY <2>1 DEF Apart, Visiting
  <2>6. Unique(results')
    <3>1. \A e \in Range(results) : Key[e.dn] # Key[x.dn]
      BY <2>1, <2>3, <2>5 DEF Entries, ResultKeys
    <3> QED BY <2>3, <2>4, <3>1, UniqueAppend DEF Apart, TypeOK
  <2>7. Key[Head(todo)] # top
    <3>1. Key[Head(todo)] \in Keys
      BY <2>1, HeadTail, KeyType
    <3> QED BY <2>1, <2>5, <3>1, NameAssumption
  <2> QED BY <2>1, <2>3, <2>4, <2>5, <2>6, <2>7 DEF Apart
<1>8. CASE Report
  BY <1>8 DEF Apart, Report, Entries, ResultKeys, Visiting
<1> QED BY <1>1, <1>2, <1>3, <1>4, <1>5, <1>6, <1>7, <1>8, Steps

\* It holds always.
LEMMA NoneTwice == Spec => []Apart
<1>1. Init => Apart
  <2> SUFFICES ASSUME Init PROVE Apart
    OBVIOUS
  <2>1. Entries = {} /\ ~Visiting /\ pc = "find"
    BY DEF Init, Entries, Visiting
  <2> QED BY <2>1 DEF Init, Apart, Unique
<1>2. Apart /\ UNCHANGED vars => Apart'
  <2> SUFFICES ASSUME Apart, UNCHANGED vars PROVE Apart'
    OBVIOUS
  <2> QED BY DEF Apart, vars, Entries, ResultKeys, Visiting, Nested
<1> QED BY <1>1, <1>2, ApartStep, WellTyped, Phases, PTL DEF Spec

\* Each group or member is reported once.
THEOREM ReportedOnce == Spec => []Once
<1>1. Apart => Once
  BY DEF Apart, Once, Unique
<1> QED BY <1>1, NoneTwice, PTL

-----------------------------------------------------------------------------
(***************************************************************************)
(* Where chains come from.                                                 *)
(***************************************************************************)
\* p is a chain from a direct entry over links that were read.
Trail(p) ==
  /\ p # <<>>
  /\ \E r \in Roots : r.dn = p[1]
  /\ \A i \in 1..Len(p) - 1 : Link(p[i], p[i + 1])

Traced ==
  /\ ChainsReal
  /\ \A q \in Range(queue) : \E e \in Entries : e.dn = q.dn /\ e.path = q.path
  /\ pc = "values" =>
       /\ Trail(chain)
       /\ \A d \in Range(todo) : Link(chain[Len(chain)], d)
       /\ \E e \in Entries : e.dn = chain[Len(chain)] /\ Len(e.path) = Len(chain) - 1

\* A chain stays one when entries and links are added.
LEMMA TrailKept ==
  ASSUME NEW p, Trail(p), Entries \subseteq Entries', seen \subseteq seen'
  PROVE  Trail(p)'
BY DEF Trail, Roots, Link

\* So do the chains of the old entries.
LEMMA ChainsKept ==
  ASSUME ChainsReal, Entries \subseteq Entries', seen \subseteq seen', NEW e \in Entries
  PROVE  IF e.via = "nested"
           THEN Trail(e.path)' /\ Link(e.path[Len(e.path)], e.dn)'
           ELSE e.path = <<>>
<1>1. CASE e.via = "nested"
  <2>1. Trail(e.path) /\ Link(e.path[Len(e.path)], e.dn)
    BY <1>1 DEF ChainsReal, Trail
  <2>2. Link(e.path[Len(e.path)], e.dn)'
    BY <2>1 DEF Link
  <2> QED BY <1>1, <2>1, <2>2, TrailKept
<1>2. CASE e.via # "nested"
  BY <1>2 DEF ChainsReal
<1> QED BY <1>1, <1>2

\* ChainsReal, with its first three parts under one name.
LEMMA ChainsAreTrails ==
  ChainsReal <=> \A e \in Entries :
                   IF e.via = "nested"
                     THEN Trail(e.path) /\ Link(e.path[Len(e.path)], e.dn)
                     ELSE e.path = <<>>
BY DEF ChainsReal, Trail

\* The chain of a group, followed by the group, is a chain.
LEMMA TrailExtends ==
  ASSUME NEW e \in Entries, e \in Entry, ChainsReal
  PROVE  Trail(Append(e.path, e.dn))
<1> DEFINE p == Append(e.path, e.dn)
<1>1. /\ e.path \in Seq(Dn) /\ e.dn \in Dn /\ Len(e.path) \in Nat
      /\ p \in Seq(Dn) /\ Len(p) = Len(e.path) + 1 /\ p[Len(p)] = e.dn
      /\ \A i \in 1..Len(e.path) : p[i] = e.path[i]
  BY DEF Entry
<1> HIDE DEF p
<1>2. CASE e.via = "nested"
  <2>1. Trail(e.path) /\ Link(e.path[Len(e.path)], e.dn)
    BY <1>2 DEF ChainsReal, Trail
  <2>2. Len(e.path) >= 1
    BY <1>1, <2>1 DEF Trail
  <2>3. \A i \in 1..Len(p) - 1 : Link(p[i], p[i + 1])
    <3>1. TAKE i \in 1..Len(p) - 1
    <3>2. CASE i = Len(e.path)
      BY <1>1, <2>1, <2>2, <3>2
    <3>3. CASE i # Len(e.path)
      <4>1. i \in 1..Len(e.path) - 1 /\ i \in 1..Len(e.path) /\ i + 1 \in 1..Len(e.path)
        BY <1>1, <3>3
      <4>2. Link(e.path[i], e.path[i + 1])
        BY <2>1, <4>1 DEF Trail
      <4> QED BY <1>1, <4>1, <4>2
    <3> QED BY <3>2, <3>3
  <2>4. p[1] = e.path[1] /\ p # <<>>
    BY <1>1, <2>2
  <2> QED BY <2>1, <2>3, <2>4 DEF Trail, p
<1>3. CASE e.via # "nested"
  <2>1. e.path = <<>> /\ e \in Roots
    BY <1>3 DEF ChainsReal, Roots
  <2>2. Len(e.path) = 0
    BY <2>1
  <2>3. Len(p) = 1
    BY <1>1, <2>2
  <2>4. p[1] = e.dn
    BY <1>1, <2>3
  <2>5. p # <<>> /\ 1..Len(p) - 1 = {}
    BY <2>3
  <2> QED BY <2>1, <2>4, <2>5 DEF Trail, p
<1> QED BY <1>2, <1>3

\* What Classify adds: an entry with an empty chain.
LEMMA ClassifyAdds ==
  ASSUME TypeOK, Classify
  PROVE  \E x \in Entry :
           /\ x.via = "direct" /\ x.path = <<>> /\ x.dn \in Dn
           /\ results' = Append(results, x) /\ Entries' = Entries \cup {x}
           /\ IF x.class = "group"
                THEN /\ queue' = Append(queue, AsItem(x.dn, <<>>))
                     /\ Range(queue') = Range(queue) \cup {AsItem(x.dn, <<>>)}
                ELSE queue' = queue
<1>1. PICK class \in Class :
        /\ results' = Append(results, Direct(Head(todo), "direct", class))
        /\ queue' = IF class = "group"
                      THEN Append(queue, AsItem(Head(todo), <<>>)) ELSE queue
  BY DEF Classify
<1>2. Head(todo) \in Dn
  BY HeadTail DEF TypeOK, Classify
<1> DEFINE x == Direct(Head(todo), "direct", class)
<1>3. /\ x \in Entry /\ x.dn = Head(todo) /\ x.via = "direct" /\ x.path = <<>>
      /\ x.class = class
  BY <1>2, SeqFun DEF Direct, Entry, Via
<1> DEFINE q == AsItem(Head(todo), <<>>)
<1>4. q \in Item
  BY <1>2, SeqFun DEF AsItem, Item
<1>5. queue \in Seq(Item)
  BY DEF TypeOK
<1> HIDE DEF x, q
<1>6. Range(Append(queue, q)) = Range(queue) \cup {q}
  BY <1>4, <1>5, AppendRange
<1>7. results' = Append(results, x) /\ queue' = IF class = "group" THEN Append(queue, q) ELSE queue
  BY <1>1 DEF x, q
<1>8. Entries' = Entries \cup {x}
  BY <1>3, <1>7, Appended
<1>9. q = AsItem(x.dn, <<>>)
  BY <1>3 DEF q
<1>10. CASE class = "group"
  <2>1. queue' = Append(queue, q)
    BY <1>7, <1>10
  <2>2. Range(queue') = Range(queue) \cup {q}
    BY <1>6, <2>1
  <2> QED BY <1>2, <1>3, <1>7, <1>8, <1>9, <1>10, <2>1, <2>2
<1>11. CASE class # "group"
  BY <1>2, <1>3, <1>7, <1>8, <1>11
<1> QED BY <1>10, <1>11

\* What Add adds: an entry at the end of the chain.
LEMMA AddAdds ==
  ASSUME TypeOK, Add
  PROVE  \E x \in Entry :
           /\ x.via = "nested" /\ x.path = chain /\ x.dn = Head(todo) /\ x.dn \in Dn
           /\ results' = Append(results, x) /\ Entries' = Entries \cup {x}
           /\ IF x.class = "group"
                THEN /\ queue' = Append(queue, AsItem(x.dn, chain))
                     /\ Range(queue') = Range(queue) \cup {AsItem(x.dn, chain)}
                ELSE queue' = queue
<1>1. PICK class \in Classes :
        /\ results' = Append(results, [dn |-> Head(todo), via |-> "nested",
                                       class |-> class, path |-> chain])
        /\ queue' = IF class = "group"
                      THEN Append(queue, AsItem(Head(todo), chain)) ELSE queue
  BY DEF Add
<1>2. Head(todo) \in Dn /\ chain \in Seq(Dn) /\ class \in Class
  BY HeadTail DEF TypeOK, Add, Classes, Class
<1> DEFINE x == [dn |-> Head(todo), via |-> "nested", class |-> class, path |-> chain]
<1>3. /\ x \in Entry /\ x.dn = Head(todo) /\ x.via = "nested" /\ x.path = chain
      /\ x.class = class
  BY <1>2 DEF Entry, Via
<1> DEFINE q == AsItem(Head(todo), chain)
<1>4. q \in Item
  BY <1>2 DEF AsItem, Item
<1>5. queue \in Seq(Item)
  BY DEF TypeOK
<1> HIDE DEF x, q
<1>6. Range(Append(queue, q)) = Range(queue) \cup {q}
  BY <1>4, <1>5, AppendRange
<1>7. results' = Append(results, x) /\ queue' = IF class = "group" THEN Append(queue, q) ELSE queue
  BY <1>1 DEF x, q
<1>8. Entries' = Entries \cup {x}
  BY <1>3, <1>7, Appended
<1>9. q = AsItem(x.dn, chain)
  BY <1>3 DEF q
<1>10. CASE class = "group"
  <2>1. queue' = Append(queue, q)
    BY <1>7, <1>10
  <2>2. Range(queue') = Range(queue) \cup {q}
    BY <1>6, <2>1
  <2> QED BY <1>2, <1>3, <1>7, <1>8, <1>9, <1>10, <2>1, <2>2
<1>11. CASE class # "group"
  BY <1>2, <1>3, <1>7, <1>8, <1>11
<1> QED BY <1>10, <1>11

\* Chains depend on the entries and the links alone.
LEMMA ChainsSame ==
  ASSUME ChainsReal, results' = results, seen' = seen
  PROVE  ChainsReal' /\ Entries' = Entries
BY DEF ChainsReal, Entries, Roots, Link

\* Every entry and every queue item comes with a chain to it.
LEMMA TracedStep ==
  ASSUME TypeOK, TypeOK', Shape, Traced, Next
  PROVE  Traced'
<1>0. /\ Entries \subseteq Entry /\ Range(queue) \subseteq Item
      /\ todo \in Seq(Dn) /\ chain \in Seq(Dn) /\ queue \in Seq(Item)
  BY SeqFun DEF TypeOK, Entries
<1>1. CASE Quiet
  <2>1. CASE results = <<>> /\ queue = <<>>
    <3>1. Entries' = {} /\ Range(queue') = {} /\ pc' # "values"
      BY <1>1, <2>1, QuietStep DEF Entries
    <3> QED BY <3>1 DEF Traced, ChainsReal
  <2>2. CASE pc' = "failed"
    <3>1. UNCHANGED <<results, queue, seen>>
      BY <1>1, QuietStep
    <3> QED BY <2>2, <3>1, SMTT(20) DEF Traced, ChainsReal, Entries, Roots, Link
  <2> QED BY <1>1, <2>1, <2>2, QuietStep
<1>2. CASE Primary \/ NoPrimary
  <2>1. PICK g \in Seq(Entry) :
           /\ StartClimb(g) /\ pc = "primary" /\ Unique(g)
           /\ \A e \in Range(g) : e.via # "nested" /\ e.path = <<>>
    BY <1>2, ClimbStart
  <2>2. /\ results' = g /\ Entries' = Range(g) /\ pc' # "values"
        /\ queue' = [i \in DOMAIN g |-> AsItem(g[i].dn, <<>>)]
    BY <2>1 DEF StartClimb, Entries
  <2>3. \A q \in Range(queue') : \E e \in Range(g) : e.dn = q.dn /\ e.path = q.path
    <3>1. TAKE q \in Range(queue')
    <3>2. PICK i \in DOMAIN g : q = AsItem(g[i].dn, <<>>)
      BY <2>2
    <3> QED BY <2>1, <3>2 DEF AsItem
  <2> QED BY <2>1, <2>2, <2>3 DEF Traced, ChainsReal
<1>3. CASE DirectOnly
  <2>1. /\ pc' = "done" /\ queue' = <<>>
        /\ results' = [i \in DOMAIN todo |-> Direct(todo[i], "direct", "unknown")]
    BY <1>3 DEF Shape, DirectOnly
  <2>2. \A e \in Entries' : e.via # "nested" /\ e.path = <<>>
    BY <2>1 DEF Direct, Entries
  <2>3. Range(queue') = {}
    BY <2>1
  <2> QED BY <2>1, <2>2, <2>3 DEF Traced, ChainsReal
<1>4. CASE Classify
  <2>1. PICK x \in Entry :
           /\ x.via = "direct" /\ x.path = <<>> /\ x.dn \in Dn
           /\ results' = Append(results, x) /\ Entries' = Entries \cup {x}
           /\ IF x.class = "group"
                THEN /\ queue' = Append(queue, AsItem(x.dn, <<>>))
                     /\ Range(queue') = Range(queue) \cup {AsItem(x.dn, <<>>)}
                ELSE queue' = queue
    BY <1>4, ClassifyAdds
  <2>2. seen' = seen /\ pc' # "values"
    BY <1>4 DEF Classify
  <2>3. \A e \in Entries : IF e.via = "nested"
                             THEN Trail(e.path)' /\ Link(e.path[Len(e.path)], e.dn)'
                             ELSE e.path = <<>>
    BY <2>1, <2>2, ChainsKept DEF Traced
  <2>4. ChainsReal'
    BY <2>1, <2>3 DEF ChainsReal, Trail
  <2>5. \A q \in Range(queue') : \E e \in Entries' : e.dn = q.dn /\ e.path = q.path
    <3>1. Range(queue') \subseteq Range(queue) \cup {AsItem(x.dn, <<>>)}
      BY <2>1
    <3> QED BY <2>1, <3>1 DEF Traced, AsItem
  <2> QED BY <2>2, <2>4, <2>5 DEF Traced
<1>5. CASE StartDescent
  <2>1. UNCHANGED <<results, queue, seen>> /\ pc' # "values"
    BY <1>5 DEF StartDescent
  <2> QED BY <2>1 DEF Traced, ChainsReal, Entries, Roots, Link
<1>6. CASE Expand
  <2> DEFINE h == Head(queue)
  <2>1. /\ h \in Item /\ h \in Range(queue) /\ Range(Tail(queue)) \subseteq Range(queue)
        /\ queue' = Tail(queue) /\ results' = results /\ Entries' = Entries
        /\ chain' = Append(h.path, h.dn)
        /\ todo' \in Seq(Dn)
        /\ seen' = seen \cup ({Key[h.dn]} \X Range(todo'))
    BY <1>0, <1>6, HeadTail, ListType DEF Expand, Entries
  <2>2. PICK e \in Entries : e.dn = h.dn /\ e.path = h.path
    BY <2>1 DEF Traced
  <2> HIDE DEF h
  <2>3. Trail(Append(e.path, e.dn))
    BY <1>0, <2>2, TrailExtends DEF Traced
  <2>4. chain' = Append(e.path, e.dn)
    BY <2>1, <2>2
  <2>5. seen \subseteq seen' /\ Entries \subseteq Entries'
    BY <2>1
  <2>6. Trail(Append(e.path, e.dn))'
    BY <2>3, <2>5, TrailKept
  <2>7. Trail(chain)'
    BY <2>4, <2>6 DEF Trail
  <2>8. /\ chain'[Len(chain')] = e.dn /\ Len(chain') = Len(e.path) + 1
    <3>1. e.path \in Seq(Dn) /\ e.dn \in Dn
      BY <1>0, <2>2 DEF Entry
    <3> QED BY <2>4, <3>1
  <2>9. \A d \in Range(todo') : Link(chain[Len(chain)], d)'
    BY <2>1, <2>2, <2>8 DEF Link
  <2>10. \E f \in Entries' : f.dn = chain'[Len(chain')] /\ Len(f.path) = Len(chain') - 1
    <3>1. Len(e.path) \in Nat
      BY <1>0, <2>2 DEF Entry
    <3> QED BY <2>1, <2>2, <2>8, <3>1
  <2>11. ChainsReal'
    <3>1. \A f \in Entries : IF f.via = "nested"
                               THEN Trail(f.path)' /\ Link(f.path[Len(f.path)], f.dn)'
                               ELSE f.path = <<>>
      BY <2>5, ChainsKept DEF Traced
    <3> QED BY <2>1, <3>1 DEF ChainsReal, Trail
  <2>12. \A q \in Range(queue') : \E f \in Entries' : f.dn = q.dn /\ f.path = q.path
    <3>1. \A q \in Range(queue) : \E f \in Entries : f.dn = q.dn /\ f.path = q.path
      BY DEF Traced
    <3> QED BY <2>1, <3>1
  <2> QED BY <2>7, <2>9, <2>10, <2>11, <2>12 DEF Traced
<1>7. CASE ExpandNothing
  <2>1. /\ UNCHANGED <<results, seen>> /\ queue' = Tail(queue) /\ pc' # "values"
        /\ Range(Tail(queue)) \subseteq Range(queue)
    BY <1>0, <1>7, HeadTail DEF ExpandNothing
  <2>2. ChainsReal' /\ Entries' = Entries
    <3>1. ChainsReal /\ Entries' = Entries /\ Roots' = Roots
      BY <2>1 DEF Traced, Entries, Roots
    <3>2. \A g, d : Link(g, d)' <=> Link(g, d)
      BY <2>1 DEF Link
    <3>. QED BY <3>1, <3>2 DEF ChainsReal
  <2>3. \A q \in Range(queue') : q \in Range(queue)
    BY <2>1
  <2>4. \A q \in Range(queue') : \E e \in Entries' : e.dn = q.dn /\ e.path = q.path
    BY <2>2, <2>3 DEF Traced
  <2> QED BY <2>1, <2>2, <2>4 DEF Traced
<1>8. CASE Skip
  <2>1. /\ UNCHANGED <<results, seen, queue, chain>> /\ todo' = Tail(todo)
        /\ Range(Tail(todo)) \subseteq Range(todo) /\ pc = "values"
    BY <1>0, <1>8, HeadTail DEF Skip
  <2>2. ChainsReal' /\ Entries' = Entries
    BY <2>1, ChainsSame DEF Traced
  <2>3. Trail(chain)'
    BY <2>1 DEF Traced, Trail, Entries, Roots, Link
  <2>4. \A d \in Range(todo') : d \in Range(todo)
    BY <2>1
  <2>5. \A d \in Range(todo') : Link(chain[Len(chain)], d)'
    BY <2>1, <2>4 DEF Traced, Link
  <2>6. \A q \in Range(queue') : \E e \in Entries' : e.dn = q.dn /\ e.path = q.path
    BY <2>1, <2>2 DEF Traced
  <2>7. \E e \in Entries' : e.dn = chain'[Len(chain')] /\ Len(e.path) = Len(chain') - 1
    BY <2>1, <2>2 DEF Traced
  <2> QED BY <2>2, <2>3, <2>5, <2>6, <2>7 DEF Traced
<1>9. CASE Add
  <2>1. PICK x \in Entry :
           /\ x.via = "nested" /\ x.path = chain /\ x.dn = Head(todo) /\ x.dn \in Dn
           /\ results' = Append(results, x) /\ Entries' = Entries \cup {x}
           /\ IF x.class = "group"
                THEN /\ queue' = Append(queue, AsItem(x.dn, chain))
                     /\ Range(queue') = Range(queue) \cup {AsItem(x.dn, chain)}
                ELSE queue' = queue
    BY <1>9, AddAdds
  <2>2. /\ UNCHANGED <<seen, chain>> /\ todo' = Tail(todo) /\ pc = "values"
        /\ Head(todo) \in Range(todo) /\ Range(Tail(todo)) \subseteq Range(todo)
    BY <1>0, <1>9, HeadTail DEF Add
  <2>3. Entries \subseteq Entries' /\ seen \subseteq seen'
    BY <2>1, <2>2
  <2>4. \A e \in Entries : IF e.via = "nested"
                             THEN Trail(e.path)' /\ Link(e.path[Len(e.path)], e.dn)'
                             ELSE e.path = <<>>
    BY <2>3, ChainsKept DEF Traced
  <2>5. Trail(chain)' /\ Link(chain[Len(chain)], x.dn)'
    <3>1. Trail(chain) /\ Link(chain[Len(chain)], x.dn)
      BY <2>1, <2>2 DEF Traced
    <3> QED BY <2>2, <2>3, <3>1 DEF Trail, Roots, Link
  <2>6. ChainsReal'
    BY <2>1, <2>2, <2>4, <2>5 DEF ChainsReal, Trail
  <2>7. \A q \in Range(queue') : \E e \in Entries' : e.dn = q.dn /\ e.path = q.path
    <3>1. TAKE q \in Range(queue')
    <3>2. q \in Range(queue) \/ q = AsItem(x.dn, chain)
      BY <2>1
    <3>3. CASE q \in Range(queue)
      BY <2>1, <3>3 DEF Traced
    <3>4. CASE q = AsItem(x.dn, chain)
      BY <2>1, <3>4 DEF AsItem
    <3> QED BY <3>2, <3>3, <3>4
  <2>8. \A d \in Range(todo') : Link(chain[Len(chain)], d)'
    BY <2>2 DEF Traced, Link
  <2>9. \E e \in Entries' : e.dn = chain'[Len(chain')] /\ Len(e.path) = Len(chain') - 1
    BY <2>2, <2>3 DEF Traced
  <2> QED BY <2>5, <2>6, <2>7, <2>8, <2>9 DEF Traced
<1>10. CASE ValuesEnd \/ Report
  <2>1. UNCHANGED <<results, queue, seen>> /\ pc' # "values"
    BY <1>10 DEF ValuesEnd, Report
  <2> QED BY <2>1 DEF Traced, ChainsReal, Entries, Roots, Link
<1> QED BY <1>1, <1>2, <1>3, <1>4, <1>5, <1>6, <1>7, <1>8, <1>9, <1>10, Steps

\* It holds always.
LEMMA Tracing == Spec => []Traced
<1>1. Init => Traced
  <2> SUFFICES ASSUME Init PROVE Traced
    OBVIOUS
  <2>1. Entries = {} /\ Range(queue) = {} /\ pc = "find"
    BY DEF Init, Entries
  <2> QED BY <2>1 DEF Traced, ChainsReal
<1>2. Traced /\ UNCHANGED vars => Traced'
  <2> SUFFICES ASSUME Traced, UNCHANGED vars PROVE Traced'
    OBVIOUS
  <2> QED BY DEF Traced, vars, ChainsReal, Trail, Entries, Roots, Link
<1> QED BY <1>1, <1>2, TracedStep, WellTyped, Phases, PTL DEF Spec

\* The chain reported for an entry exists.
THEOREM TrueChains == Spec => []ChainsReal
<1>1. Traced => ChainsReal
  BY DEF Traced
<1> QED BY <1>1, Tracing, PTL

-----------------------------------------------------------------------------
(***************************************************************************)
(* What is left to visit.                                                  *)
(***************************************************************************)
\* Every link that was read leads to something visited or still in todo, and
\* belongs to something reported.
Covered ==
  /\ \A link \in seen : link[1] \in ResultKeys
  /\ pc \in {"walk", "values", "done"} =>
       \A link \in seen :
         \/ Key[link[2]] \in visited
         \/ /\ pc = "values" /\ link[1] = Key[chain[Len(chain)]]
            /\ link[2] \in Range(todo)
  /\ pc \in {"direct", "walk", "values", "done"} /\ Nested =>
       \A e \in Entries : e.class = "group" =>
         Key[e.dn] \in asked \/ \E q \in Range(queue) : q.dn = e.dn

\* No link that was read is forgotten.
LEMMA CoveredStep ==
  ASSUME TypeOK, TypeOK', Shape, Traced, Covered, Next
  PROVE  Covered'
<1>0. /\ Entries \subseteq Entry /\ Range(queue) \subseteq Item
      /\ todo \in Seq(Dn) /\ chain \in Seq(Dn) /\ queue \in Seq(Item)
  BY SeqFun DEF TypeOK, Entries
<1>1. CASE Quiet
  <2>1. CASE results = <<>> /\ seen = {}
    <3>1. Entries' = {} /\ seen' = {}
      BY <1>1, <2>1, QuietStep DEF Entries
    <3> QED BY <3>1 DEF Covered
  <2>2. CASE pc' = "failed"
    <3>1. UNCHANGED <<results, seen>>
      BY <1>1, QuietStep
    <3> QED BY <2>2, <3>1 DEF Covered, ResultKeys, Entries
  <2> QED BY <1>1, <2>1, <2>2, QuietStep
<1>2. CASE Primary \/ NoPrimary
  <2>1. PICK g \in Seq(Entry) :
           /\ StartClimb(g) /\ pc = "primary" /\ Unique(g)
           /\ \A e \in Range(g) : e.via # "nested" /\ e.path = <<>>
    BY <1>2, ClimbStart
  <2>2. /\ results' = g /\ Entries' = Range(g) /\ seen' = {}
        /\ queue' = [i \in DOMAIN g |-> AsItem(g[i].dn, <<>>)]
    BY <2>1 DEF StartClimb, Entries, Shape
  <2>3. \A e \in Range(g) : \E q \in Range(queue') : q.dn = e.dn
    <3>1. TAKE e \in Range(g)
    <3>2. PICK i \in DOMAIN g : e = g[i]
      OBVIOUS
    <3>3. queue'[i] = AsItem(e.dn, <<>>) /\ i \in DOMAIN queue'
      BY <2>2, <3>2
    <3> QED BY <3>3 DEF AsItem
  <2> QED BY <2>2, <2>3 DEF Covered
<1>3. CASE DirectOnly
  <2>1. seen' = {} /\ ~Nested'
    BY <1>3 DEF DirectOnly, Shape, Nested, Descends
  <2> QED BY <2>1 DEF Covered
<1>4. CASE Classify
  <2>1. PICK x \in Entry :
           /\ x.via = "direct" /\ x.path = <<>> /\ x.dn \in Dn
           /\ results' = Append(results, x) /\ Entries' = Entries \cup {x}
           /\ IF x.class = "group"
                THEN /\ queue' = Append(queue, AsItem(x.dn, <<>>))
                     /\ Range(queue') = Range(queue) \cup {AsItem(x.dn, <<>>)}
                ELSE queue' = queue
    BY <1>4, ClassifyAdds
  <2>2. /\ seen' = {} /\ asked' = asked /\ pc' = "direct" /\ pc = "direct"
        /\ Nested' = Nested
    BY <1>4 DEF Classify, Shape, Nested
  <2>3. \A q \in Range(queue) : q \in Range(queue')
    BY <2>1
  <2>4. x.class = "group" => \E q \in Range(queue') : q.dn = x.dn
    BY <2>1 DEF AsItem
  <2> QED BY <2>1, <2>2, <2>3, <2>4 DEF Covered
<1>5. CASE StartDescent
  <2>1. /\ UNCHANGED <<results, queue, seen, asked, request>> /\ seen = {}
        /\ pc = "direct"
    BY <1>5 DEF StartDescent, Shape
  <2> QED BY <2>1 DEF Covered, Entries, ResultKeys, Nested
<1>6. CASE Expand
  <2> DEFINE h == Head(queue)
  <2>1. /\ h \in Item /\ Range(queue) = {h} \cup Range(Tail(queue))
        /\ queue' = Tail(queue) /\ Entries' = Entries /\ visited' = visited
        /\ chain' = Append(h.path, h.dn) /\ asked' = asked \cup {Key[h.dn]}
        /\ seen' = seen \cup ({Key[h.dn]} \X Range(todo'))
        /\ pc = "walk" /\ pc' = "values" /\ Nested' = Nested /\ ResultKeys' = ResultKeys
    BY <1>0, <1>6, HeadTail DEF Expand, Entries, ResultKeys, Nested
  <2>2. PICK e \in Entries : e.dn = h.dn /\ e.path = h.path
    BY <2>1 DEF Traced
  <2> HIDE DEF h
  <2>3. Key[h.dn] \in ResultKeys
    BY <2>2 DEF ResultKeys
  <2>4. chain'[Len(chain')] = h.dn
    <3>1. h.path \in Seq(Dn) /\ h.dn \in Dn
      BY <2>1 DEF Item
    <3> QED BY <2>1, <3>1
  <2>5. \A link \in seen' : link[1] \in ResultKeys
    BY <2>1, <2>3 DEF Covered
  <2>6. \A link \in seen' : \/ Key[link[2]] \in visited
                            \/ link[1] = Key[h.dn] /\ link[2] \in Range(todo')
    BY <2>1 DEF Covered
  <2>7. ASSUME Nested, NEW f \in Entries, f.class = "group"
        PROVE  Key[f.dn] \in asked' \/ \E q \in Range(Tail(queue)) : q.dn = f.dn
    <3>1. Key[f.dn] \in asked \/ \E q \in Range(queue) : q.dn = f.dn
      BY <2>1, <2>7 DEF Covered
    <3> QED BY <2>1, <3>1
  <2> QED BY <2>1, <2>4, <2>5, <2>6, <2>7 DEF Covered
<1>7. CASE ExpandNothing
  <2> DEFINE h == Head(queue)
  <2>1. /\ Range(queue) = {h} \cup Range(Tail(queue))
        /\ queue' = Tail(queue) /\ Entries' = Entries
        /\ asked' = asked \cup {Key[h.dn]} /\ UNCHANGED <<seen, visited>>
        /\ pc = "walk" /\ pc' = "walk" /\ Nested' = Nested /\ ResultKeys' = ResultKeys
    BY <1>0, <1>7, HeadTail DEF ExpandNothing, Entries, ResultKeys, Nested
  <2> HIDE DEF h
  <2>2. ASSUME Nested, NEW f \in Entries, f.class = "group"
        PROVE  Key[f.dn] \in asked' \/ \E q \in Range(Tail(queue)) : q.dn = f.dn
    <3>1. Key[f.dn] \in asked \/ \E q \in Range(queue) : q.dn = f.dn
      BY <2>1, <2>2 DEF Covered
    <3> QED BY <2>1, <3>1
  <2> QED BY <2>1, <2>2 DEF Covered
<1>8. CASE Skip \/ ValuesEnd
  <2>1. /\ UNCHANGED <<results, seen, asked, queue, visited, chain, request>>
        /\ pc = "values" /\ pc' \in {"walk", "values"}
    BY <1>8 DEF Skip, ValuesEnd
  <2>2. Entries' = Entries /\ ResultKeys' = ResultKeys /\ Nested' = Nested
    BY <2>1 DEF Entries, ResultKeys, Nested
  <2>3. \A d \in Range(todo) : Key[d] \in visited \/ (d \in Range(todo') /\ pc' = "values")
    <3>1. CASE Skip
      <4>1. todo # <<>> /\ todo' = Tail(todo) /\ Key[Head(todo)] \in visited /\ pc' = "values"
        BY <3>1 DEF Skip
      <4>2. \A d \in Range(todo) : d = Head(todo) \/ d \in Range(Tail(todo))
        <5>1. todo \in Seq(Dn)
          BY <1>0 DEF TypeOK
        <5> QED BY <4>1, <5>1, HeadOrTail
      <4> QED BY <4>1, <4>2
    <3>2. CASE ValuesEnd
      BY <3>2 DEF ValuesEnd
    <3> QED BY <1>8, <3>1, <3>2
  <2>4. \A link \in seen : \/ Key[link[2]] \in visited
                           \/ /\ pc' = "values" /\ link[1] = Key[chain[Len(chain)]]
                              /\ link[2] \in Range(todo')
    BY <2>1, <2>3 DEF Covered
  <2> QED BY <2>1, <2>2, <2>4 DEF Covered
<1>9. CASE Add
  <2>1. PICK x \in Entry :
           /\ x.via = "nested" /\ x.path = chain /\ x.dn = Head(todo) /\ x.dn \in Dn
           /\ results' = Append(results, x) /\ Entries' = Entries \cup {x}
           /\ IF x.class = "group"
                THEN /\ queue' = Append(queue, AsItem(x.dn, chain))
                     /\ Range(queue') = Range(queue) \cup {AsItem(x.dn, chain)}
                ELSE queue' = queue
    BY <1>9, AddAdds
  <2>2. /\ UNCHANGED <<seen, asked, chain>> /\ pc = "values" /\ pc' = "values"
        /\ \A d \in Range(todo) : d = x.dn \/ d \in Range(todo')
        /\ visited' = visited \cup {Key[x.dn]} /\ Nested' = Nested
    <3>1. /\ UNCHANGED <<seen, asked, chain, request>> /\ pc = "values" /\ pc' = "values"
          /\ visited' = visited \cup {Key[x.dn]} /\ todo # <<>> /\ todo' = Tail(todo)
      BY <1>9, <2>1 DEF Add
    <3>2. \A d \in Range(todo) : d = Head(todo) \/ d \in Range(Tail(todo))
      <4>1. todo \in Seq(Dn)
        BY <1>0 DEF TypeOK
      <4> QED BY <3>1, <4>1, HeadOrTail
    <3> QED BY <2>1, <3>1, <3>2 DEF Nested
  <2>3. ResultKeys \subseteq ResultKeys'
    BY <2>1 DEF ResultKeys
  <2>4. \A q \in Range(queue) : q \in Range(queue')
    BY <2>1
  <2>5. x.class = "group" => \E q \in Range(queue') : q.dn = x.dn
    BY <2>1 DEF AsItem
  <2>6. \A link \in seen : link[1] \in ResultKeys'
    BY <2>3 DEF Covered
  <2>7. \A link \in seen : \/ Key[link[2]] \in visited'
                           \/ /\ link[1] = Key[chain[Len(chain)]]
                              /\ link[2] \in Range(todo')
    BY <2>2 DEF Covered
  <2>8. Nested => \A e \in Entries' : e.class = "group" =>
                    Key[e.dn] \in asked \/ \E q \in Range(queue') : q.dn = e.dn
    BY <2>1, <2>2, <2>4, <2>5 DEF Covered
  <2> QED BY <2>2, <2>6, <2>7, <2>8 DEF Covered
<1>10. CASE Report
  <2>1. UNCHANGED <<results, queue, seen, asked, visited, request>> /\ pc = "walk"
    BY <1>10 DEF Report
  <2>2. Entries' = Entries /\ ResultKeys' = ResultKeys /\ Nested' = Nested
    BY <2>1 DEF Entries, ResultKeys, Nested
  <2> QED BY <2>1, <2>2 DEF Covered
<1> QED BY <1>1, <1>2, <1>3, <1>4, <1>5, <1>6, <1>7, <1>8, <1>9, <1>10, Steps

\* It holds always.
LEMMA Covering == Spec => []Covered
<1>1. Init => Covered
  <2> SUFFICES ASSUME Init PROVE Covered
    OBVIOUS
  <2>1. Entries = {} /\ seen = {}
    BY DEF Init, Entries
  <2> QED BY <2>1 DEF Covered
<1>2. Covered /\ UNCHANGED vars => Covered'
  <2> SUFFICES ASSUME Covered, UNCHANGED vars PROVE Covered'
    OBVIOUS
  <2> QED BY DEF Covered, vars, Entries, ResultKeys, Nested
<1> QED BY <1>1, <1>2, CoveredStep, WellTyped, Phases, Tracing, PTL DEF Spec

-----------------------------------------------------------------------------
(***************************************************************************)
(* The report is the closure of the direct entries.                        *)
(***************************************************************************)
\* Whatever is closed under the links and has the direct entries has them all.
Sound ==
  \A S \in SUBSET Keys : RootKeys \subseteq S /\ Closed(S) => ResultKeys \subseteq S

\* An entry is added only for a link from one that is there.
LEMMA SoundStep ==
  ASSUME TypeOK, Shape, Traced, Sound, Next
  PROVE  Sound'
<1>1. CASE UNCHANGED <<results, seen>>
  BY <1>1 DEF Sound, RootKeys, ResultKeys, Roots, Entries, Closed
<1>2. CASE \A e \in Entries' : e.via # "nested"
  BY <1>2 DEF Sound, RootKeys, ResultKeys, Roots
<1>3. CASE Primary \/ NoPrimary
  <2>1. PICK g \in Seq(Entry) :
           /\ StartClimb(g)
           /\ \A e \in Range(g) : e.via # "nested"
    BY <1>3, ClimbStart
  <2>2. Entries' = Range(g)
    BY <2>1 DEF StartClimb, Entries
  <2> QED BY <1>2, <2>1, <2>2
<1>4. CASE DirectOnly
  <2>1. results' = [i \in DOMAIN todo |-> Direct(todo[i], "direct", "unknown")]
    BY <1>4 DEF DirectOnly
  <2>2. \A e \in Entries' : e.via # "nested"
    BY <2>1 DEF Entries, Direct
  <2> QED BY <1>2, <2>2
<1>5. CASE Classify
  <2>1. PICK x \in Entry : x.via = "direct" /\ Entries' = Entries \cup {x}
    BY <1>5, ClassifyAdds
  <2>2. seen' = seen
    BY <1>5 DEF Classify
  <2>3. RootKeys' = RootKeys \cup {Key[x.dn]} /\ ResultKeys' = ResultKeys \cup {Key[x.dn]}
    BY <2>1 DEF RootKeys, Roots, ResultKeys
  <2> QED BY <2>2, <2>3 DEF Sound, Closed
<1>6. CASE Expand
  <2>1. results' = results /\ seen \subseteq seen'
    BY <1>6 DEF Expand
  <2>2. RootKeys' = RootKeys /\ ResultKeys' = ResultKeys
    BY <2>1 DEF RootKeys, Roots, ResultKeys, Entries
  <2>3. \A S : Closed(S)' => Closed(S)
    BY <2>1 DEF Closed
  <2> QED BY <2>2, <2>3 DEF Sound
<1>7. CASE Add
  <2>1. PICK x \in Entry : /\ x.via = "nested" /\ x.dn = Head(todo)
                           /\ Entries' = Entries \cup {x}
    BY <1>7, AddAdds
  <2>2. seen' = seen /\ pc = "values" /\ todo # <<>>
    BY <1>7 DEF Add
  <2>3. RootKeys' = RootKeys /\ ResultKeys' = ResultKeys \cup {Key[x.dn]}
    BY <2>1 DEF RootKeys, Roots, ResultKeys
  <2>4. PICK e \in Entries : e.dn = chain[Len(chain)]
    BY <2>2 DEF Traced
  <2>5. Head(todo) \in Range(todo)
    <3>1. todo \in Seq(Dn)
      BY DEF TypeOK
    <3> QED BY <2>2, <3>1, HeadTail
  <2>6. <<Key[e.dn], x.dn>> \in seen
    BY <2>1, <2>2, <2>4, <2>5 DEF Traced, Link
  <2>7. ASSUME NEW S \in SUBSET Keys, RootKeys \subseteq S, Closed(S)
        PROVE  Key[x.dn] \in S
    <3>1. Key[e.dn] \in S
      BY <2>7, <2>4 DEF Sound, ResultKeys
    <3> QED BY <2>6, <2>7, <3>1 DEF Closed
  <2>8. \A S : Closed(S)' <=> Closed(S)
    BY <2>2 DEF Closed
  <2> QED BY <2>3, <2>7, <2>8 DEF Sound
<1>8. CASE Quiet
  BY <1>1, <1>8, QuietStep
<1>9. CASE StartDescent \/ ExpandNothing \/ Skip \/ ValuesEnd \/ Report
  BY <1>1, <1>9 DEF StartDescent, ExpandNothing, Skip, ValuesEnd, Report
<1> QED BY <1>3, <1>4, <1>5, <1>6, <1>7, <1>8, <1>9, Steps

\* It holds always.
LEMMA Soundness == Spec => []Sound
<1>1. Init => Sound
  <2> SUFFICES ASSUME Init PROVE Sound
    OBVIOUS
  <2>1. Entries = {}
    BY DEF Init, Entries
  <2> QED BY <2>1 DEF Sound, ResultKeys
<1>2. Sound /\ UNCHANGED vars => Sound'
  BY DEF Sound, vars, RootKeys, ResultKeys, Roots, Entries, Closed
<1> QED BY <1>1, <1>2, SoundStep, WellTyped, Phases, Tracing, PTL DEF Spec

\* The verdict of is_member looks at the report.
Verdict ==
  pc = "done" /\ request.op = "is_member" => (outcome = "member" <=> target \in ResultKeys)

\* is_member answers what the report says.
LEMMA VerdictStep ==
  ASSUME TypeOK, Shape, Verdict, Next
  PROVE  Verdict'
<1>1. CASE pc' # "done"
  BY <1>1 DEF Verdict
<1>2. CASE Report
  BY <1>2 DEF Verdict, Report, ResultKeys, Entries
<1>3. CASE Primary \/ NoPrimary
  <2>1. PICK g \in Seq(Entry) : StartClimb(g)
    BY <1>3, ClimbStart
  <2> QED BY <2>1 DEF StartClimb, Verdict
<1>4. CASE DirectOnly
  <2>1. request.op = "members" /\ request' = request
    BY <1>4 DEF DirectOnly, Shape, Descends
  <2> QED BY <2>1 DEF Verdict
<1>5. CASE Quiet
  BY <1>1, <1>5, QuietStep
<1>6. CASE Classify \/ StartDescent \/ Expand \/ ExpandNothing \/ Skip \/ Add \/ ValuesEnd
  BY <1>1, <1>6 DEF Classify, StartDescent, Expand, ExpandNothing, Skip, Add, ValuesEnd
<1> QED BY <1>2, <1>3, <1>4, <1>5, <1>6, Steps

\* It holds always.
LEMMA Verdicts == Spec => []Verdict
<1>1. Init => Verdict
  BY DEF Init, Verdict
<1>2. Verdict /\ UNCHANGED vars => Verdict'
  BY DEF Verdict, vars, ResultKeys, Entries
<1> QED BY <1>1, <1>2, VerdictStep, WellTyped, Phases, PTL DEF Spec

\* The invariants together: at the end nothing is missing and nothing is extra.
LEMMA ClosureAtEnd ==
  ASSUME TypeOK, Shape, Apart, Covered, Sound, Verdict
  PROVE  ReportIsClosure
<1> SUFFICES ASSUME pc = "done", Nested
             PROVE  /\ ResultKeys = (Reached \ {top}) \cup RootKeys
                    /\ \A e \in Entries : e.class = "group" => Key[e.dn] \in asked
                    /\ request.op = "is_member" =>
                         (outcome = "member" <=> target \in Reached)
  BY DEF ReportIsClosure, Nested
<1>1. RootKeys \subseteq ResultKeys /\ ResultKeys \subseteq Keys
  <2>1. Entries \subseteq Entry
    BY SeqFun DEF TypeOK, Entries
  <2>2. \A e \in Entries : Key[e.dn] \in Keys
    BY <2>1, KeyType DEF Entry
  <2> QED BY <2>2 DEF RootKeys, Roots, ResultKeys
<1>2. ResultKeys \subseteq Reached
  BY <1>1 DEF Reached, Sound
<1>3. \A k \in ResultKeys : k = top => k \in RootKeys
  BY DEF Apart, ResultKeys, RootKeys, Roots
<1>4. ASSUME NEW k \in Reached, k # top PROVE k \in ResultKeys
  <2> DEFINE S == (ResultKeys \cup {top}) \cap Keys
  <2>1. S \in SUBSET Keys /\ RootKeys \subseteq S
    BY <1>1
  <2>2. ASSUME NEW link \in seen PROVE Key[link[2]] \in S
    <3>1. Key[link[2]] \in visited
      BY DEF Covered
    <3>2. Key[link[2]] \in Keys
      BY KeyType DEF TypeOK
    <3> QED BY <3>1, <3>2 DEF Apart, Visiting
  <2>3. Closed(S)
    BY <2>2 DEF Closed
  <2> HIDE DEF S
  <2>4. k \in S
    BY <2>1, <2>3 DEF Reached
  <2> QED BY <1>4, <2>4 DEF S
<1>5. ResultKeys = (Reached \ {top}) \cup RootKeys
  BY <1>1, <1>2, <1>3, <1>4
<1>6. \A e \in Entries : e.class = "group" => Key[e.dn] \in asked
  <2>1. Range(queue) = {}
    BY DEF Shape
  <2> HIDE DEF Nested
  <2> QED BY <2>1 DEF Covered
<1>7. request.op = "is_member" => (outcome = "member" <=> target \in Reached)
  <2> SUFFICES ASSUME request.op = "is_member" PROVE target \in ResultKeys <=> target \in Reached
    BY DEF Verdict
  <2>1. top = NoKey
    BY DEF Shape, Descends
  <2>2. NoKey \notin Reached
    BY NameAssumption DEF Reached
  <2> QED BY <1>1, <1>2, <1>5, <2>1, <2>2
<1> QED BY <1>5, <1>6, <1>7

\* SC-005, for every directory and whatever it answers: the report holds
\* exactly what the direct entries lead to, and is_member agrees with it.
THEOREM WholeClosure == Spec => []ReportIsClosure
BY ClosureAtEnd, WellTyped, Phases, NoneTwice, Covering, Soundness, Verdicts, PTL

-----------------------------------------------------------------------------
(***************************************************************************)
(* Breadth first: the queue is sorted, so chains are shortest.             *)
(***************************************************************************)
Sorted(q) == \A i, j \in DOMAIN q : i < j => Len(q[i].path) <= Len(q[j].path)

ShortLinks ==
  \A g, e \in Entries, d \in Dn :
    Link(g.dn, d) /\ Key[d] = Key[e.dn] => Len(e.path) <= Len(g.path) + 1

\* Groups wait in the order of their distance, which differs by one at most.
Levelled ==
  /\ Sorted(queue)
  /\ pc \in {"find", "redirect", "find_group", "primary", "direct"} =>
       \A e \in Entries : e.path = <<>>
  /\ pc = "walk" =>
       \A q \in Range(queue), e \in Entries : Len(e.path) <= Len(q.path) + 1
  /\ pc = "values" =>
       /\ \A e \in Entries : Len(e.path) <= Len(chain)
       /\ \A q \in Range(queue) : Len(chain) <= Len(q.path) + 1
  /\ ShortLinks

\* The first item of a sorted queue is nearest.
LEMMA SortedTail ==
  ASSUME NEW q \in Seq(Item), q # <<>>, Sorted(q)
  PROVE  /\ Sorted(Tail(q))
         /\ \A x \in Range(Tail(q)) : Len(Head(q).path) <= Len(x.path)
<1>1. /\ Len(q) \in Nat /\ Len(q) >= 1 /\ DOMAIN q = 1..Len(q) /\ Head(q) = q[1]
      /\ DOMAIN Tail(q) = 1..Len(q) - 1
      /\ \A i \in 1..Len(q) - 1 : Tail(q)[i] = q[i + 1]
  OBVIOUS
<1>2. Sorted(Tail(q))
  BY <1>1 DEF Sorted
<1>3. ASSUME NEW x \in Range(Tail(q)) PROVE Len(Head(q).path) <= Len(x.path)
  <2>1. PICK i \in 1..Len(q) - 1 : x = Tail(q)[i]
    BY <1>1, <1>3
  <2>2. x = q[i + 1] /\ 1 < i + 1 /\ i + 1 \in 1..Len(q) /\ 1 \in 1..Len(q)
    BY <1>1, <2>1
  <2> QED BY <1>1, <2>2 DEF Sorted
<1> QED BY <1>2, <1>3

\* Appending what is farthest keeps a queue sorted.
LEMMA SortedAppend ==
  ASSUME NEW q \in Seq(Item), NEW x \in Item, Sorted(q),
         \A y \in Range(q) : Len(y.path) <= Len(x.path)
  PROVE  Sorted(Append(q, x))
<1>1. /\ Len(q) \in Nat /\ DOMAIN q = 1..Len(q)
      /\ DOMAIN Append(q, x) = 1..Len(q) + 1
      /\ \A i \in 1..Len(q) : Append(q, x)[i] = q[i]
      /\ Append(q, x)[Len(q) + 1] = x
  OBVIOUS
<1>2. \A i \in 1..Len(q) : Len(q[i].path) <= Len(x.path)
  BY <1>1
<1> QED BY <1>1, <1>2 DEF Sorted

\* A key belongs to one entry.
LEMMA OneEntry ==
  ASSUME TypeOK, Apart, NEW g \in Entries, NEW e \in Entries, Key[g.dn] = Key[e.dn]
  PROVE  g = e
<1>1. PICK i, j \in DOMAIN results : g = results[i] /\ e = results[j]
  BY DEF Entries
<1> QED BY <1>1 DEF Apart, Unique

\* The lengths the steps compare are numbers.
LEMMA Lengths ==
  ASSUME TypeOK
  PROVE  /\ Len(chain) \in Nat
         /\ \A e \in Entries : e.path \in Seq(Dn) /\ Len(e.path) \in Nat /\ e.dn \in Dn
         /\ \A q \in Range(queue) : q.path \in Seq(Dn) /\ Len(q.path) \in Nat /\ q.dn \in Dn
<1>1. chain \in Seq(Dn) /\ queue \in Seq(Item)
  BY DEF TypeOK
<1>2. Entries \subseteq Entry /\ Range(queue) \subseteq Item
  BY SeqFun DEF TypeOK, Entries
<1> QED BY <1>1, <1>2, SMTT(20) DEF Entry, Item

\* Before the walk every chain is empty.
LEMMA Flat ==
  ASSUME Sorted(queue)', \A e \in Entries' : e.path = <<>>, seen' = {},
         \A q \in Range(queue') : q.path = <<>>, pc' # "values"
  PROVE  Levelled'
<1>1. Len(<<>>) = 0
  OBVIOUS
<1>2. \A q \in Range(queue'), e \in Entries' : Len(e.path) <= Len(q.path) + 1
  BY <1>1
<1>3. ShortLinks'
  BY DEF ShortLinks, Link
<1> QED BY <1>2, <1>3 DEF Levelled

\* The walk visits groups in the order of their distance.
LEMMA LevelledStep ==
  ASSUME TypeOK, TypeOK', Shape, Apart, Traced, Traced', Covered, Levelled, Next
  PROVE  Levelled'
<1>0. /\ Entries \subseteq Entry /\ Range(queue) \subseteq Item
      /\ todo \in Seq(Dn) /\ chain \in Seq(Dn) /\ queue \in Seq(Item)
  BY SeqFun DEF TypeOK, Entries
<1>1. CASE Quiet
  <2>1. UNCHANGED <<results, queue, seen>> /\ pc' \notin {"walk", "values"}
    BY <1>1, QuietStep
  <2>2. CASE results = <<>>
    <3>1. Entries' = {}
      BY <2>1, <2>2 DEF Entries
    <3> QED BY <2>1, <3>1 DEF Levelled, ShortLinks, Sorted
  <2>3. CASE pc' = "failed"
    BY <2>1, <2>3 DEF Levelled, ShortLinks, Sorted, Entries, Link
  <2> QED BY <1>1, <2>2, <2>3, QuietStep
<1>2. CASE Primary \/ NoPrimary
  <2>1. PICK g \in Seq(Entry) :
           /\ StartClimb(g) /\ pc = "primary" /\ Unique(g)
           /\ \A e \in Range(g) : e.via # "nested" /\ e.path = <<>>
    BY <1>2, ClimbStart
  <2>2. /\ Entries' = Range(g) /\ pc' # "values" /\ seen' = {}
        /\ queue' = [i \in DOMAIN g |-> AsItem(g[i].dn, <<>>)]
    BY <2>1 DEF StartClimb, Entries, Shape
  <2>3. \A i \in DOMAIN queue' : queue'[i].path = <<>>
    BY <2>2 DEF AsItem
  <2>4. Sorted(queue)' /\ \A q \in Range(queue') : q.path = <<>>
    BY <2>3 DEF Sorted
  <2> QED BY <2>1, <2>2, <2>4, Flat
<1>3. CASE DirectOnly
  <2>1. /\ results' = [i \in DOMAIN todo |-> Direct(todo[i], "direct", "unknown")]
        /\ queue' = <<>> /\ seen' = {} /\ pc' = "done"
    BY <1>3 DEF DirectOnly, Shape
  <2>2. \A e \in Entries' : e.path = <<>>
    BY <2>1 DEF Entries, Direct
  <2>3. Sorted(queue)' /\ Range(queue') = {}
    BY <2>1 DEF Sorted
  <2> QED BY <2>1, <2>2, <2>3, Flat
<1>4. CASE Classify
  <2>1. PICK x \in Entry :
           /\ x.path = <<>> /\ x.dn \in Dn /\ Entries' = Entries \cup {x}
           /\ IF x.class = "group"
                THEN /\ queue' = Append(queue, AsItem(x.dn, <<>>))
                     /\ Range(queue') = Range(queue) \cup {AsItem(x.dn, <<>>)}
                ELSE queue' = queue
    BY <1>4, ClassifyAdds
  <2>2. /\ seen' = {} /\ pc' = "direct" /\ pc = "direct"
    BY <1>4 DEF Classify, Shape
  <2>3. \A e \in Entries' : e.path = <<>>
    BY <2>1, <2>2 DEF Levelled
  <2>4. \A q \in Range(queue) : q.path = <<>>
    BY <2>2 DEF Levelled, Traced
  <2>5. \A q \in Range(queue') : q.path = <<>>
    BY <2>3, <2>2 DEF Traced
  <2>6. Sorted(queue)'
    <3>1. CASE x.class = "group"
      <4>1. AsItem(x.dn, <<>>) \in Item /\ AsItem(x.dn, <<>>).path = <<>>
        BY <2>1, SeqFun DEF AsItem, Item
      <4>2. \A q \in Range(queue) : Len(q.path) <= Len(AsItem(x.dn, <<>>).path)
        BY <2>4, <4>1
      <4>3. Sorted(queue)
        BY DEF Levelled
      <4>4. Sorted(Append(queue, AsItem(x.dn, <<>>)))
        BY <1>0, <4>1, <4>2, <4>3, SortedAppend
      <4>5. queue' = Append(queue, AsItem(x.dn, <<>>))
        BY <2>1, <3>1
      <4> QED BY <4>4, <4>5 DEF Sorted
    <3>2. CASE x.class # "group"
      BY <2>1, <3>2 DEF Levelled, Sorted
    <3> QED BY <3>1, <3>2
  <2> QED BY <2>2, <2>3, <2>5, <2>6, Flat
<1>5. CASE StartDescent
  <2>1. /\ UNCHANGED <<results, queue>> /\ seen' = {} /\ pc = "direct" /\ pc' = "walk"
    BY <1>5 DEF StartDescent, Shape
  <2>2. \A e \in Entries' : e.path = <<>>
    BY <2>1 DEF Levelled, Entries
  <2>3. \A q \in Range(queue') : q.path = <<>>
    BY <2>2 DEF Traced
  <2>4. Sorted(queue)'
    BY <2>1 DEF Levelled, Sorted
  <2> QED BY <2>1, <2>2, <2>3, <2>4, Flat
<1>6. CASE Expand
  <2> DEFINE h == Head(queue)
  <2>1. /\ h \in Range(queue) /\ Range(queue) = {h} \cup Range(Tail(queue))
        /\ queue # <<>> /\ queue' = Tail(queue) /\ Entries' = Entries
        /\ chain' = Append(h.path, h.dn)
        /\ seen' = seen \cup ({Key[h.dn]} \X Range(todo'))
        /\ pc = "walk" /\ pc' = "values"
    <3>1. /\ queue # <<>> /\ queue' = Tail(queue) /\ Entries' = Entries
          /\ chain' = Append(h.path, h.dn)
          /\ seen' = seen \cup ({Key[h.dn]} \X Range(todo'))
          /\ pc = "walk" /\ pc' = "values"
      BY <1>6 DEF Expand, Entries
    <3>2. Range(queue) = {h} \cup Range(Tail(queue))
      BY <1>0, <3>1, HeadTail
    <3> QED BY <3>1, <3>2
  <2>2. PICK f \in Entries : f.dn = h.dn /\ f.path = h.path
    BY <2>1 DEF Traced
  <2>3. \A q \in Range(queue') : Len(h.path) <= Len(q.path)
    BY <1>0, <2>1, SortedTail DEF Levelled
  <2>4. Sorted(queue)'
    <3>1. Sorted(Tail(queue))
      BY <1>0, <2>1, SortedTail DEF Levelled
    <3> QED BY <2>1, <3>1 DEF Sorted
  <2>5. \A e \in Entries : Len(e.path) <= Len(h.path) + 1
    BY <2>1 DEF Levelled
  <2> HIDE DEF h
  <2>6. Len(chain') = Len(h.path) + 1 /\ Len(h.path) \in Nat
    BY <2>1, Lengths
  <2>7. ShortLinks'
    <3>1. SUFFICES ASSUME NEW g \in Entries, NEW e \in Entries, NEW d \in Dn,
                          <<Key[g.dn], d>> \in seen', Key[d] = Key[e.dn]
                   PROVE  Len(e.path) <= Len(g.path) + 1
      BY <2>1 DEF ShortLinks, Link
    <3>2. CASE <<Key[g.dn], d>> \in seen
      BY <3>1, <3>2 DEF Levelled, ShortLinks, Link
    <3>3. CASE Key[g.dn] = Key[h.dn]
      <4>1. g = f
        BY <2>2, <3>3, OneEntry
      <4> QED BY <2>2, <2>5, <4>1
    <3> QED BY <2>1, <3>1, <3>2, <3>3
  <2>8. \A q \in Range(queue') : Len(chain') <= Len(q.path) + 1
    <3>1. \A q \in Range(queue') : Len(q.path) \in Nat
      BY <2>1, Lengths
    <3> QED BY <2>3, <2>6, <3>1
  <2>9. \A e \in Entries' : Len(e.path) <= Len(chain')
    BY <2>1, <2>5, <2>6
  <2> QED BY <2>1, <2>4, <2>7, <2>8, <2>9 DEF Levelled
<1>7. CASE ExpandNothing
  <2>1. /\ queue # <<>> /\ queue' = Tail(queue) /\ UNCHANGED <<results, seen, chain, pc>>
        /\ pc = "walk"
    BY <1>7 DEF ExpandNothing
  <2>2. Entries' = Entries /\ ShortLinks'
    BY <2>1 DEF Levelled, ShortLinks, Link, Entries
  <2>3. \A q \in Range(queue') : q \in Range(queue)
    BY <1>0, <2>1, HeadTail
  <2>4. Sorted(queue)'
    <3>1. Sorted(Tail(queue))
      BY <1>0, <2>1, SortedTail DEF Levelled
    <3> QED BY <2>1, <3>1 DEF Sorted
  <2>5. \A q \in Range(queue'), e \in Entries' : Len(e.path) <= Len(q.path) + 1
    BY <2>1, <2>2, <2>3 DEF Levelled
  <2> QED BY <2>1, <2>2, <2>4, <2>5 DEF Levelled
<1>8. CASE Skip
  BY <1>8 DEF Skip, Levelled, Sorted, ShortLinks, Link, Entries
<1>9. CASE ValuesEnd
  <2>1. UNCHANGED <<results, queue, seen>> /\ pc = "values" /\ pc' = "walk"
    BY <1>9 DEF ValuesEnd
  <2>2. Entries' = Entries /\ ShortLinks' /\ Sorted(queue)'
    BY <2>1 DEF Levelled, ShortLinks, Link, Entries, Sorted
  <2>3. \A q \in Range(queue'), e \in Entries' : Len(e.path) <= Len(q.path) + 1
    <3>1. TAKE q \in Range(queue'), e \in Entries'
    <3>2. Len(e.path) <= Len(chain) /\ Len(chain) <= Len(q.path) + 1
      BY <2>1, <2>2 DEF Levelled
    <3>3. Len(e.path) \in Nat /\ Len(chain) \in Nat /\ Len(q.path) \in Nat
      BY <2>1, <2>2, Lengths
    <3> QED BY <3>2, <3>3
  <2> QED BY <2>1, <2>2, <2>3 DEF Levelled
<1>10. CASE Add
  <2>1. PICK x \in Entry :
           /\ x.via = "nested" /\ x.path = chain /\ x.dn = Head(todo) /\ x.dn \in Dn
           /\ results' = Append(results, x) /\ Entries' = Entries \cup {x}
           /\ IF x.class = "group"
                THEN /\ queue' = Append(queue, AsItem(x.dn, chain))
                     /\ Range(queue') = Range(queue) \cup {AsItem(x.dn, chain)}
                ELSE queue' = queue
    BY <1>10, AddAdds
  <2>2. /\ UNCHANGED <<seen, chain>> /\ pc = "values" /\ pc' = "values"
        /\ Key[x.dn] \notin visited
    BY <1>10, <2>1 DEF Add
  <2> DEFINE y == AsItem(x.dn, chain)
  <2>3. y \in Item /\ y.path = chain
    BY <1>0, <2>1 DEF AsItem, Item
  <2>4. \A q \in Range(queue) : Len(q.path) <= Len(chain)
    BY <2>2 DEF Levelled, Traced
  <2> HIDE DEF y
  <2>5. Sorted(queue)'
    <3>1. CASE x.class = "group"
      <4>1. Sorted(Append(queue, y))
        BY <1>0, <2>3, <2>4, SortedAppend DEF Levelled
      <4>2. queue' = Append(queue, y)
        BY <2>1, <3>1 DEF y
      <4> QED BY <4>1, <4>2 DEF Sorted
    <3>2. CASE x.class # "group"
      BY <2>1, <3>2 DEF Levelled, Sorted
    <3> QED BY <3>1, <3>2
  <2>6. \A q \in Range(queue') : Len(chain') <= Len(q.path) + 1
    <3>1. \A q \in Range(queue') : q \in Range(queue) \/ q = y
      BY <2>1 DEF y
    <3>2. Len(chain) \in Nat
      BY Lengths
    <3>3. \A q \in Range(queue) : Len(chain) <= Len(q.path) + 1
      BY <2>2 DEF Levelled
    <3>4. Len(chain) <= Len(y.path) + 1
      BY <2>3, <3>2
    <3> QED BY <2>2, <3>1, <3>3, <3>4
  <2>7. \A e \in Entries' : Len(e.path) <= Len(chain')
    <3>1. Len(x.path) <= Len(chain)
      BY <2>1, Lengths
    <3> QED BY <2>1, <2>2, <3>1 DEF Levelled
  <2>8. ShortLinks'
    <3>1. SUFFICES ASSUME NEW g \in Entries', NEW e \in Entries', NEW d \in Dn,
                          <<Key[g.dn], d>> \in seen, Key[d] = Key[e.dn]
                   PROVE  Len(e.path) <= Len(g.path) + 1
      BY <2>2 DEF ShortLinks, Link
    <3>2. Key[g.dn] \in ResultKeys /\ ResultKeys \subseteq visited
      BY <2>2, <3>1 DEF Covered, Apart, Visiting
    <3>3. g \in Entries
      BY <2>1, <2>2, <3>2
    <3>4. CASE e \in Entries
      BY <3>1, <3>3, <3>4 DEF Levelled, ShortLinks, Link
    <3>5. CASE e = x
      <4>1. Key[g.dn] = Key[chain[Len(chain)]]
        BY <2>2, <3>1, <3>5 DEF Covered
      <4>2. PICK f \in Entries : f.dn = chain[Len(chain)] /\ Len(f.path) = Len(chain) - 1
        BY <2>2 DEF Traced
      <4>3. g = f
        BY <3>3, <4>1, <4>2, OneEntry
      <4> QED BY <2>1, <3>5, <4>2, <4>3, Lengths
    <3> QED BY <2>1, <3>4, <3>5
  <2> QED BY <2>2, <2>5, <2>6, <2>7, <2>8 DEF Levelled
<1>11. CASE Report
  <2>1. UNCHANGED <<results, queue, seen>> /\ pc' = "done"
    BY <1>11 DEF Report
  <2> QED BY <2>1 DEF Levelled, ShortLinks, Link, Entries, Sorted
<1> QED BY <1>1, <1>2, <1>3, <1>4, <1>5, <1>6, <1>7, <1>8, <1>9, <1>10, <1>11, Steps

\* It holds always.
LEMMA Levelling == Spec => []Levelled
<1>1. Init => Levelled
  <2> SUFFICES ASSUME Init PROVE Levelled
    OBVIOUS
  <2>1. Entries = {} /\ queue = <<>> /\ pc = "find"
    BY DEF Init, Entries
  <2> QED BY <2>1 DEF Levelled, ShortLinks, Sorted
<1>2. Levelled /\ UNCHANGED vars => Levelled'
  <2> SUFFICES ASSUME Levelled, UNCHANGED vars PROVE Levelled'
    OBVIOUS
  <2> QED BY DEF Levelled, vars, ShortLinks, Link, Entries, Sorted
<1> QED BY <1>1, <1>2, LevelledStep, WellTyped, Phases, NoneTwice, Tracing, Covering,
           PTL DEF Spec

\* FR-011: no link that was read leads to an entry in fewer steps than the
\* chain reported for it.
THEOREM ShortestChains == Spec => []NoShortcut
<1>1. Levelled => NoShortcut
  BY DEF Levelled, ShortLinks, NoShortcut
<1> QED BY <1>1, Levelling, PTL

\* EntriesTrue, _expand_nested and _expand_members: each entry is there once,
\* over a chain that was read and that no other link read shortens.
THEOREM TrueEntries == Spec => []EntriesTrue
BY WellTyped, ReportedOnce, TrueChains, ShortestChains, PTL DEF EntriesTrue

-----------------------------------------------------------------------------
(***************************************************************************)
(* Directory sizes: the tree of names.                                     *)
(***************************************************************************)
\* A set that holds a name and the directory of each of its members has the
\* whole lineage of the name.
LEMMA LineageLeast ==
  ASSUME NEW p \in Path, NEW S \in SUBSET Path, p \in S, \A r \in S \ {Root} : Above[r] \in S
  PROVE  Lineage[p] \subseteq S
BY DEF Lineage

LEMMA LineageClosed ==
  ASSUME NEW p \in Path
  PROVE  /\ Lineage[p] \subseteq Path
         /\ p \in Lineage[p]
         /\ \A r \in Lineage[p] \ {Root} : Above[r] \in Lineage[p]
<1>1. \A r \in Path \ {Root} : Above[r] \in Path
  BY PathAssumption
<1>. QED BY <1>1 DEF Lineage

LEMMA LineageWithin ==
  ASSUME NEW p \in Path, NEW q \in Lineage[p]
  PROVE  Lineage[q] \subseteq Lineage[p]
<1>1. q \in Path
  BY LineageClosed
<1>. QED BY <1>1, LineageClosed, LineageLeast

\* The root is in nothing, any other name is in what its directory is in.
LEMMA LineageOfRoot == Lineage[Root] = {Root}
<1>1. {Root} \in SUBSET Path /\ Root \in Path
  BY PathAssumption
<1>2. Lineage[Root] \subseteq {Root}
  BY <1>1, LineageLeast
<1>. QED BY <1>1, <1>2, LineageClosed

LEMMA LineageStep ==
  ASSUME NEW p \in Path \ {Root}
  PROVE  /\ Above[p] \in Path
         /\ Lineage[p] = {p} \cup Lineage[Above[p]]
         /\ p \notin Lineage[Above[p]]
<1>1. Above[p] \in Path
  BY PathAssumption
<1>2. Lineage[Above[p]] \subseteq Path /\ Above[p] \in Lineage[Above[p]]
      /\ \A r \in Lineage[Above[p]] \ {Root} : Above[r] \in Lineage[Above[p]]
  BY <1>1, LineageClosed
<1>3. Lineage[p] \subseteq {p} \cup Lineage[Above[p]]
  <2> DEFINE S == {p} \cup Lineage[Above[p]]
  <2>1. S \in SUBSET Path /\ p \in S /\ \A r \in S \ {Root} : Above[r] \in S
    BY <1>2
  <2> HIDE DEF S
  <2>2. Lineage[p] \subseteq S
    BY <2>1, LineageLeast
  <2>. QED BY <2>2 DEF S
<1>4. p \in Lineage[p] /\ Above[p] \in Lineage[p]
  BY LineageClosed
<1>5. Lineage[Above[p]] \subseteq Lineage[p]
  BY <1>4, LineageWithin
<1>. QED BY <1>1, <1>3, <1>4, <1>5, TreeAssumption

\* The directories a name is in are in one another.
LEMMA LineageChain ==
  ASSUME NEW p \in Path, NEW c \in Lineage[p], NEW d \in Lineage[p]
  PROVE  c \in Lineage[d] \/ d \in Lineage[c]
<1> DEFINE S == {q \in Lineage[p] : c \in Lineage[q] \/ q \in Lineage[c]}
<1>1. S \in SUBSET Path /\ p \in S /\ c \in Path
  BY LineageClosed
<1>2. ASSUME NEW q \in S \ {Root}
      PROVE  Above[q] \in S
  <2>1. q \in Path \ {Root} /\ Above[q] \in Lineage[p] /\ Above[q] \in Path
    BY <1>1, LineageClosed, PathAssumption
  <2>2. CASE q \in Lineage[c]
    BY <1>1, <2>1, <2>2, LineageClosed
  <2>3. CASE c \in Lineage[q] /\ c # q
    BY <2>1, <2>3, LineageStep
  <2>4. CASE c = q
    BY <1>1, <2>1, <2>4, LineageClosed
  <2>. QED BY <2>2, <2>3, <2>4
<1> HIDE DEF S
<1>3. Lineage[p] \subseteq S
  BY <1>1, <1>2, LineageLeast
<1>. QED BY <1>3 DEF S

\* A name is in one entry of a directory only.
LEMMA EntryUnique ==
  ASSUME NEW p \in Path, NEW c \in Lineage[p] \ {Root}, NEW d \in Lineage[p] \ {Root},
         Above[c] = Above[d]
  PROVE  c = d
<1>1. c \in Path \ {Root} /\ d \in Path \ {Root}
  BY LineageClosed
<1>2. c \in Lineage[d] \/ d \in Lineage[c]
  BY LineageChain
<1>. QED BY <1>1, <1>2, LineageStep

\* What a name is in, it is, or is in an entry of.
LEMMA EntryBetween ==
  ASSUME NEW p \in Path, NEW d \in Lineage[p], d # p
  PROVE  \E c \in Lineage[p] \ {Root} : Above[c] = d
<1> DEFINE S == {q \in Lineage[p] : q = p \/ \E c \in Lineage[p] \ {Root} : Above[c] = q}
<1>1. S \in SUBSET Path /\ p \in S
  BY LineageClosed
<1>2. \A r \in S \ {Root} : Above[r] \in S
  BY LineageClosed
<1> HIDE DEF S
<1>3. Lineage[p] \subseteq S
  BY <1>1, <1>2, LineageLeast
<1>. QED BY <1>3 DEF S

-----------------------------------------------------------------------------
(***************************************************************************)
(* Sizes.                                                                  *)
(***************************************************************************)
File == [path : Path, size : Size]

LEMMA BytesOfOne ==
  ASSUME NEW f \in File
  PROVE  /\ IsFiniteSet(Bytes({f}))
         /\ Cardinality(Bytes({f})) = f.size
<1>1. f.size \in Nat
  BY SizeAssumption DEF File
<1>2. Bytes({f}) = {f} \X (1 .. f.size)
  BY DEF Bytes
<1>3. IsFiniteSet({f}) /\ Cardinality({f}) = 1
  BY FS_Singleton
<1>4. IsFiniteSet(1 .. f.size) /\ Cardinality(1 .. f.size) = f.size
  BY <1>1, FS_Interval, SMTT(20)
<1>5. /\ IsFiniteSet({f} \X (1 .. f.size))
      /\ Cardinality({f} \X (1 .. f.size)) = Cardinality({f}) * Cardinality(1 .. f.size)
  BY <1>3, <1>4, FS_Product
<1>6. 1 * f.size = f.size
  BY <1>1
<1>. QED BY <1>2, <1>3, <1>4, <1>5, <1>6

LEMMA BytesFinite ==
  ASSUME NEW F \in SUBSET File, IsFiniteSet(F)
  PROVE  IsFiniteSet(Bytes(F)) /\ Cardinality(Bytes(F)) \in Nat
<1> DEFINE parts == {{f} \X (1 .. f.size) : f \in F}
<1>1. IsFiniteSet(parts)
  <2> DEFINE g == [f \in F |-> {f} \X (1 .. f.size)]
  <2>1. g \in Surjection(F, parts)
    BY DEF Surjection
  <2> HIDE DEF g, parts
  <2>. QED BY <2>1, FS_Surjection
<1>2. \A x \in parts : IsFiniteSet(x)
  <2> SUFFICES ASSUME NEW f \in F PROVE IsFiniteSet({f} \X (1 .. f.size))
    OBVIOUS
  <2>1. Bytes({f}) = {f} \X (1 .. f.size)
    BY DEF Bytes
  <2>. QED BY <2>1, BytesOfOne
<1> HIDE DEF parts
<1>3. IsFiniteSet(UNION parts)
  BY <1>1, <1>2, FS_UNION
<1>4. Bytes(F) = UNION parts
  BY DEF Bytes, parts
<1>. QED BY <1>3, <1>4, FS_CardinalityType

\* Different files have different bytes.
LEMMA BytesAdd ==
  ASSUME NEW F \in SUBSET File, NEW G \in SUBSET File,
         IsFiniteSet(F), IsFiniteSet(G), F \cap G = {}
  PROVE  Cardinality(Bytes(F \cup G)) = Cardinality(Bytes(F)) + Cardinality(Bytes(G))
<1>1. Bytes(F \cup G) = Bytes(F) \cup Bytes(G) /\ Bytes(F) \cap Bytes(G) = {}
  BY DEF Bytes
<1>2. IsFiniteSet(Bytes(F)) /\ IsFiniteSet(Bytes(G))
      /\ Cardinality(Bytes(F)) \in Nat /\ Cardinality(Bytes(G)) \in Nat
  BY BytesFinite
<1>3. Cardinality(Bytes(F) \cap Bytes(G)) = 0
  BY <1>1, FS_EmptySet
<1>4. Cardinality(Bytes(F) \cup Bytes(G)) =
        Cardinality(Bytes(F)) + Cardinality(Bytes(G)) - Cardinality(Bytes(F) \cap Bytes(G))
  BY <1>2, FS_Union
<1>5. \A m, n \in Nat : m + n - 0 = m + n
  OBVIOUS
<1>. QED BY <1>1, <1>2, <1>3, <1>4, <1>5

-----------------------------------------------------------------------------
(***************************************************************************)
(* Types.                                                                  *)
(***************************************************************************)
Place == [path : Path, depth : Nat]
Code == {"OK", "USAGE", "NOT_FOUND", "PERMISSION_DENIED", "PARTIAL"}

\* Taking the last element of a sequence away.
LEMMA FrontLast ==
  ASSUME NEW T, NEW s \in Seq(T), s # <<>>
  PROVE  /\ Len(s) \in Nat \ {0} /\ DOMAIN s = 1 .. Len(s)
         /\ Last(s) = s[Len(s)] /\ Last(s) \in T
         /\ Front(s) \in Seq(T) /\ Len(Front(s)) = Len(s) - 1
         /\ DOMAIN Front(s) = 1 .. Len(s) - 1
         /\ \A i \in 1 .. Len(s) - 1 : Front(s)[i] = s[i]
<1>1. Len(s) \in Nat \ {0} /\ DOMAIN s = 1 .. Len(s) /\ s[Len(s)] \in T
  OBVIOUS
<1>2. Front(s) = SubSeq(s, 1, Len(s) - 1) /\ Last(s) = s[Len(s)]
  BY DEF Front, Last
<1>. QED BY <1>1, <1>2

\* What the command goes on with.
Going == stage \in {"check", "walk"} => Len(codes) < targets

TypeInv == SizeTypeOK /\ Going

\* The walk begins with the root and does not come back to it; what is looked at
\* are entries of the directory last visited.
RootFirst ==
  /\ preorder # <<>> => preorder[1].path = Root
  /\ \A i \in DOMAIN preorder : i > 1 => preorder[i].path # Root
  /\ entries # {} => preorder # <<>>
  /\ \A p \in entries : p # Root /\ Above[p] = Last(preorder).path

LEMMA SizeTypeInit == SizeInit => TypeInv
<1> SUFFICES ASSUME SizeInit PROVE TypeInv
  OBVIOUS
<1>1. <<>> \in Seq(Place) /\ <<>> \in Seq(Code) /\ Len(<<>>) = 0
  OBVIOUS
<1>2. targets \in Nat \ {0}
  BY SizeAssumption DEF SizeInit
<1>3. includeHidden \in BOOLEAN
  BY Zenon DEF SizeInit
<1>4. total \in [Path -> Nat]
  BY DEF SizeInit
<1>. QED BY <1>1, <1>2, <1>3, <1>4 DEF SizeInit, TypeInv, SizeTypeOK, Going, Place, Code

LEMMA EndTargetType ==
  ASSUME TypeInv, NEW code \in Code, NEW r, EndTarget(code, r), stage \in {"check", "walk"},
         UNCHANGED targets
  PROVE  /\ codes' \in Seq(Code) /\ Len(codes') <= targets'
         /\ stage' \in {"check", "exit"}
         /\ stage' = "check" => Len(codes') < targets'
         /\ stage' = "exit" => codes' # <<>>
         /\ result' = r
         /\ codes'[Len(codes')] = code
<1>1. codes \in Seq(Code) /\ targets \in Nat /\ Len(codes) \in Nat /\ Len(codes) < targets
  BY SizeAssumption DEF TypeInv, SizeTypeOK, Going, Code
<1>2. codes' = Append(codes, code) /\ result' = r
      /\ stage' = IF Len(codes') = targets THEN "exit" ELSE "check"
  BY DEF EndTarget
<1>3. codes' \in Seq(Code) /\ Len(codes') = Len(codes) + 1 /\ codes'[Len(codes')] = code /\ codes' # <<>>
  BY <1>1, <1>2
<1>. QED BY <1>1, <1>2, <1>3

LEMMA SizeTypeStep ==
  ASSUME TypeInv, RootFirst, [SizeNext]_sizeVars
  PROVE  TypeInv'
<1> USE DEF options
<1>1. CASE Reject
  <2>1. PICK code \in Code : EndTarget(code, Nothing)
    BY <1>1 DEF Reject, Code
  <2>2. stage = "check" /\ UNCHANGED <<options, walkVars, exitCode>>
    BY <1>1 DEF Reject
  <2>. QED BY <2>1, <2>2, EndTargetType DEF TypeInv, SizeTypeOK, Going, walkVars, Code
<1>2. CASE Break
  BY <1>2 DEF Break, TypeInv, SizeTypeOK, Going, walkVars
<1>3. CASE FindRoot
  <2>1. stack' \in Seq(Place) /\ preorder' \in Seq(Place)
    BY <1>3, PathAssumption DEF FindRoot, Place
  <2>2. total' \in [Path -> Nat]
    BY <1>3 DEF FindRoot
  <2>. QED BY <1>3, <2>1, <2>2 DEF FindRoot, TypeInv, SizeTypeOK, Going, Place
<1>4. ASSUME Visit
      PROVE  /\ stack' \in Seq(Place) /\ preorder' \in Seq(Place) /\ Last(stack) \in Place
  <2>1. stack \in Seq(Place) /\ stack # <<>> /\ preorder \in Seq(Place)
    BY <1>4 DEF Visit, TypeInv, SizeTypeOK, Place
  <2>2. Front(stack) \in Seq(Place) /\ Last(stack) \in Place
    BY <2>1, FrontLast
  <2>. QED BY <1>4, <2>1, <2>2 DEF Visit
<1>5. CASE List
  <2>1. Visit /\ entries' \subseteq Path
        /\ met' = met \cup entries' /\ known' = known \cup {Last(stack).path}
    BY <1>5 DEF List, Children
  <2>2. met' \subseteq Path /\ known' \subseteq Path
    BY <1>4, <2>1 DEF TypeInv, SizeTypeOK, Place
  <2>. QED BY <1>4, <1>5, <2>1, <2>2 DEF List, TypeInv, SizeTypeOK, Going, Place
<1>6. CASE ListFails
  <2>1. Visit /\ stage = "walk" /\ Last(stack).path \in Path
    BY <1>4, <1>6 DEF ListFails, Visit, Place
  <2>2. CASE Last(stack).path = Root
    <3>1. EndTarget("PERMISSION_DENIED", Nothing) /\ UNCHANGED <<incomplete, inaccessible>>
          /\ UNCHANGED <<options, entries, total, fileCount, rolled, counted, met, known, exitCode>>
      BY <1>6, <2>2 DEF ListFails
    <3>2. "PERMISSION_DENIED" \in Code
      BY DEF Code
    <3>3. /\ codes' \in Seq(Code) /\ Len(codes') <= targets'
          /\ stage' \in {"check", "exit"}
          /\ stage' = "check" => Len(codes') < targets'
      BY <2>1, <3>1, <3>2, EndTargetType
    <3>. QED BY <1>4, <2>1, <3>1, <3>3 DEF TypeInv, SizeTypeOK, Going, Place, Code
  <2>3. CASE Last(stack).path # Root
    <3>1. /\ incomplete' = incomplete \cup {Last(stack).path}
          /\ inaccessible' = inaccessible \cup {Last(stack).path}
          /\ UNCHANGED <<stage, result, codes>>
          /\ UNCHANGED <<options, entries, total, fileCount, rolled, counted, met, known, exitCode>>
      BY <1>6, <2>3 DEF ListFails
    <3>. QED BY <1>4, <2>1, <3>1 DEF TypeInv, SizeTypeOK, Going, Place
  <2>. QED BY <2>2, <2>3
<1>7. CASE RollUp
  <2> DEFINE p == preorder[Len(preorder) - rolled].path
  <2>1. p \in Path \ {Root}
    <3>1. preorder \in Seq(Place) /\ rolled \in Nat /\ rolled < Len(preorder) - 1
      BY <1>7 DEF RollUp, TypeInv, SizeTypeOK, Place
    <3>2. Len(preorder) - rolled \in DOMAIN preorder /\ Len(preorder) - rolled > 1
      BY <3>1
    <3>3. preorder[Len(preorder) - rolled] \in Place
      BY <3>1, <3>2
    <3>. QED BY <3>2, <3>3 DEF Place, RootFirst
  <2>2. AddToParent(p) /\ UNCHANGED <<options, stage, stack, preorder, entries, inaccessible, fileCount, counted, met, known, result, codes, exitCode>>
        /\ rolled' = rolled + 1
    BY <1>7 DEF RollUp
  <2> HIDE DEF p
  <2>3. total' = [total EXCEPT ![Above[p]] = @ + total[p]]
        /\ incomplete' = IF p \in incomplete THEN incomplete \cup {Above[p]} ELSE incomplete
    BY <2>2 DEF AddToParent
  <2>4. Above[p] \in Path /\ total \in [Path -> Nat] /\ incomplete \subseteq Path
    BY <2>1, PathAssumption DEF TypeInv, SizeTypeOK
  <2>5. total' \in [Path -> Nat]
    BY <2>1, <2>3, <2>4
  <2>6. incomplete' \subseteq Path
    BY <2>3, <2>4
  <2>7. rolled' \in Nat
    BY <2>2 DEF TypeInv, SizeTypeOK
  <2>. QED BY <2>2, <2>5, <2>6, <2>7 DEF TypeInv, SizeTypeOK, Going
<1>8. CASE Finish
  <2>1. \E code \in Code : \E r : EndTarget(code, r)
    BY <1>8 DEF Finish, Code
  <2>2. stage = "walk" /\ UNCHANGED <<options, walkVars, exitCode>>
    BY <1>8 DEF Finish, Walked
  <2>3. /\ codes' \in Seq(Code) /\ Len(codes') <= targets'
        /\ stage' \in {"check", "exit"}
        /\ stage' = "check" => Len(codes') < targets'
    BY <2>1, <2>2, EndTargetType
  <2>. QED BY <2>2, <2>3 DEF TypeInv, SizeTypeOK, Going, walkVars, Code
<1>9. CASE Exit
  <2>1. exitCode' \in Range(codes) \cup {"OK", "PARTIAL"}
    BY <1>9, AggregateOneOf DEF Exit
  <2>2. Range(codes) \subseteq Code
    BY DEF TypeInv, SizeTypeOK, Code
  <2>. QED BY <1>9, <2>1, <2>2 DEF Exit, TypeInv, SizeTypeOK, Going, walkVars, Code
<1>10. ASSUME NEW p \in Path, LookAt(p)
       PROVE  /\ entries' \subseteq Path
              /\ UNCHANGED <<options, stage, preorder, rolled, met, result, codes, exitCode>>
  BY <1>10 DEF LookAt, TypeInv, SizeTypeOK
<1>12. ASSUME NEW p \in Path, SkipHidden(p) \/ SkipSpecial(p)
       PROVE  TypeInv'
  <2>1. /\ LookAt(p) /\ UNCHANGED <<stack, total, incomplete, inaccessible, fileCount, counted>>
        /\ known' \subseteq known \cup {p}
    BY <1>12 DEF SkipHidden, SkipSpecial
  <2>2. known' \subseteq Path
    BY <2>1 DEF TypeInv, SizeTypeOK
  <2>. QED BY <1>10, <2>1, <2>2 DEF TypeInv, SizeTypeOK, Going
<1>13. ASSUME NEW p \in Path, LookAt(p)
       PROVE  preorder # <<>> /\ Last(preorder).path \in Path /\ Last(preorder).depth \in Nat
  <2>1. preorder # <<>> /\ preorder \in Seq(Place)
    BY <1>13 DEF LookAt, RootFirst, TypeInv, SizeTypeOK, Place
  <2>2. Last(preorder) \in Place
    BY <2>1, FrontLast
  <2>. QED BY <2>1, <2>2 DEF Place
<1>14. ASSUME NEW p \in Path, IsDirectory(p)
       PROVE  TypeInv'
  <2>1. /\ LookAt(p) /\ UNCHANGED <<total, incomplete, inaccessible, fileCount, counted, known>>
        /\ stack' = Append(stack, [path |-> p, depth |-> Last(preorder).depth + 1])
    BY <1>14 DEF IsDirectory
  <2>2. stack' \in Seq(Place)
    BY <1>13, <2>1 DEF TypeInv, SizeTypeOK, Place
  <2>. QED BY <1>10, <2>1, <2>2 DEF TypeInv, SizeTypeOK, Going, Place
<1>15. ASSUME NEW p \in Path, IsFile(p)
       PROVE  TypeInv'
  <2>1. PICK size \in Size :
          /\ total' = [total EXCEPT ![Last(preorder).path] = @ + size]
          /\ counted' = counted \cup {[path |-> p, size |-> size]}
    BY <1>15 DEF IsFile
  <2>2. /\ LookAt(p) /\ fileCount' = fileCount + 1 /\ UNCHANGED <<stack, incomplete, inaccessible>>
        /\ known' = known \cup {p}
    BY <1>15 DEF IsFile
  <2>3. size \in Nat
    BY SizeAssumption
  <2>4. total' \in [Path -> Nat]
    BY <1>13, <2>1, <2>2, <2>3 DEF TypeInv, SizeTypeOK
  <2>5. counted' \subseteq [path : Path, size : Size]
    BY <2>1 DEF TypeInv, SizeTypeOK
  <2>6. fileCount' \in Nat /\ known' \subseteq Path
    BY <2>2 DEF TypeInv, SizeTypeOK
  <2>. QED BY <1>10, <2>2, <2>4, <2>5, <2>6 DEF TypeInv, SizeTypeOK, Going
<1>16. ASSUME NEW p \in Path, EntryFails(p)
       PROVE  TypeInv'
  <2>1. /\ LookAt(p) /\ UNCHANGED <<stack, total, fileCount, counted, known>>
        /\ incomplete' = incomplete \cup {Last(preorder).path}
        /\ inaccessible' = inaccessible \cup {p}
    BY <1>16 DEF EntryFails
  <2>. QED BY <1>10, <1>13, <2>1 DEF TypeInv, SizeTypeOK, Going
<1>11. CASE UNCHANGED sizeVars
  BY <1>11 DEF sizeVars, walkVars, TypeInv, SizeTypeOK, Going
<1>. QED BY <1>1, <1>2, <1>3, <1>5, <1>6, <1>7, <1>8, <1>9, <1>11, <1>12, <1>14, <1>15, <1>16 DEF SizeNext

-----------------------------------------------------------------------------
(***************************************************************************)
(* Places: every name is met once, beneath a directory that was visited.   *)
(***************************************************************************)
Stacked == {stack[i].path : i \in DOMAIN stack}
Named == {f.path : f \in counted}

OnceEach ==
  /\ \A i, j \in DOMAIN preorder : preorder[i].path = preorder[j].path => i = j
  /\ \A i, j \in DOMAIN stack : stack[i].path = stack[j].path => i = j
  /\ Visited \cap Stacked = {}
  /\ entries \cap (Visited \cup Stacked \cup Named \cup inaccessible) = {}
  /\ Named \cap (Visited \cup Stacked \cup inaccessible) = {}
  /\ inaccessible \cap Stacked = {}
  /\ \A f, g \in counted : f.path = g.path => f = g

Beneath ==
  /\ \A p \in Stacked : p # Root => Above[p] \in Visited
  /\ \A p \in entries \cup Named \cup inaccessible : p # Root /\ Above[p] \in Visited
  /\ \A i \in DOMAIN preorder :
       i > 1 => \E j \in 1 .. i - 1 : preorder[j].path = Above[preorder[i].path]

Places == RootFirst /\ OnceEach /\ Beneath

\* What a visit does to the sets of names.
LEMMA VisitMoves ==
  ASSUME TypeInv, OnceEach, Visit
  PROVE  /\ Last(stack) \in Place /\ Last(stack).path \in Stacked \ Visited
         /\ Stacked' = Stacked \ {Last(stack).path}
         /\ Visited' = Visited \cup {Last(stack).path}
         /\ Len(preorder) \in Nat /\ DOMAIN preorder = 1 .. Len(preorder)
         /\ DOMAIN preorder' = 1 .. Len(preorder) + 1 /\ Len(preorder') = Len(preorder) + 1
         /\ preorder'[Len(preorder) + 1] = Last(stack) /\ Last(preorder') = Last(stack)
         /\ \A i \in DOMAIN preorder : preorder'[i] = preorder[i]
         /\ \A i, j \in DOMAIN stack' : stack'[i].path = stack'[j].path => i = j
         /\ \A i \in DOMAIN stack' : i \in DOMAIN stack /\ stack'[i] = stack[i]
<1>1. stack \in Seq(Place) /\ preorder \in Seq(Place) /\ stack # <<>>
      /\ stack' = Front(stack) /\ preorder' = Append(preorder, Last(stack))
  BY DEF Visit, TypeInv, SizeTypeOK, Place
<1> DEFINE n == Len(stack)
<1>2. /\ n \in Nat \ {0} /\ DOMAIN stack = 1 .. n
      /\ Last(stack) = stack[n] /\ Last(stack) \in Place
      /\ DOMAIN stack' = 1 .. n - 1
      /\ \A i \in 1 .. n - 1 : stack'[i] = stack[i]
  BY <1>1, FrontLast
<1> HIDE DEF n
<1>3. /\ Len(preorder) \in Nat /\ DOMAIN preorder = 1 .. Len(preorder)
      /\ DOMAIN preorder' = 1 .. Len(preorder) + 1 /\ Len(preorder') = Len(preorder) + 1
      /\ preorder'[Len(preorder) + 1] = Last(stack)
      /\ \A i \in DOMAIN preorder : preorder'[i] = preorder[i]
  BY <1>1, <1>2
<1>4. Last(preorder') = Last(stack)
  BY <1>3 DEF Last
<1>5. Visited' = Visited \cup {Last(stack).path}
  BY <1>3 DEF Visited
<1>6. \A i \in 1 .. n - 1 : i \in 1 .. n /\ i # n
  BY <1>2
<1>7. Last(stack).path \in Stacked \ Visited
  BY <1>2 DEF OnceEach, Stacked
<1>8. Stacked' = Stacked \ {Last(stack).path}
  <2>1. \A i \in 1 .. n : i = n \/ i \in 1 .. n - 1
    BY <1>2
  <2>2. n \in 1 .. n
    BY <1>2
  <2>3. \A i \in 1 .. n - 1 : stack[i].path # stack[n].path
    BY <1>2, <1>6, <2>2 DEF OnceEach
  <2>4. Stacked = {stack[i].path : i \in 1 .. n - 1} \cup {stack[n].path}
    BY <1>2, <1>6, <2>1, <2>2 DEF Stacked
  <2>5. Stacked' = {stack[i].path : i \in 1 .. n - 1}
    BY <1>2 DEF Stacked
  <2>. QED BY <1>2, <2>3, <2>4, <2>5
<1>9. \A i \in DOMAIN stack' : i \in DOMAIN stack /\ stack'[i] = stack[i]
  BY <1>2, <1>6
<1>10. \A i, j \in DOMAIN stack' : stack'[i].path = stack'[j].path => i = j
  BY <1>9 DEF OnceEach
<1>. QED BY <1>2, <1>3, <1>4, <1>5, <1>7, <1>8, <1>9, <1>10

\* A directory is entered once.
LEMMA PlacesVisit ==
  ASSUME TypeInv, Places, Visit, UNCHANGED counted,
         \/ entries' = {} /\ inaccessible' \subseteq inaccessible \cup ({Last(stack).path} \ {Root})
         \/ entries' \subseteq Children(Last(stack).path) /\ UNCHANGED inaccessible
  PROVE  Places'
<1> DEFINE d == Last(stack).path
<1>1. /\ Last(stack) \in Place /\ d \in Stacked \ Visited
      /\ Stacked' = Stacked \ {d}
      /\ Visited' = Visited \cup {d}
      /\ Len(preorder) \in Nat /\ DOMAIN preorder = 1 .. Len(preorder)
      /\ DOMAIN preorder' = 1 .. Len(preorder) + 1 /\ Len(preorder') = Len(preorder) + 1
      /\ preorder'[Len(preorder) + 1] = Last(stack) /\ Last(preorder') = Last(stack)
      /\ \A i \in DOMAIN preorder : preorder'[i] = preorder[i]
      /\ \A i, j \in DOMAIN stack' : stack'[i].path = stack'[j].path => i = j
  BY VisitMoves DEF Places
<1>2. d \in Path /\ preorder'[Len(preorder) + 1].path = d /\ Last(preorder').path = d
  BY <1>1 DEF Place
<1>3. entries = {} /\ Named' = Named
  BY DEF Visit, Named
<1> HIDE DEF d
<1>4. preorder = <<>> => d = Root
  <2>1. preorder = <<>> => Visited = {}
    BY DEF Visited
  <2>. QED BY <1>1, <2>1 DEF Places, Beneath
<1>5. preorder # <<>> => d # Root
  <2>1. preorder # <<>> => 1 \in DOMAIN preorder
    BY <1>1 DEF TypeInv, SizeTypeOK
  <2>2. preorder # <<>> => Root \in Visited
    BY <2>1 DEF Visited, Places, RootFirst
  <2>. QED BY <1>1, <2>2
<1>6. preorder = <<>> <=> Len(preorder) = 0
  BY DEF TypeInv, SizeTypeOK
<1>7. \A p \in Visited : p # Root => Above[p] \in Visited
  <2> SUFFICES ASSUME NEW i \in DOMAIN preorder, preorder[i].path # Root
               PROVE  Above[preorder[i].path] \in Visited
    BY DEF Visited
  <2>1. i > 1
    <3>1. i \in Nat /\ i >= 1 /\ preorder # <<>>
      BY <1>1
    <3>. QED BY <3>1 DEF Places, RootFirst
  <2>2. PICK j \in 1 .. i - 1 : preorder[j].path = Above[preorder[i].path]
    BY <2>1 DEF Places, Beneath
  <2>3. j \in DOMAIN preorder
    BY <1>1, <2>2
  <2>. QED BY <2>2, <2>3 DEF Visited
\* What is beneath the directory has not been met yet.
<1>8. \A p \in Children(d) : p # Root /\ Above[p] = d
                             /\ p \notin Visited' \cup Stacked' \cup Named \cup inaccessible
  <2> SUFFICES ASSUME NEW p \in Children(d), p \in Visited \cup {d} \cup Stacked \cup Named \cup inaccessible
               PROVE  FALSE
    BY <1>1 DEF Children
  <2>1. p \in Path \ {Root} /\ Above[p] = d
    BY DEF Children
  <2>2. p # d
    <3>1. p \notin Lineage[d] /\ d \in Lineage[d]
      BY <1>2, <2>1, LineageStep, LineageClosed
    <3>. QED BY <3>1
  <2>3. Above[p] \in Visited
    BY <1>7, <2>1, <2>2 DEF Places, Beneath
  <2>. QED BY <1>1, <2>1, <2>3
<1>9. inaccessible' \subseteq inaccessible \cup ({d} \ {Root})
  BY DEF d
<1>10. entries' \subseteq Children(d) /\ (entries' = {} \/ UNCHANGED inaccessible)
  BY DEF d
<1>11. RootFirst'
  <2>1. preorder' # <<>> /\ preorder'[1].path = Root
    <3>1. CASE preorder = <<>>
      BY <1>1, <1>2, <1>4, <1>6, <3>1
    <3>2. CASE preorder # <<>>
      <4>1. 1 \in DOMAIN preorder
        BY <1>1, <1>6, <3>2
      <4>. QED BY <1>1, <3>2, <4>1 DEF Places, RootFirst
    <3>. QED BY <3>1, <3>2
  <2>2. \A i \in DOMAIN preorder' : i > 1 => preorder'[i].path # Root
    <3> SUFFICES ASSUME NEW i \in DOMAIN preorder', i > 1
                 PROVE  preorder'[i].path # Root
      OBVIOUS
    <3>1. CASE i = Len(preorder) + 1
      BY <1>1, <1>2, <1>5, <1>6, <3>1
    <3>2. CASE i # Len(preorder) + 1
      <4>1. i \in DOMAIN preorder
        BY <1>1, <3>2
      <4>. QED BY <1>1, <4>1 DEF Places, RootFirst
    <3>. QED BY <3>1, <3>2
  <2>3. \A p \in entries' : p # Root /\ Above[p] = Last(preorder').path
    BY <1>2, <1>8, <1>10
  <2>. QED BY <2>1, <2>2, <2>3 DEF RootFirst
<1>12. OnceEach'
  <2>1. \A i, j \in DOMAIN preorder' : preorder'[i].path = preorder'[j].path => i = j
    <3>1. \A i \in DOMAIN preorder' : i \in DOMAIN preorder \/ i = Len(preorder) + 1
      BY <1>1
    <3>2. \A i \in DOMAIN preorder : preorder'[i].path \in Visited /\ preorder'[i] = preorder[i]
      BY <1>1 DEF Visited
    <3>3. d \notin Visited
      BY <1>1
    <3>. QED BY <1>2, <3>1, <3>2, <3>3 DEF Places, OnceEach
  <2>2. Visited' \cap Stacked' = {}
    BY <1>1 DEF Places, OnceEach
  <2>3. entries' \cap (Visited' \cup Stacked' \cup Named' \cup inaccessible') = {}
    BY <1>3, <1>8, <1>10
  <2>4. Named' \cap (Visited' \cup Stacked' \cup inaccessible') = {}
    BY <1>1, <1>3, <1>9 DEF Places, OnceEach
  <2>5. inaccessible' \cap Stacked' = {}
    BY <1>1, <1>9 DEF Places, OnceEach
  <2>6. \A f, g \in counted' : f.path = g.path => f = g
    BY DEF Places, OnceEach
  <2>. QED BY <1>1, <2>1, <2>2, <2>3, <2>4, <2>5, <2>6 DEF OnceEach
<1>13. Beneath'
  <2>1. \A p \in Stacked' : p # Root => Above[p] \in Visited'
    BY <1>1 DEF Places, Beneath
  <2>2. \A p \in entries' \cup Named' \cup inaccessible' : p # Root /\ Above[p] \in Visited'
    <3>1. \A p \in entries' : p # Root /\ Above[p] = d
      BY <1>8, <1>10
    <3>2. d # Root => Above[d] \in Visited
      BY <1>1 DEF Places, Beneath
    <3>. QED BY <1>1, <1>3, <1>9, <3>1, <3>2 DEF Places, Beneath
  <2>3. \A i \in DOMAIN preorder' :
          i > 1 => \E j \in 1 .. i - 1 : preorder'[j].path = Above[preorder'[i].path]
    <3> SUFFICES ASSUME NEW i \in DOMAIN preorder', i > 1
                 PROVE  \E j \in 1 .. i - 1 : preorder'[j].path = Above[preorder'[i].path]
      OBVIOUS
    <3>1. CASE i = Len(preorder) + 1
      <4>1. d # Root
        BY <1>1, <1>5, <1>6, <3>1
      <4>2. Above[d] \in Visited
        BY <1>1, <4>1 DEF Places, Beneath
      <4>3. PICK j \in DOMAIN preorder : preorder[j].path = Above[d]
        BY <4>2 DEF Visited
      <4>4. j \in 1 .. i - 1
        BY <1>1, <3>1, <4>3
      <4>. QED BY <1>1, <1>2, <3>1, <4>3, <4>4
    <3>2. CASE i # Len(preorder) + 1
      <4>1. i \in DOMAIN preorder
        BY <1>1, <3>2
      <4>2. PICK j \in 1 .. i - 1 : preorder[j].path = Above[preorder[i].path]
        BY <4>1 DEF Places, Beneath
      <4>3. j \in DOMAIN preorder
        BY <1>1, <4>1, <4>2
      <4>. QED BY <1>1, <4>1, <4>2, <4>3
    <3>. QED BY <3>1, <3>2
  <2>. QED BY <2>1, <2>2, <2>3 DEF Beneath
<1>. QED BY <1>11, <1>12, <1>13 DEF Places

\* What is looked at is an entry of the directory last visited.
LEMMA LookedAt ==
  ASSUME TypeInv, Places, NEW p \in Path, LookAt(p)
  PROVE  /\ p \in entries /\ p # Root /\ preorder # <<>>
         /\ Last(preorder) \in Place /\ Len(preorder) \in DOMAIN preorder
         /\ Last(preorder) = preorder[Len(preorder)]
         /\ Above[p] = Last(preorder).path /\ Last(preorder).path \in Visited
         /\ p \notin Visited \cup Stacked \cup Named \cup inaccessible
         /\ entries' = entries \ {p} /\ preorder' = preorder /\ Visited' = Visited
         /\ stage = "walk"
<1>1. p \in entries /\ p # Root /\ preorder # <<>> /\ Above[p] = Last(preorder).path
  BY DEF LookAt, Places, RootFirst
<1>2. preorder \in Seq(Place)
  BY DEF TypeInv, SizeTypeOK, Place
<1>3. Last(preorder) \in Place /\ Len(preorder) \in DOMAIN preorder
      /\ Last(preorder) = preorder[Len(preorder)]
  BY <1>1, <1>2, FrontLast
<1>4. entries' = entries \ {p} /\ preorder' = preorder /\ Visited' = Visited /\ stage = "walk"
  BY DEF LookAt, Visited
<1>5. Last(preorder).path \in Visited
  BY <1>3 DEF Visited
<1>. QED BY <1>1, <1>3, <1>4, <1>5 DEF Places, OnceEach

LEMMA PlacesSkip ==
  ASSUME TypeInv, Places, NEW p \in Path, LookAt(p), UNCHANGED <<stack, counted>>,
         inaccessible' \subseteq inaccessible \cup {p}
  PROVE  Places'
<1>1. /\ p \in entries /\ p # Root /\ preorder # <<>>
      /\ Above[p] = Last(preorder).path /\ Last(preorder).path \in Visited
      /\ p \notin Visited \cup Stacked \cup Named \cup inaccessible
      /\ entries' = entries \ {p} /\ preorder' = preorder /\ Visited' = Visited
  BY LookedAt
<1>2. Stacked' = Stacked /\ Named' = Named
  BY DEF Stacked, Named
<1>3. RootFirst'
  BY <1>1 DEF Places, RootFirst
<1>4. OnceEach'
  BY <1>1, <1>2 DEF Places, OnceEach
<1>5. Beneath'
  BY <1>1, <1>2 DEF Places, Beneath
<1>. QED BY <1>3, <1>4, <1>5 DEF Places

LEMMA PlacesFile ==
  ASSUME TypeInv, Places, NEW p \in Path, LookAt(p), UNCHANGED <<stack, inaccessible>>,
         NEW size, counted' = counted \cup {[path |-> p, size |-> size]}
  PROVE  Places'
<1>1. /\ p \in entries /\ p # Root /\ preorder # <<>>
      /\ Above[p] = Last(preorder).path /\ Last(preorder).path \in Visited
      /\ p \notin Visited \cup Stacked \cup Named \cup inaccessible
      /\ entries' = entries \ {p} /\ preorder' = preorder /\ Visited' = Visited
  BY LookedAt
<1>2. Stacked' = Stacked /\ Named' = Named \cup {p}
  <2> DEFINE f == [path |-> p, size |-> size]
  <2>1. f.path = p /\ counted' = counted \cup {f}
    OBVIOUS
  <2> HIDE DEF f
  <2>. QED BY <2>1 DEF Stacked, Named
<1>3. RootFirst'
  BY <1>1 DEF Places, RootFirst
<1>4. OnceEach'
  <2>1. \A f, g \in counted' : f.path = g.path => f = g
    <3>1. \A f \in counted : f.path \in Named
      BY DEF Named
    <3>. QED BY <1>1, <3>1 DEF Places, OnceEach
  <2>. QED BY <1>1, <1>2, <2>1 DEF Places, OnceEach
<1>5. Beneath'
  BY <1>1, <1>2 DEF Places, Beneath
<1>. QED BY <1>3, <1>4, <1>5 DEF Places

LEMMA PlacesPush ==
  ASSUME TypeInv, Places, NEW p \in Path, LookAt(p), UNCHANGED <<inaccessible, counted>>,
         NEW n, stack' = Append(stack, [path |-> p, depth |-> n])
  PROVE  Places' /\ Stacked' = Stacked \cup {p}
<1>1. /\ p \in entries /\ p # Root /\ preorder # <<>>
      /\ Above[p] = Last(preorder).path /\ Last(preorder).path \in Visited
      /\ p \notin Visited \cup Stacked \cup Named \cup inaccessible
      /\ entries' = entries \ {p} /\ preorder' = preorder /\ Visited' = Visited
  BY LookedAt
<1>2. stack \in Seq(Place)
  BY DEF TypeInv, SizeTypeOK, Place
<1>3. /\ DOMAIN stack = 1 .. Len(stack) /\ Len(stack) \in Nat
      /\ DOMAIN stack' = 1 .. Len(stack) + 1
      /\ \A i \in DOMAIN stack : stack'[i] = stack[i]
      /\ stack'[Len(stack) + 1].path = p
  BY <1>2
<1>4. \A i \in DOMAIN stack' : i \in DOMAIN stack \/ i = Len(stack) + 1
  BY <1>3
<1>5. \A i \in DOMAIN stack : i \in DOMAIN stack' /\ stack[i].path \in Stacked
  BY <1>3 DEF Stacked
<1>6. Stacked' = Stacked \cup {p} /\ Named' = Named
  <2>1. Len(stack) + 1 \in DOMAIN stack'
    BY <1>3
  <2>. QED BY <1>3, <1>4, <1>5, <2>1 DEF Stacked, Named
<1>7. \A i, j \in DOMAIN stack' : stack'[i].path = stack'[j].path => i = j
  BY <1>1, <1>3, <1>4, <1>5 DEF Places, OnceEach
<1>8. RootFirst'
  BY <1>1 DEF Places, RootFirst
<1>9. OnceEach'
  BY <1>1, <1>6, <1>7 DEF Places, OnceEach
<1>10. Beneath'
  BY <1>1, <1>6 DEF Places, Beneath
<1>. QED BY <1>6, <1>8, <1>9, <1>10 DEF Places

LEMMA PlacesFind ==
  ASSUME FindRoot
  PROVE  /\ Places'
         /\ Stacked' = {Root} /\ Visited' = {} /\ Named' = {}
         /\ DOMAIN stack' = {1} /\ stack'[1] = [path |-> Root, depth |-> 0]
         /\ preorder' = <<>> /\ DOMAIN preorder' = {}
<1>1. /\ stack' = <<[path |-> Root, depth |-> 0]>> /\ preorder' = <<>>
      /\ entries' = {} /\ inaccessible' = {} /\ counted' = {}
  BY DEF FindRoot
<1>2. DOMAIN stack' = {1} /\ stack'[1] = [path |-> Root, depth |-> 0] /\ DOMAIN preorder' = {}
  BY <1>1
<1>3. Stacked' = {Root} /\ Visited' = {} /\ Named' = {}
  BY <1>1, <1>2 DEF Stacked, Visited, Named
<1>. QED BY <1>1, <1>2, <1>3 DEF Places, RootFirst, OnceEach, Beneath

LEMMA PlacesInit == SizeInit => Places
<1> SUFFICES ASSUME SizeInit PROVE Places
  OBVIOUS
<1>1. DOMAIN stack = {} /\ DOMAIN preorder = {} /\ entries = {} /\ inaccessible = {} /\ counted = {}
      /\ preorder = <<>>
  BY DEF SizeInit
<1>2. Visited = {} /\ Stacked = {} /\ Named = {}
  BY <1>1 DEF Stacked, Visited, Named
<1>. QED BY <1>1, <1>2 DEF Places, RootFirst, OnceEach, Beneath

LEMMA PlacesKept ==
  ASSUME Places, UNCHANGED <<stack, preorder, entries, inaccessible, counted>>
  PROVE  Places' /\ UNCHANGED <<Stacked, Visited, Named>>
<1>1. UNCHANGED <<Stacked, Visited, Named>>
  BY DEF Stacked, Visited, Named
<1>2. RootFirst' /\ OnceEach' /\ Beneath'
  BY <1>1 DEF Places, RootFirst, OnceEach, Beneath
<1>. QED BY <1>1, <1>2 DEF Places

LEMMA PlacesStep ==
  ASSUME TypeInv, Places, [SizeNext]_sizeVars
  PROVE  Places'
<1>1. CASE FindRoot
  BY <1>1, PlacesFind
<1>2. CASE List
  <2>1. Visit /\ UNCHANGED counted /\ entries' \subseteq Children(Last(stack).path)
        /\ UNCHANGED inaccessible
    BY <1>2 DEF List
  <2>. QED BY <2>1, PlacesVisit
<1>3. CASE ListFails
  <2>1. Visit /\ UNCHANGED counted /\ entries' = {}
    BY <1>3 DEF ListFails, Visit
  <2>2. inaccessible' \subseteq inaccessible \cup ({Last(stack).path} \ {Root})
    BY <1>3 DEF ListFails
  <2>. QED BY <2>1, <2>2, PlacesVisit
<1>4. ASSUME NEW p \in Path, SkipHidden(p) \/ SkipSpecial(p) \/ EntryFails(p)
      PROVE  Places'
  BY <1>4, PlacesSkip DEF SkipHidden, SkipSpecial, EntryFails
<1>5. ASSUME NEW p \in Path, IsFile(p)
      PROVE  Places'
  BY <1>5, PlacesFile DEF IsFile
<1>6. ASSUME NEW p \in Path, IsDirectory(p)
      PROVE  Places'
  BY <1>6, PlacesPush DEF IsDirectory
<1>7. CASE RollUp
  BY <1>7, PlacesKept DEF RollUp
<1>8. CASE UNCHANGED walkVars
  BY <1>8, PlacesKept DEF walkVars
<1>. QED BY <1>1, <1>2, <1>3, <1>4, <1>5, <1>6, <1>7, <1>8
     DEF SizeNext, Reject, Break, Finish, Exit, sizeVars

-----------------------------------------------------------------------------
(***************************************************************************)
(* Distances: a name is as deep as the walk was when it met it.            *)
(***************************************************************************)
Far(item) ==
  /\ IsFiniteSet(Lineage[item.path])
  /\ Cardinality(Lineage[item.path]) = item.depth + 1
  /\ Root \in Lineage[item.path]

Avoids(p) == Lineage[p] \cap Hidden = {}

Reach ==
  /\ \A i \in DOMAIN preorder : Far(preorder[i])
  /\ \A i \in DOMAIN stack : Far(stack[i])
  /\ ~includeHidden => \A p \in Visited \cup Stacked \cup Named : Avoids(p)

LEMMA FarStep ==
  ASSUME NEW p \in Path \ {Root}, NEW item \in Place, Far(item), Above[p] = item.path
  PROVE  Far([path |-> p, depth |-> item.depth + 1])
<1> DEFINE entry == [path |-> p, depth |-> item.depth + 1]
<1>1. /\ Lineage[p] = Lineage[item.path] \cup {p}
      /\ p \notin Lineage[item.path]
  BY LineageStep
<1>2. IsFiniteSet(Lineage[p]) /\ Cardinality(Lineage[p]) = item.depth + 1 + 1
  <2> DEFINE above == Lineage[item.path]
  <2>1. IsFiniteSet(above) /\ Cardinality(above) = item.depth + 1
    BY DEF Far
  <2>2. Lineage[p] = above \cup {p} /\ p \notin above
    BY <1>1
  <2> HIDE DEF above
  <2>3. IsFiniteSet(above \cup {p}) /\ Cardinality(above \cup {p}) = Cardinality(above) + 1
    BY <2>1, <2>2, FS_AddElement
  <2>. QED BY <2>1, <2>2, <2>3
<1>3. Root \in Lineage[p]
  BY <1>1 DEF Far
<1>4. entry.path = p /\ entry.depth = item.depth + 1
  OBVIOUS
<1> HIDE DEF entry
<1>5. Far(entry)
  BY <1>2, <1>3, <1>4 DEF Far
<1>. QED BY <1>5 DEF entry

LEMMA ReachInit == SizeInit => Reach
<1> SUFFICES ASSUME SizeInit PROVE Reach
  OBVIOUS
<1>1. DOMAIN stack = {} /\ DOMAIN preorder = {} /\ counted = {}
  BY DEF SizeInit
<1>. QED BY <1>1 DEF Reach, Stacked, Visited, Named

LEMMA OptionKept ==
  ASSUME [SizeNext]_sizeVars
  PROVE  includeHidden' = includeHidden
BY DEF SizeNext, Reject, Break, FindRoot, List, ListFails, RollUp, Finish, Exit, SkipHidden,
       SkipSpecial, IsDirectory, IsFile, EntryFails, LookAt, sizeVars, options

LEMMA ReachStep ==
  ASSUME TypeInv, Places, Reach, [SizeNext]_sizeVars
  PROVE  Reach'
<1>0. includeHidden' = includeHidden
  BY OptionKept
<1>1. CASE FindRoot
  <2>1. Stacked' = {Root} /\ Visited' = {} /\ Named' = {}
        /\ DOMAIN stack' = {1} /\ stack'[1] = [path |-> Root, depth |-> 0]
        /\ DOMAIN preorder' = {}
    BY <1>1, PlacesFind
  <2>2. Far(stack'[1])
    <3>1. stack'[1].path = Root /\ stack'[1].depth = 0
      BY <2>1
    <3>2. IsFiniteSet(Lineage[Root]) /\ Cardinality(Lineage[Root]) = 0 + 1 /\ Root \in Lineage[Root]
      BY LineageOfRoot, FS_Singleton
    <3>. QED BY <3>1, <3>2 DEF Far
  <2>3. Avoids(Root)
    BY LineageOfRoot, PathAssumption DEF Avoids
  <2>. QED BY <2>1, <2>2, <2>3 DEF Reach
<1>2. CASE Visit /\ UNCHANGED counted
  <2>1. /\ Last(stack) \in Place /\ Last(stack).path \in Stacked
        /\ Stacked' = Stacked \ {Last(stack).path}
        /\ Visited' = Visited \cup {Last(stack).path}
        /\ Len(preorder) \in Nat /\ DOMAIN preorder = 1 .. Len(preorder)
        /\ DOMAIN preorder' = 1 .. Len(preorder) + 1
        /\ preorder'[Len(preorder) + 1] = Last(stack)
        /\ \A i \in DOMAIN preorder : preorder'[i] = preorder[i]
        /\ \A i \in DOMAIN stack' : i \in DOMAIN stack /\ stack'[i] = stack[i]
    BY <1>2, VisitMoves DEF Places
  <2>2. Far(Last(stack))
    <3>1. stack \in Seq(Place) /\ stack # <<>>
      BY <1>2 DEF Visit, TypeInv, SizeTypeOK, Place
    <3>2. /\ Len(stack) \in Nat \ {0} /\ DOMAIN stack = 1 .. Len(stack)
          /\ Last(stack) = stack[Len(stack)]
      BY <3>1, FrontLast
    <3>3. Len(stack) \in DOMAIN stack
      BY <3>2
    <3>. QED BY <3>2, <3>3 DEF Reach
  <2>3. \A i \in DOMAIN preorder' : i \in DOMAIN preorder \/ i = Len(preorder) + 1
    BY <2>1
  <2>4. \A i \in DOMAIN preorder' : Far(preorder'[i])
    BY <2>1, <2>2, <2>3 DEF Reach
  <2>5. \A i \in DOMAIN stack' : Far(stack'[i])
    BY <2>1 DEF Reach
  <2>6. Named' = Named
    BY <1>2 DEF Named
  <2>7. ~includeHidden => \A p \in Visited' \cup Stacked' \cup Named' : Avoids(p)
    BY <2>1, <2>6 DEF Reach
  <2>. QED BY <1>0, <2>4, <2>5, <2>7 DEF Reach
<1>3. ASSUME NEW p \in Path, LookAt(p)
      PROVE  /\ Admitted(p) /\ ~includeHidden => Avoids(p)
             /\ Far([path |-> p, depth |-> Last(preorder).depth + 1])
             /\ UNCHANGED <<preorder, Visited>>
  <2>1. /\ p # Root /\ Last(preorder) \in Place /\ Len(preorder) \in DOMAIN preorder
        /\ Last(preorder) = preorder[Len(preorder)]
        /\ Above[p] = Last(preorder).path /\ Last(preorder).path \in Visited
        /\ UNCHANGED <<preorder, Visited>>
    BY <1>3, LookedAt
  <2>2. Far(Last(preorder))
    BY <2>1 DEF Reach
  <2>3. Far([path |-> p, depth |-> Last(preorder).depth + 1])
    BY <2>1, <2>2, FarStep
  <2>4. Lineage[p] = {p} \cup Lineage[Above[p]]
    BY <2>1, LineageStep
  <2>. QED BY <2>1, <2>3, <2>4 DEF Reach, Admitted, Avoids
<1>4. ASSUME NEW p \in Path, SkipHidden(p) \/ SkipSpecial(p) \/ EntryFails(p)
      PROVE  Reach'
  <2>1. LookAt(p) /\ UNCHANGED <<stack, counted>>
    BY <1>4 DEF SkipHidden, SkipSpecial, EntryFails
  <2>. QED BY <1>0, <1>3, <2>1 DEF Reach, Stacked, Named
<1>5. ASSUME NEW p \in Path, IsFile(p)
      PROVE  Reach'
  <2>1. LookAt(p) /\ Admitted(p) /\ UNCHANGED stack
        /\ \E size \in Size : counted' = counted \cup {[path |-> p, size |-> size]}
    BY <1>5 DEF IsFile
  <2>2. Named' \subseteq Named \cup {p} /\ Stacked' = Stacked
    BY <2>1 DEF Named, Stacked
  <2>. QED BY <1>0, <1>3, <2>1, <2>2 DEF Reach
<1>6. ASSUME NEW p \in Path, IsDirectory(p)
      PROVE  Reach'
  <2> DEFINE item == [path |-> p, depth |-> Last(preorder).depth + 1]
  <2>1. LookAt(p) /\ Admitted(p) /\ UNCHANGED counted /\ stack' = Append(stack, item)
    BY <1>6 DEF IsDirectory
  <2>2. item.path = p /\ Far(item)
    BY <1>3, <2>1
  <2> HIDE DEF item
  <2>3. stack \in Seq(Place)
    BY DEF TypeInv, SizeTypeOK, Place
  <2>4. /\ \A i \in DOMAIN stack' : i \in DOMAIN stack \/ stack'[i] = item
        /\ \A i \in DOMAIN stack : stack'[i] = stack[i]
    BY <2>1, <2>3
  <2>5. \A i \in DOMAIN stack' : Far(stack'[i])
    BY <2>2, <2>4 DEF Reach
  <2>6. Stacked' \subseteq Stacked \cup {p} /\ Named' = Named
    BY <2>1, <2>2, <2>4 DEF Stacked, Named
  <2>. QED BY <1>0, <1>3, <2>1, <2>5, <2>6 DEF Reach
<1>7. CASE UNCHANGED <<stack, preorder, counted>>
  BY <1>0, <1>7 DEF Reach, Stacked, Visited, Named
<1>. QED BY <1>1, <1>2, <1>4, <1>5, <1>6, <1>7
     DEF SizeNext, Reject, Break, Finish, Exit, List, ListFails, RollUp, walkVars, sizeVars

-----------------------------------------------------------------------------
(***************************************************************************)
(* The account of what was listed: an entry is still to be looked at or    *)
(* visited, or known, or left out, or reported as inaccessible.            *)
(***************************************************************************)
Accounted ==
  /\ \A p \in met : p \in Path \ {Root} /\ Above[p] \in Visited
  /\ known \subseteq met \cup {Root}
  /\ (entries \cup Stacked) \ {Root} \subseteq met
  /\ known \cap (entries \cup Stacked) = {}
  /\ inaccessible = Unread \ (entries \cup Stacked)

LEMMA AccountedInit == SizeInit => Accounted
<1> SUFFICES ASSUME SizeInit PROVE Accounted
  OBVIOUS
<1>1. DOMAIN stack = {} /\ entries = {} /\ met = {} /\ known = {} /\ inaccessible = {}
  BY DEF SizeInit
<1>2. Stacked = {} /\ Unread = {}
  BY <1>1 DEF Stacked, Unread
<1>. QED BY <1>1, <1>2 DEF Accounted

LEMMA AccountedStep ==
  ASSUME TypeInv, Places, Reach, Accounted, Places', [SizeNext]_sizeVars
  PROVE  Accounted'
<1>1. LeftOut' = LeftOut
  BY OptionKept DEF LeftOut
<1>2. CASE FindRoot
  <2>1. Stacked' = {Root} /\ Visited' = {}
    BY <1>2, PlacesFind
  <2>2. entries' = {} /\ met' = {} /\ known' = {} /\ inaccessible' = {}
    BY <1>2 DEF FindRoot
  <2>3. Unread' = {}
    BY <2>2 DEF Unread
  <2>. QED BY <2>1, <2>2, <2>3 DEF Accounted
<1>3. ASSUME Visit
      PROVE  \E d \in Stacked \ Visited :
               /\ d = Last(stack).path /\ d \in met \cup {Root} /\ d \notin known /\ entries = {}
               /\ Stacked' = Stacked \ {d} /\ Visited' = Visited \cup {d}
  <2>1. /\ Last(stack).path \in Stacked \ Visited
        /\ Stacked' = Stacked \ {Last(stack).path}
        /\ Visited' = Visited \cup {Last(stack).path}
    BY <1>3, VisitMoves DEF Places
  <2>2. entries = {}
    BY <1>3 DEF Visit
  <2>. QED BY <2>1, <2>2 DEF Accounted
<1>4. CASE List
  <2>1. PICK d \in Stacked \ Visited :
          /\ d = Last(stack).path /\ d \in met \cup {Root} /\ d \notin known /\ entries = {}
          /\ Stacked' = Stacked \ {d} /\ Visited' = Visited \cup {d}
    BY <1>3, <1>4 DEF List
  <2>2. /\ entries' \subseteq Children(d) /\ inaccessible' = inaccessible
        /\ met' = met \cup entries' /\ known' = known \cup {d}
    BY <1>4, <2>1 DEF List
  \* The entries are new: their directory was not visited before.
  <2>3. \A p \in entries' : p \in Path \ {Root} /\ Above[p] = d /\ p \notin met
    BY <2>1, <2>2 DEF Children, Accounted
  <2>4. entries' \cap (Visited' \cup Stacked' \cup inaccessible') = {}
    BY DEF Places, OnceEach
  <2>5. Unread' = (Unread \cup (entries' \ LeftOut)) \ {d}
    BY <1>1, <2>1, <2>2, <2>3, <2>4 DEF Unread, Accounted
  <2>6. inaccessible' = Unread' \ (entries' \cup Stacked')
    BY <2>1, <2>2, <2>3, <2>4, <2>5 DEF Accounted, Unread
  <2>7. known' \cap (entries' \cup Stacked') = {}
    BY <2>1, <2>2, <2>3, <2>4 DEF Accounted
  <2>8. \A p \in met' : p \in Path \ {Root} /\ Above[p] \in Visited'
    BY <2>1, <2>2, <2>3 DEF Accounted
  <2>. QED BY <2>1, <2>2, <2>6, <2>7, <2>8 DEF Accounted
<1>5. CASE ListFails
  <2>1. PICK d \in Stacked \ Visited :
          /\ d = Last(stack).path /\ d \in met \cup {Root} /\ d \notin known /\ entries = {}
          /\ Stacked' = Stacked \ {d} /\ Visited' = Visited \cup {d}
    BY <1>3, <1>5 DEF ListFails
  <2>2. /\ UNCHANGED <<entries, met, known>>
        /\ inaccessible' = inaccessible \cup ({d} \ {Root})
    BY <1>5, <2>1 DEF ListFails
  <2>3. Unread' = Unread
    BY <1>1, <2>2 DEF Unread
  <2>4. d # Root => d \in Unread
    <3>1. d # Root => d \in Lineage[d]
      BY <2>1, LineageClosed DEF Accounted
    <3>2. d # Root => d \notin LeftOut
      BY <2>1, <3>1 DEF LeftOut, Reach, Avoids
    <3>. QED BY <2>1, <3>2 DEF Unread
  <2>5. Root \notin Unread
    BY DEF Unread, Accounted
  <2>6. inaccessible' = Unread' \ (entries' \cup Stacked')
    BY <2>1, <2>2, <2>3, <2>4, <2>5 DEF Accounted
  <2>. QED BY <2>1, <2>2, <2>6 DEF Accounted
<1>6. ASSUME NEW p \in Path, LookAt(p)
      PROVE  /\ p \in entries /\ p # Root /\ p \in met /\ p \notin known \cup Stacked \cup inaccessible
             /\ entries' = entries \ {p} /\ met' = met /\ Visited' = Visited
  <2>1. /\ p \in entries /\ p # Root /\ p \notin Stacked \cup inaccessible
        /\ entries' = entries \ {p} /\ Visited' = Visited
    BY <1>6, LookedAt
  <2>2. met' = met
    BY <1>6 DEF LookAt
  <2>. QED BY <2>1, <2>2 DEF Accounted
<1>7. ASSUME NEW p \in Path, SkipHidden(p) \/ SkipSpecial(p) \/ IsFile(p)
      PROVE  Accounted'
  <2>1. /\ LookAt(p) /\ UNCHANGED <<stack, inaccessible>>
        /\ \/ known' = known /\ p \in LeftOut
           \/ known' = known \cup {p}
    BY <1>7 DEF SkipHidden, SkipSpecial, IsFile, Admitted, LeftOut
  <2>2. Stacked' = Stacked
    BY <2>1 DEF Stacked
  <2>3. Unread' \ {p} = Unread \ {p} /\ p \notin Unread'
    BY <1>1, <1>6, <2>1 DEF Unread
  <2>. QED BY <1>6, <2>1, <2>2, <2>3 DEF Accounted
<1>8. ASSUME NEW p \in Path, IsDirectory(p)
      PROVE  Accounted'
  <2>1. LookAt(p) /\ UNCHANGED <<inaccessible, known>>
    BY <1>8 DEF IsDirectory
  <2>2. Stacked' = Stacked \cup {p}
    BY <1>8, PlacesPush DEF IsDirectory
  <2>3. Unread' = Unread
    BY <1>1, <1>6, <2>1 DEF Unread
  <2>. QED BY <1>6, <2>1, <2>2, <2>3 DEF Accounted
<1>9. ASSUME NEW p \in Path, EntryFails(p)
      PROVE  Accounted'
  <2>1. /\ LookAt(p) /\ p \notin LeftOut /\ UNCHANGED <<stack, known>>
        /\ inaccessible' = inaccessible \cup {p}
    BY <1>9 DEF EntryFails, Admitted, LeftOut
  <2>2. Stacked' = Stacked
    BY <2>1 DEF Stacked
  <2>3. Unread' = Unread /\ p \in Unread
    BY <1>1, <1>6, <2>1 DEF Unread
  <2>. QED BY <1>6, <2>1, <2>2, <2>3 DEF Accounted
<1>10. CASE UNCHANGED <<stack, preorder, entries, met, known, inaccessible>>
  <2>1. Stacked' = Stacked /\ Visited' = Visited
    BY <1>10 DEF Stacked, Visited
  <2>2. Unread' = Unread
    BY <1>1, <1>10 DEF Unread
  <2>. QED BY <1>10, <2>1, <2>2 DEF Accounted
<1>. QED BY <1>2, <1>4, <1>5, <1>7, <1>8, <1>9, <1>10
     DEF SizeNext, Reject, Break, Finish, Exit, RollUp, walkVars, sizeVars

-----------------------------------------------------------------------------
(***************************************************************************)
(* Rolling up.  The directories rolled up are the last of the walk, and    *)
(* each has been added to its directory: what a directory has gathered so  *)
(* far is what is in it, and what is at or below those of its entries that *)
(* have been rolled up.                                                    *)
(***************************************************************************)
Rolled == {preorder[i].path : i \in {j \in DOMAIN preorder : j > Len(preorder) - rolled}}

Through(x, d) == \E c \in Rolled : Above[c] = d /\ c \in Lineage[x]

Gathered(d) == {f \in counted : Above[f.path] = d \/ Through(f.path, d)}

Touches(x, d) == x = d \/ (x \notin Visited /\ Above[x] = d) \/ Through(x, d)

Rolling ==
  /\ rolled > 0 => entries = {} /\ stack = <<>> /\ rolled < Len(preorder)
  /\ stage = "walk" => stack # <<>> \/ preorder # <<>>

Sums ==
  /\ IsFiniteSet(counted) /\ IsFiniteSet(Named) /\ fileCount = Cardinality(Named)
  /\ \A d \in Path : total[d] = Cardinality(Bytes(Gathered(d)))

Marks ==
  /\ incomplete \subseteq Visited
  /\ \A d \in Visited : d \in incomplete <=> \E x \in inaccessible : Touches(x, d)

LEMMA VisitedClosed ==
  ASSUME TypeInv, Places
  PROVE  /\ Visited \subseteq Path
         /\ \A p \in Visited : p # Root => Above[p] \in Visited
         /\ Len(preorder) \in Nat /\ DOMAIN preorder = 1 .. Len(preorder)
<1>1. /\ Len(preorder) \in Nat /\ DOMAIN preorder = 1 .. Len(preorder)
      /\ \A i \in DOMAIN preorder : preorder[i] \in Place
  <2>1. preorder \in Seq(Place)
    BY DEF TypeInv, SizeTypeOK, Place
  <2>. QED BY <2>1
<1>2. Visited \subseteq Path
  BY <1>1 DEF Visited, Place
<1>3. \A p \in Visited : p # Root => Above[p] \in Visited
  <2> SUFFICES ASSUME NEW i \in DOMAIN preorder, preorder[i].path # Root
               PROVE  Above[preorder[i].path] \in Visited
    BY DEF Visited
  <2>1. i > 1
    <3>1. i \in Nat /\ i >= 1 /\ preorder # <<>>
      BY <1>1
    <3>. QED BY <3>1 DEF Places, RootFirst
  <2>2. PICK j \in 1 .. i - 1 : preorder[j].path = Above[preorder[i].path]
    BY <2>1 DEF Places, Beneath
  <2>3. j \in DOMAIN preorder
    BY <1>1, <2>2
  <2>. QED BY <2>2, <2>3 DEF Visited
<1>. QED BY <1>1, <1>2, <1>3

\* All directories an entry of a visited one is in were visited.
LEMMA VisitedAbove ==
  ASSUME TypeInv, Places, NEW x \in Path, x # Root => Above[x] \in Visited
  PROVE  Lineage[x] \subseteq Visited \cup {x}
<1>1. Visited \cup {x} \in SUBSET Path /\ \A r \in (Visited \cup {x}) \ {Root} : Above[r] \in Visited \cup {x}
  BY VisitedClosed
<1>. QED BY <1>1, LineageLeast

LEMMA RolledVisited ==
  ASSUME TypeInv, Places, Rolling
  PROVE  /\ Rolled \subseteq Visited \ {Root}
         /\ rolled = 0 => Rolled = {}
<1>1. Len(preorder) \in Nat /\ DOMAIN preorder = 1 .. Len(preorder) /\ rolled \in Nat
  BY VisitedClosed DEF TypeInv, SizeTypeOK
<1>2. ASSUME NEW i \in DOMAIN preorder, i > Len(preorder) - rolled
      PROVE  preorder[i].path \in Visited \ {Root} /\ rolled # 0
  <2>1. rolled # 0 /\ i > 1
    BY <1>1, <1>2 DEF Rolling
  <2>. QED BY <2>1 DEF Places, RootFirst, Visited
<1>. QED BY <1>2 DEF Rolled

\* When all later directories were rolled up, what is below a directory is in it
\* or below one of its entries that were rolled up.
LEMMA BelowRolled ==
  ASSUME TypeInv, Places, Rolling,
         NEW k \in DOMAIN preorder, k >= Len(preorder) - rolled,
         NEW x \in Path \ {Root}, Above[x] \in Visited, x # preorder[k].path
  PROVE  preorder[k].path \in Lineage[x]
           <=> (x \notin Visited /\ Above[x] = preorder[k].path) \/ Through(x, preorder[k].path)
<1> DEFINE p == preorder[k].path
<1>1. /\ Visited \subseteq Path
      /\ Len(preorder) \in Nat /\ DOMAIN preorder = 1 .. Len(preorder) /\ rolled \in Nat
      /\ p \in Visited
  BY VisitedClosed DEF TypeInv, SizeTypeOK, Visited
<1>2. ASSUME p \in Lineage[x]
      PROVE  (x \notin Visited /\ Above[x] = p) \/ Through(x, p)
  <2>1. PICK c \in Lineage[x] \ {Root} : Above[c] = p
    BY <1>2, EntryBetween
  <2>2. CASE c \in Visited
    <3>1. PICK i \in DOMAIN preorder : preorder[i].path = c
      BY <2>2 DEF Visited
    <3>2. i > 1
      <4>1. i >= 1 /\ (i = 1 => preorder # <<>>)
        BY <1>1, <3>1
      <4>. QED BY <1>1, <2>1, <3>1, <4>1 DEF Places, RootFirst
    <3>3. PICK j \in 1 .. i - 1 : preorder[j].path = Above[c]
      BY <3>1, <3>2 DEF Places, Beneath
    <3>4. j \in DOMAIN preorder
      BY <1>1, <3>3
    <3>5. j = k
      BY <2>1, <3>3, <3>4 DEF Places, OnceEach
    <3>6. i > Len(preorder) - rolled
      BY <1>1, <3>3, <3>5
    <3>7. c \in Rolled
      BY <3>1, <3>6 DEF Rolled
    <3>. QED BY <2>1, <3>7 DEF Through
  <2>3. CASE c \notin Visited
    <3>1. Lineage[x] \subseteq Visited \cup {x}
      BY VisitedAbove
    <3>. QED BY <2>1, <2>3, <3>1
  <2>. QED BY <2>2, <2>3
<1>3. ASSUME Above[x] = p
      PROVE  p \in Lineage[x]
  BY <1>3, LineageClosed
<1>4. ASSUME Through(x, p)
      PROVE  p \in Lineage[x]
  <2>1. PICK c \in Rolled : Above[c] = p /\ c \in Lineage[x]
    BY <1>4 DEF Through
  <2>2. c # Root
    BY <2>1, RolledVisited
  <2>. QED BY <2>1, <2>2, LineageClosed
<1>. QED BY <1>2, <1>3, <1>4

\* Such a directory has gathered all that is below it, and its mark is right.
LEMMA AllGathered ==
  ASSUME TypeInv, Places, Rolling, Sums, Marks,
         NEW k \in DOMAIN preorder, k >= Len(preorder) - rolled
  PROVE  /\ Gathered(preorder[k].path) = {f \in counted : preorder[k].path \in Lineage[f.path]}
         /\ preorder[k].path \in incomplete <=>
              \E x \in inaccessible : preorder[k].path \in Lineage[x]
<1> DEFINE p == preorder[k].path
<1>1. p \in Visited /\ Visited \subseteq Path
  BY VisitedClosed DEF Visited
<1>2. ASSUME NEW f \in counted
      PROVE  f \in Gathered(p) <=> p \in Lineage[f.path]
  <2>1. f.path \in Named /\ f.path \in Path
    BY DEF Named, TypeInv, SizeTypeOK
  <2>2. f.path # Root /\ Above[f.path] \in Visited /\ f.path \notin Visited
    BY <2>1 DEF Places, Beneath, OnceEach
  <2>3. p \in Lineage[f.path] <=> (f.path \notin Visited /\ Above[f.path] = p) \/ Through(f.path, p)
    BY <1>1, <2>1, <2>2, BelowRolled
  <2>. QED BY <2>2, <2>3 DEF Gathered
<1>3. ASSUME NEW x \in inaccessible
      PROVE  Touches(x, p) <=> p \in Lineage[x]
  <2>1. x \in Path /\ x # Root /\ Above[x] \in Visited
    BY DEF TypeInv, SizeTypeOK, Places, Beneath
  <2>2. CASE x = p
    BY <2>1, <2>2, LineageClosed DEF Touches
  <2>3. CASE x # p
    <3>1. p \in Lineage[x] <=> (x \notin Visited /\ Above[x] = p) \/ Through(x, p)
      BY <2>1, <2>3, BelowRolled
    <3>. QED BY <2>3, <3>1 DEF Touches
  <2>. QED BY <2>2, <2>3
<1>4. Gathered(p) \subseteq counted
  BY DEF Gathered
<1> HIDE DEF p
<1>5. Gathered(p) = {f \in counted : p \in Lineage[f.path]}
  BY <1>2, <1>4
<1>6. p \in incomplete <=> \E x \in inaccessible : p \in Lineage[x]
  BY <1>1, <1>3 DEF Marks
<1>. QED BY <1>5, <1>6 DEF p

WalkSound == TypeInv /\ Places /\ Reach /\ Accounted /\ Rolling /\ Sums /\ Marks

LEMMA WalkInit == SizeInit => Rolling /\ Sums /\ Marks
<1> SUFFICES ASSUME SizeInit PROVE Rolling /\ Sums /\ Marks
  OBVIOUS
<1>1. /\ preorder = <<>> /\ rolled = 0 /\ stage = "check" /\ counted = {} /\ fileCount = 0
      /\ incomplete = {} /\ total = [p \in Path |-> 0]
  BY DEF SizeInit
<1>2. Visited = {} /\ Named = {} /\ \A d : Gathered(d) = {}
  BY <1>1 DEF Visited, Named, Gathered
<1>3. Bytes({}) = {}
  BY DEF Bytes
<1>4. Sums
  BY <1>1, <1>2, <1>3, FS_EmptySet DEF Sums
<1>5. Marks
  BY <1>1, <1>2 DEF Marks
<1>. QED BY <1>1, <1>4, <1>5 DEF Rolling

LEMMA RollingStep ==
  ASSUME TypeInv, Places, Rolling, [SizeNext]_sizeVars
  PROVE  Rolling'
<1>1. CASE FindRoot
  BY <1>1 DEF FindRoot, Rolling
<1>2. CASE Visit /\ UNCHANGED rolled
  <2>1. preorder' # <<>> /\ Len(preorder') \in Nat
    <3>1. Len(preorder) \in Nat /\ Len(preorder') = Len(preorder) + 1
      BY <1>2, VisitMoves DEF Places
    <3>. QED BY <3>1
  <2>2. ~(rolled > 0)
    BY <1>2 DEF Visit, Rolling
  <2>. QED BY <1>2, <2>1, <2>2 DEF Rolling
<1>3. ASSUME NEW p \in Path, LookAt(p)
      PROVE  Rolling'
  <2>1. preorder # <<>> /\ preorder' = preorder /\ rolled' = rolled /\ p \in entries
    BY <1>3, LookedAt DEF LookAt
  <2>. QED BY <2>1 DEF Rolling
<1>4. CASE RollUp
  <2>1. rolled \in Nat /\ Len(preorder) \in Nat
    BY VisitedClosed DEF TypeInv, SizeTypeOK
  <2>. QED BY <1>4, <2>1 DEF RollUp, Walked, Rolling
<1>5. CASE UNCHANGED walkVars /\ stage' # "walk"
  BY <1>5 DEF walkVars, Rolling
<1>6. CASE UNCHANGED sizeVars
  BY <1>6 DEF sizeVars, walkVars, Rolling
<1>7. CASE Reject \/ Finish
  <2>1. stage' \in {"check", "exit"} /\ UNCHANGED walkVars
    BY <1>7 DEF Reject, Finish, EndTarget
  <2>. QED BY <1>5, <2>1
<1>8. CASE Break \/ Exit
  BY <1>5, <1>8 DEF Break, Exit
<1>. QED BY <1>1, <1>2, <1>3, <1>4, <1>6, <1>7, <1>8
     DEF SizeNext, List, ListFails, SkipHidden, SkipSpecial, IsDirectory, IsFile, EntryFails

\* Nothing is rolled up during the walk.
LEMMA NoneThrough ==
  ASSUME TypeInv, Places, Rolling, entries # {} \/ stack # <<>>
  PROVE  rolled = 0 /\ \A x, d : ~Through(x, d)
<1>1. rolled = 0
  BY DEF TypeInv, SizeTypeOK, Rolling
<1>. QED BY <1>1, RolledVisited DEF Through

LEMMA NoneThroughAfter ==
  ASSUME TypeInv', rolled' = 0
  PROVE  Rolled' = {} /\ \A x, d : ~Through(x, d)'
<1>1. Len(preorder)' \in Nat /\ DOMAIN preorder' = 1 .. Len(preorder')
  <2>1. preorder' \in Seq(Place)
    BY DEF TypeInv, SizeTypeOK, Place
  <2>. QED BY <2>1
<1>2. Rolled' = {}
  BY <1>1 DEF Rolled
<1>. QED BY <1>2 DEF Through

LEMMA SumsStep ==
  ASSUME WalkSound, TypeInv', [SizeNext]_sizeVars
  PROVE  Sums'
<1> USE DEF WalkSound
<1>1. CASE FindRoot
  <2>1. counted' = {} /\ fileCount' = 0 /\ total' = [p \in Path |-> 0] /\ Named' = {}
    BY <1>1, PlacesFind DEF FindRoot
  <2>2. \A d : Gathered(d)' = {}
    BY <2>1 DEF Gathered
  <2>3. Bytes({}) = {}
    BY DEF Bytes
  <2>. QED BY <2>1, <2>2, <2>3, FS_EmptySet DEF Sums
\* During the walk only a file that is counted changes what was gathered.
<1>2. ASSUME entries # {} \/ stack # <<>>, UNCHANGED <<counted, total, fileCount, rolled>>
      PROVE  Sums'
  <2>1. rolled' = 0 /\ \A x, d : ~Through(x, d)
    BY <1>2, NoneThrough
  <2>2. \A x, d : ~Through(x, d)'
    BY <2>1, NoneThroughAfter
  <2>3. \A d : Gathered(d)' = Gathered(d)
    BY <1>2, <2>1, <2>2 DEF Gathered
  <2>. QED BY <1>2, <2>3 DEF Sums, Named
<1>3. ASSUME NEW p \in Path, IsFile(p)
      PROVE  Sums'
  <2>1. LookAt(p) /\ fileCount' = fileCount + 1 /\ rolled' = rolled
    BY <1>3 DEF IsFile, LookAt
  <2>2. /\ p \in entries /\ p # Root /\ p \notin Named
        /\ Above[p] = Last(preorder).path /\ Last(preorder).path \in Path
    BY <2>1, LookedAt, VisitedClosed
  <2>3. PICK size \in Size :
          /\ total' = [total EXCEPT ![Above[p]] = @ + size]
          /\ counted' = counted \cup {[path |-> p, size |-> size]}
    BY <1>3, <2>2 DEF IsFile
  <2> DEFINE f == [path |-> p, size |-> size]
  <2>4. f \in File /\ f.path = p /\ f.size = size /\ counted' = counted \cup {f}
    BY <2>3 DEF File
  <2>5. f \notin counted /\ Named' = Named \cup {p}
    BY <2>2, <2>4 DEF Named
  <2> HIDE DEF f
  <2>6. IsFiniteSet(counted') /\ IsFiniteSet(Named') /\ fileCount' = Cardinality(Named')
    BY <2>1, <2>2, <2>4, <2>5, FS_AddElement DEF Sums
  <2>7. rolled' = 0 /\ \A x, d : ~Through(x, d)
    BY <2>1, <2>2, NoneThrough
  <2>8. \A x, d : ~Through(x, d)'
    BY <2>7, NoneThroughAfter
  <2>9. ASSUME NEW d \in Path
        PROVE  total'[d] = Cardinality(Bytes(Gathered(d)'))
    <3>1. total[d] = Cardinality(Bytes(Gathered(d)))
      BY DEF Sums
    <3>2. CASE d # Above[p]
      <4>1. Gathered(d)' = Gathered(d)
        BY <2>4, <2>7, <2>8, <3>2 DEF Gathered
      <4>2. total'[d] = total[d]
        BY <2>3, <3>2 DEF TypeInv, SizeTypeOK
      <4>. QED BY <3>1, <4>1, <4>2
    <3>3. CASE d = Above[p]
      <4>1. Gathered(d)' = Gathered(d) \cup {f} /\ Gathered(d) \cap {f} = {} /\ Gathered(d) \subseteq counted
        BY <2>4, <2>5, <2>7, <2>8, <3>3 DEF Gathered
      <4>2. Gathered(d) \in SUBSET File /\ {f} \in SUBSET File
        BY <2>4, <4>1 DEF TypeInv, SizeTypeOK, File
      <4>3. IsFiniteSet(Gathered(d)) /\ IsFiniteSet({f})
        BY <4>1, FS_Subset, FS_Singleton DEF Sums
      <4>4. Cardinality(Bytes(Gathered(d)')) = Cardinality(Bytes(Gathered(d))) + size
        BY <2>4, <4>1, <4>2, <4>3, BytesAdd, BytesOfOne
      <4>5. total'[d] = total[d] + size
        BY <2>3, <3>3 DEF TypeInv, SizeTypeOK
      <4>. QED BY <3>1, <4>4, <4>5
    <3>. QED BY <3>2, <3>3
  <2>. QED BY <2>6, <2>9 DEF Sums
<1>4. ASSUME NEW p \in Path,
            SkipHidden(p) \/ SkipSpecial(p) \/ EntryFails(p) \/ IsDirectory(p)
      PROVE  Sums'
  <2>1. p \in entries /\ UNCHANGED <<counted, total, fileCount, rolled>>
    BY <1>4 DEF SkipHidden, SkipSpecial, EntryFails, IsDirectory, LookAt
  <2>. QED BY <1>2, <2>1
<1>5. CASE RollUp
  <2> DEFINE k == Len(preorder) - rolled
             p == preorder[k].path
             a == Above[p]
  <2>1. /\ rolled \in Nat /\ Len(preorder) \in Nat /\ DOMAIN preorder = 1 .. Len(preorder)
        /\ rolled < Len(preorder) - 1
        /\ AddToParent(p) /\ rolled' = rolled + 1 /\ UNCHANGED <<counted, fileCount, preorder>>
    BY <1>5, VisitedClosed DEF RollUp, TypeInv, SizeTypeOK
  <2>2. k \in DOMAIN preorder /\ k > 1 /\ k >= Len(preorder) - rolled
    BY <2>1
  <2>3. p \in Visited /\ p \in Path \ {Root} /\ a \in Path /\ a # p
    <3>1. p \in Visited
      BY <2>2 DEF Visited
    <3>2. p # Root
      BY <2>2 DEF Places, RootFirst
    <3>3. p \in Path
      BY <3>1, VisitedClosed
    <3>4. a \in Path /\ p \notin Lineage[a] /\ a \in Lineage[a]
      BY <3>2, <3>3, LineageStep, LineageClosed
    <3>. QED BY <3>1, <3>2, <3>3, <3>4
  <2>4. Gathered(p) = {f \in counted : p \in Lineage[f.path]}
    BY <2>2, AllGathered
  <2>5. Rolled' = Rolled \cup {p}
    <3>1. \A j \in DOMAIN preorder : j > Len(preorder) - rolled' <=> j = k \/ j > Len(preorder) - rolled
      BY <2>1
    <3>. QED BY <2>1, <2>2, <3>1 DEF Rolled
  <2>6. p \notin Rolled
    <3>1. \A j \in DOMAIN preorder : preorder[j].path = p => j = k
      BY <2>2 DEF Places, OnceEach
    <3>2. ~(k > Len(preorder) - rolled)
      BY <2>1
    <3>. QED BY <3>1, <3>2 DEF Rolled
  <2>7. total' = [total EXCEPT ![a] = @ + total[p]] /\ total \in [Path -> Nat]
    BY <2>1 DEF AddToParent, TypeInv, SizeTypeOK
  <2> HIDE DEF p, k
  <2>8. \A x, d : Through(x, d)' <=> Through(x, d) \/ (a = d /\ p \in Lineage[x])
    BY <2>5 DEF Through, a
  <2> HIDE DEF a
  <2>9. \A d : Gathered(d)' = IF d = a THEN Gathered(d) \cup Gathered(p) ELSE Gathered(d)
    BY <2>1, <2>4, <2>8 DEF Gathered
  <2>10. Gathered(a) \cap Gathered(p) = {}
    <3> SUFFICES ASSUME NEW f \in counted, f \in Gathered(a), p \in Lineage[f.path]
                 PROVE  FALSE
      BY <2>4 DEF Gathered
    <3>1. f.path \in Named /\ f.path \in Path
      BY DEF Named, TypeInv, SizeTypeOK
    <3>2. f.path # Root /\ f.path \notin Visited /\ f.path \in Lineage[f.path]
      BY <3>1, LineageClosed DEF Places, Beneath, OnceEach
    <3>3. CASE Above[f.path] = a
      <4>1. f.path = p
        BY <2>3, <3>1, <3>2, <3>3, EntryUnique DEF a
      <4>. QED BY <2>3, <3>2, <4>1
    <3>4. CASE Through(f.path, a)
      <4>1. PICK c \in Rolled : Above[c] = a /\ c \in Lineage[f.path]
        BY <3>4 DEF Through
      <4>2. c # Root
        BY <4>1, RolledVisited
      <4>3. c = p
        BY <2>3, <3>1, <4>1, <4>2, EntryUnique DEF a
      <4>. QED BY <2>6, <4>1, <4>3
    <3>. QED BY <3>3, <3>4 DEF Gathered
  <2>11. \A d : Gathered(d) \in SUBSET File /\ IsFiniteSet(Gathered(d))
    <3>1. \A d : Gathered(d) \subseteq counted
      BY DEF Gathered
    <3>. QED BY <3>1, FS_Subset DEF Sums, TypeInv, SizeTypeOK, File
  <2>12. /\ Cardinality(Bytes(Gathered(a) \cup Gathered(p)))
             = Cardinality(Bytes(Gathered(a))) + Cardinality(Bytes(Gathered(p)))
    BY <2>10, <2>11, BytesAdd
  <2>13. ASSUME NEW d \in Path
         PROVE  total'[d] = Cardinality(Bytes(Gathered(d)'))
    <3>1. total[d] = Cardinality(Bytes(Gathered(d))) /\ total[p] = Cardinality(Bytes(Gathered(p)))
      BY <2>3 DEF Sums
    <3>2. CASE d = a
      <4>1. total'[d] = total[a] + total[p]
        BY <2>3, <2>7, <3>2
      <4>2. Gathered(d)' = Gathered(a) \cup Gathered(p)
        BY <2>9, <3>2
      <4>. QED BY <2>12, <3>1, <3>2, <4>1, <4>2
    <3>3. CASE d # a
      BY <2>7, <2>9, <3>1, <3>3
    <3>. QED BY <3>2, <3>3
  <2>14. Named' = Named
    BY <2>1 DEF Named
  <2>. QED BY <2>1, <2>13, <2>14 DEF Sums
<1>6. CASE List \/ ListFails
  <2>1. stack # <<>> /\ UNCHANGED <<counted, total, fileCount, rolled>>
    BY <1>6 DEF List, ListFails, Visit
  <2>. QED BY <1>2, <2>1
<1>7. CASE UNCHANGED walkVars
  BY <1>7 DEF walkVars, Sums, Named, Gathered, Through, Rolled
<1>. QED BY <1>1, <1>3, <1>4, <1>5, <1>6, <1>7
     DEF SizeNext, Reject, Break, Finish, Exit, sizeVars

LEMMA MarksStep ==
  ASSUME WalkSound, TypeInv', [SizeNext]_sizeVars
  PROVE  Marks'
<1> USE DEF WalkSound
<1>1. CASE FindRoot
  BY <1>1, PlacesFind DEF FindRoot, Marks
<1>2. CASE List \/ ListFails
  <2>1. Visit /\ stack # <<>> /\ rolled' = rolled
    BY <1>2 DEF List, ListFails, Visit
  <2>10. /\ Last(stack).path \in Stacked \ Visited
         /\ Visited' = Visited \cup {Last(stack).path}
    BY <2>1, VisitMoves DEF Places
  <2>2. PICK v \in Stacked \ Visited : v = Last(stack).path /\ Visited' = Visited \cup {v}
    BY <2>10
  <2>3. \/ UNCHANGED <<incomplete, inaccessible>>
        \/ v # Root /\ incomplete' = incomplete \cup {v} /\ inaccessible' = inaccessible \cup {v}
    BY <1>2, <2>2 DEF List, ListFails
  <2>4. v \notin inaccessible /\ \A x \in inaccessible : Above[x] \in Visited
    BY <2>2 DEF Places, OnceEach, Beneath
  <2>5. rolled' = 0 /\ \A x, d : ~Through(x, d)
    BY <2>1, NoneThrough
  <2>6. \A x, d : ~Through(x, d)'
    BY <2>5, NoneThroughAfter
  <2>7. \A x \in inaccessible, d \in Visited : Touches(x, d)' <=> Touches(x, d)
    BY <2>2, <2>4, <2>5, <2>6 DEF Touches
  <2>8. \A x \in inaccessible : ~Touches(x, v)'
    BY <2>2, <2>4, <2>6 DEF Touches
  <2>9. Touches(v, v)' /\ \A d \in Visited : ~Touches(v, d)'
    BY <2>2, <2>6 DEF Touches
  <2>. QED BY <2>2, <2>3, <2>7, <2>8, <2>9 DEF Marks
<1>3. ASSUME NEW p \in Path, LookAt(p), UNCHANGED <<incomplete, inaccessible>>
      PROVE  Marks'
  <2>1. UNCHANGED <<preorder, rolled, Visited>>
    BY <1>3, LookedAt DEF LookAt
  <2>. QED BY <1>3, <2>1 DEF Marks, Touches, Through, Rolled
<1>4. ASSUME NEW p \in Path, EntryFails(p)
      PROVE  Marks'
  <2>1. LookAt(p) /\ incomplete' = incomplete \cup {Last(preorder).path}
        /\ inaccessible' = inaccessible \cup {p}
    BY <1>4 DEF EntryFails
  <2>2. /\ UNCHANGED <<preorder, rolled, Visited>> /\ p \in entries /\ p \notin Visited
        /\ Above[p] = Last(preorder).path /\ Above[p] \in Visited
    BY <2>1, LookedAt DEF LookAt
  <2>3. \A x, d : Touches(x, d)' <=> Touches(x, d)
    BY <2>2 DEF Touches, Through, Rolled
  <2>4. \A x, d : ~Through(x, d)
    BY <2>2, NoneThrough
  <2>5. \A d \in Visited : Touches(p, d) <=> d = Above[p]
    BY <2>2, <2>4 DEF Touches
  <2>. QED BY <2>1, <2>2, <2>3, <2>5 DEF Marks
<1>5. CASE RollUp
  <2> DEFINE k == Len(preorder) - rolled
             p == preorder[k].path
             a == Above[p]
  <2>1. /\ rolled \in Nat /\ Len(preorder) \in Nat /\ DOMAIN preorder = 1 .. Len(preorder)
        /\ rolled < Len(preorder) - 1
        /\ AddToParent(p) /\ rolled' = rolled + 1 /\ UNCHANGED <<inaccessible, preorder>>
    BY <1>5, VisitedClosed DEF RollUp, TypeInv, SizeTypeOK
  <2>2. k \in DOMAIN preorder /\ k > 1 /\ k >= Len(preorder) - rolled
    BY <2>1
  <2>3. p \in Visited /\ a \in Visited /\ Visited' = Visited
    <3>1. p \in Visited /\ p # Root
      BY <2>2 DEF Places, RootFirst, Visited
    <3>. QED BY <2>1, <3>1, VisitedClosed DEF Visited
  <2>4. p \in incomplete <=> \E x \in inaccessible : p \in Lineage[x]
    BY <2>2, AllGathered
  <2>5. Rolled' = Rolled \cup {p}
    <3>1. \A j \in DOMAIN preorder : j > Len(preorder) - rolled' <=> j = k \/ j > Len(preorder) - rolled
      BY <2>1
    <3>. QED BY <2>1, <2>2, <3>1 DEF Rolled
  <2>6. incomplete' = IF p \in incomplete THEN incomplete \cup {a} ELSE incomplete
    BY <2>1 DEF AddToParent
  <2> HIDE DEF p, k
  <2>7. \A x, d : Touches(x, d)' <=> Touches(x, d) \/ (a = d /\ p \in Lineage[x])
    BY <2>3, <2>5 DEF Touches, Through, a
  <2> HIDE DEF a
  <2>. QED BY <2>1, <2>3, <2>4, <2>6, <2>7 DEF Marks
<1>6. CASE UNCHANGED walkVars
  BY <1>6 DEF walkVars, Marks, Touches, Through, Rolled, Visited
<1>. QED BY <1>1, <1>2, <1>3, <1>4, <1>5, <1>6
     DEF SizeNext, Reject, Break, Finish, Exit, sizeVars, SkipHidden, SkipSpecial, IsDirectory, IsFile

LEMMA WalkStep ==
  ASSUME WalkSound, [SizeNext]_sizeVars
  PROVE  WalkSound'
<1>1. TypeInv'
  BY SizeTypeStep DEF WalkSound, Places
<1>2. Places'
  BY PlacesStep DEF WalkSound
<1>3. Accounted'
  BY <1>2, AccountedStep DEF WalkSound
<1>. QED BY <1>1, <1>2, <1>3, ReachStep, RollingStep, SumsStep, MarksStep DEF WalkSound

-----------------------------------------------------------------------------
(***************************************************************************)
(* The result of a target, and the exit code of the command.               *)
(***************************************************************************)
\* What the result says of the walk, which is over.
ResultTrue ==
  /\ result.total = Weight(Root)
  /\ result.files = Cardinality({f.path : f \in counted})
  /\ result.dirs = Cardinality(Visited)
  /\ \A i \in DOMAIN result.breakdown :
       LET c == result.breakdown[i] IN
         c.size = Weight(c.path) /\ c.depth = Cardinality(Lineage[c.path]) - 1
  /\ {result.breakdown[i].path : i \in DOMAIN result.breakdown}
       = {p \in Visited : Cardinality(Lineage[p]) - 1 \in 1 .. depth}
  /\ IsInjective(result.breakdown)

ResultMarked ==
  /\ inaccessible = Unread
  /\ codes[Len(codes)] = IF Unread = {} THEN "OK" ELSE "PARTIAL"
  /\ \A i \in DOMAIN result.breakdown :
       LET c == result.breakdown[i] IN
         c.incomplete <=> Unread \cap Below(c.path) # {}

Outcome ==
  /\ result.found => stage # "walk" /\ ResultTrue /\ ResultMarked
  /\ stage = "exit" => codes # <<>>
  /\ stage = "exited" /\ exitCode # "ERROR" => Summarises(exitCode, codes)

SizeInv == WalkSound /\ Outcome

\* The walk is over: every directory is at the top of what was rolled up.
LEMMA FinishTrue ==
  ASSUME WalkSound, WalkSound', Finish
  PROVE  ResultTrue' /\ ResultMarked'
<1> USE DEF WalkSound
<1>1. /\ EndTarget(IF inaccessible # {} THEN "PARTIAL" ELSE "OK",
                   [found |-> TRUE, total |-> total[Root], files |-> fileCount,
                    dirs |-> Len(preorder), breakdown |-> Breakdown])
      /\ UNCHANGED <<options, walkVars, exitCode>> /\ rolled = Len(preorder) - 1
      /\ stage = "walk" /\ stack = <<>>
  BY DEF Finish, Walked
<1> DEFINE code == IF inaccessible # {} THEN "PARTIAL" ELSE "OK"
<1>2. /\ result' = [found |-> TRUE, total |-> total[Root], files |-> fileCount,
                    dirs |-> Len(preorder), breakdown |-> Breakdown]
      /\ codes'[Len(codes')] = code
  <2>1. code \in Code
    BY DEF Code
  <2>2. EndTarget(code, [found |-> TRUE, total |-> total[Root], files |-> fileCount,
                         dirs |-> Len(preorder), breakdown |-> Breakdown])
        /\ stage \in {"check", "walk"} /\ UNCHANGED targets
    BY <1>1 DEF options
  <2> HIDE DEF code
  <2>. QED BY <2>1, <2>2, EndTargetType
<1>3. /\ UNCHANGED <<preorder, counted, total, incomplete, inaccessible, depth, Visited>>
  BY <1>1 DEF options, walkVars, Visited
<1>4. /\ Len(preorder) \in Nat /\ DOMAIN preorder = 1 .. Len(preorder)
      /\ \A k \in DOMAIN preorder : k >= Len(preorder) - rolled
      /\ 1 \in DOMAIN preorder /\ preorder[1].path = Root
  <2>1. Len(preorder) \in Nat /\ DOMAIN preorder = 1 .. Len(preorder) /\ preorder # <<>>
    BY <1>1, VisitedClosed DEF Rolling
  <2>2. 1 \in DOMAIN preorder
    BY <1>1, <2>1 DEF TypeInv, SizeTypeOK
  <2>. QED BY <1>1, <2>1, <2>2 DEF Places, RootFirst
<1>5. \A k \in DOMAIN preorder :
        /\ preorder[k] \in Place
        /\ total[preorder[k].path] = Weight(preorder[k].path)
        /\ preorder[k].path \in incomplete <=> inaccessible \cap Below(preorder[k].path) # {}
        /\ preorder[k].depth = Cardinality(Lineage[preorder[k].path]) - 1
  <2> SUFFICES ASSUME NEW k \in DOMAIN preorder
               PROVE  /\ preorder[k] \in Place
                      /\ total[preorder[k].path] = Weight(preorder[k].path)
                      /\ preorder[k].path \in incomplete
                           <=> inaccessible \cap Below(preorder[k].path) # {}
                      /\ preorder[k].depth = Cardinality(Lineage[preorder[k].path]) - 1
    OBVIOUS
  <2>10. preorder \in Seq(Place)
    BY DEF TypeInv, SizeTypeOK, Place
  <2>1. preorder[k] \in Place
    BY <2>10
  <2>2. PICK p \in Path : p = preorder[k].path
    BY <2>1 DEF Place
  <2>3. /\ Gathered(p) = {f \in counted : p \in Lineage[f.path]}
        /\ p \in incomplete <=> \E x \in inaccessible : p \in Lineage[x]
    BY <1>4, <2>2, AllGathered
  <2>4. \A x \in Path : p \in Lineage[x] <=> x \in Below(p)
    BY DEF Below
  <2>5. counted \subseteq File /\ inaccessible \subseteq Path
    BY DEF TypeInv, SizeTypeOK, File
  <2>6. Gathered(p) = {f \in counted : f.path \in Below(p)}
    BY <2>3, <2>4, <2>5 DEF File
  <2>7. total[p] = Weight(p)
    BY <2>6 DEF Sums, Weight
  <2>8. p \in incomplete <=> inaccessible \cap Below(p) # {}
    BY <2>3, <2>4, <2>5
  <2>9. preorder[k].depth = Cardinality(Lineage[p]) - 1
    <3>1. preorder[k].depth \in Nat /\ Cardinality(Lineage[p]) = preorder[k].depth + 1
      BY <2>1, <2>2 DEF Reach, Far, Place
    <3>. QED BY <3>1
  <2>. QED BY <2>1, <2>2, <2>7, <2>8, <2>9
<1>6. Len(preorder) = Cardinality(Visited)
  <2> DEFINE g == [i \in DOMAIN preorder |-> preorder[i].path]
  <2>1. g \in Bijection(DOMAIN preorder, Visited)
    BY DEF Places, OnceEach, Visited, Bijection, Injection, Surjection, IsInjective
  <2>2. IsFiniteSet(DOMAIN preorder) /\ Cardinality(DOMAIN preorder) = Len(preorder)
    BY <1>4, FS_Interval
  <2> HIDE DEF g
  <2>. QED BY <2>1, <2>2, FS_Bijection DEF ExistsBijection
<1>7. /\ DOMAIN Breakdown = {j \in DOMAIN preorder : preorder[j].depth \in 1 .. depth}
      /\ \A i \in DOMAIN Breakdown :
           /\ i \in DOMAIN preorder
           /\ Breakdown[i].path = preorder[i].path /\ Breakdown[i].depth = preorder[i].depth
           /\ Breakdown[i].size = total[preorder[i].path]
           /\ Breakdown[i].incomplete <=> preorder[i].path \in incomplete
  BY DEF Breakdown, Listed
<1>8. IsInjective(Breakdown)
  BY <1>7 DEF IsInjective, Places, OnceEach
<1>9. {Breakdown[i].path : i \in DOMAIN Breakdown}
        = {p \in Visited : Cardinality(Lineage[p]) - 1 \in 1 .. depth}
  <2>1. \A i \in DOMAIN Breakdown : /\ Breakdown[i].path \in Visited
                                    /\ Cardinality(Lineage[Breakdown[i].path]) - 1 \in 1 .. depth
    BY <1>5, <1>7 DEF Visited
  <2>2. ASSUME NEW p \in Visited, Cardinality(Lineage[p]) - 1 \in 1 .. depth
        PROVE  \E i \in DOMAIN Breakdown : Breakdown[i].path = p
    <3>1. PICK i \in DOMAIN preorder : preorder[i].path = p
      BY DEF Visited
    <3>2. preorder[i].depth \in 1 .. depth
      BY <1>5, <2>2, <3>1
    <3>. QED BY <1>7, <3>1, <3>2
  <2>. QED BY <2>1, <2>2
<1>10. fileCount = Cardinality({f.path : f \in counted})
  BY DEF Sums, Named
<1>11. \A d : Weight(d)' = Weight(d) /\ Below(d)' = Below(d)
  BY <1>3 DEF Weight, Below
<1>12. ResultTrue'
  <2> HIDE DEF code
  <2>1. result'.total = Weight(Root)
    BY <1>2, <1>4, <1>5
  <2>2. \A i \in DOMAIN Breakdown :
          /\ Breakdown[i].size = Weight(Breakdown[i].path)
          /\ Breakdown[i].depth = Cardinality(Lineage[Breakdown[i].path]) - 1
    BY <1>5, <1>7
  <2>. QED BY <1>2, <1>3, <1>6, <1>8, <1>9, <1>10, <1>11, <2>1, <2>2 DEF ResultTrue
<1>13. ResultMarked'
  <2>1. inaccessible = Unread
    <3>1. entries = {} /\ DOMAIN stack = {}
      BY <1>1 DEF Finish, Walked
    <3>2. Stacked = {}
      BY <3>1 DEF Stacked
    <3>. QED BY <3>1, <3>2 DEF Accounted
  <2>2. Unread' = Unread
    BY <1>1 DEF options, walkVars, Unread, LeftOut
  <2>3. \A i \in DOMAIN Breakdown :
          Breakdown[i].incomplete <=> Unread \cap Below(Breakdown[i].path) # {}
    BY <1>5, <1>7, <2>1
  <2>. QED BY <1>2, <1>3, <1>11, <2>1, <2>2, <2>3 DEF ResultMarked
<1>. QED BY <1>12, <1>13

LEMMA OutcomeInit == SizeInit => Outcome
BY DEF SizeInit, Outcome, Nothing

LEMMA OutcomeStep ==
  ASSUME WalkSound, WalkSound', Outcome, [SizeNext]_sizeVars
  PROVE  Outcome'
<1>0. TypeInv /\ TypeInv'
  BY DEF WalkSound
<1>1. ASSUME NEW code \in Code, NEW r, EndTarget(code, r), stage \in {"check", "walk"},
             UNCHANGED targets, r.found => ResultTrue' /\ ResultMarked'
      PROVE  Outcome'
  <2>1. /\ stage' \in {"check", "exit"} /\ result' = r
        /\ stage' = "exit" => codes' # <<>>
    BY <1>0, <1>1, EndTargetType
  <2>. QED BY <1>1, <2>1 DEF Outcome
<1>2. Nothing.found = FALSE
  BY DEF Nothing
<1>3. CASE Reject
  BY <1>1, <1>2, <1>3 DEF Reject, options, Code
<1>4. CASE Finish
  <2>1. ResultTrue' /\ ResultMarked'
    BY <1>4, FinishTrue
  <2>. QED BY <1>1, <1>4, <2>1 DEF Finish, Walked, options, Code
<1>5. ASSUME stage = "walk", UNCHANGED <<result, codes, stage, exitCode>>
      PROVE  Outcome'
  BY <1>5 DEF Outcome
<1>6. CASE ListFails
  <2>1. stage = "walk" /\ UNCHANGED <<options, exitCode>>
    BY <1>6 DEF ListFails, Visit
  <2>2. CASE Last(stack).path = Root
    <3>1. EndTarget("PERMISSION_DENIED", Nothing)
      BY <1>6, <2>2 DEF ListFails
    <3>. QED BY <1>1, <1>2, <2>1, <3>1 DEF options, Code
  <2>3. CASE Last(stack).path # Root
    <3>1. UNCHANGED <<stage, result, codes>>
      BY <1>6, <2>3 DEF ListFails
    <3>. QED BY <1>5, <2>1, <3>1
  <2>. QED BY <2>2, <2>3
<1>7. CASE List \/ RollUp
  BY <1>5, <1>7 DEF List, Visit, RollUp, Walked
<1>8. ASSUME NEW p \in Path, LookAt(p)
      PROVE  Outcome'
  BY <1>5, <1>8 DEF LookAt
<1>9. CASE FindRoot
  BY <1>2, <1>9 DEF FindRoot, Outcome
\* What the result says stays true while the walk stays as it is.
<1>10. ASSUME UNCHANGED <<options, walkVars, result, codes>>
       PROVE  ResultTrue' = ResultTrue /\ ResultMarked' = ResultMarked
  <2>1. UNCHANGED <<depth, preorder, counted, incomplete, inaccessible, result, codes, Unread>>
    BY <1>10 DEF options, walkVars, Unread, LeftOut
  <2>. QED BY <2>1 DEF ResultTrue, ResultMarked, Weight, Below, Visited
<1>11. CASE Break
  BY <1>10, <1>11 DEF Break, Outcome
<1>12. CASE Exit
  <2>1. codes \in Seq(Code) /\ codes # <<>>
    BY <1>0, <1>12 DEF Exit, Outcome, TypeInv, SizeTypeOK, Code
  <2>2. Len(codes) \in Nat \ {0} /\ DOMAIN codes = 1 .. Len(codes)
    BY <2>1
  <2>3. Summarises(exitCode', codes)
    BY <1>12, <2>2, AggregateSummarises DEF Exit
  <2>. QED BY <1>10, <1>12, <2>3 DEF Exit, Outcome
<1>13. CASE UNCHANGED sizeVars
  BY <1>10, <1>13 DEF sizeVars, Outcome
<1>. QED BY <1>3, <1>4, <1>6, <1>7, <1>8, <1>9, <1>11, <1>12, <1>13
     DEF SizeNext, SkipHidden, SkipSpecial, IsDirectory, IsFile, EntryFails

LEMMA SizeInvariant == SizeSpec => []SizeInv
<1>1. SizeInit => SizeInv
  BY SizeTypeInit, PlacesInit, ReachInit, AccountedInit, WalkInit, OutcomeInit DEF SizeInv, WalkSound
<1>2. SizeInv /\ [SizeNext]_sizeVars => SizeInv'
  BY WalkStep, OutcomeStep DEF SizeInv
<1>. QED BY <1>1, <1>2, PTL DEF SizeSpec

\* The totals of `storage size`: whatever the tree does meanwhile, what it
\* reports of a directory adds up the files met at or below it, each once.
THEOREM SizeTotals == SizeSpec => []TotalsTrue
<1>1. SizeInv => TotalsTrue
  <2> SUFFICES ASSUME SizeInv PROVE TotalsTrue
    OBVIOUS
  <2>1. SizeTypeOK
    BY DEF SizeInv, WalkSound, TypeInv
  <2>2. ~includeHidden => \A f \in counted : Lineage[f.path] \cap Hidden = {}
    BY DEF SizeInv, WalkSound, Reach, Named, Avoids
  <2>. QED BY <2>1, <2>2 DEF SizeInv, Outcome, ResultTrue, TotalsTrue
<1>. QED BY <1>1, SizeInvariant, PTL

\* The marks of `storage size`: every entry that was listed and could not be read
\* is reported, a size is marked as a lower bound exactly if one is at or below its
\* directory, and the exit code says so.
THEOREM SizeBounds == SizeSpec => []LowerBoundsMarked
<1>1. SizeInv => LowerBoundsMarked
  BY DEF SizeInv, Outcome, ResultMarked, LowerBoundsMarked
<1>. QED BY <1>1, SizeInvariant, PTL
=============================================================================
