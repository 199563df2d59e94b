------------------------------ MODULE Duplicates ------------------------------
(***************************************************************************)
(* The search for files of equal content (file/hashing.py find_duplicates):*)
(* the directory is listed, then every file is measured, then the files    *)
(* that share their size with another are read and digested.  Meanwhile    *)
(* the directory is open to everybody (module GuardedWrite).               *)
(***************************************************************************)
EXTENDS GuardedWrite, FiniteSets

CONSTANT Size    \* Size[c]: how many bytes content c has

\* A directory has finitely many files.
ASSUME DirectoryAssumption == IsFiniteSet(Path)

ASSUME SizeAssumption == Size \in [Content -> Nat]

VARIABLES
  search,      \* where the search is
  listed,      \* the regular files of the directory
  sizes,       \* the size of each file that was measured
  digests,     \* what each file that was read holds; equal digest, equal content
  skipped,     \* files that were given up
  groups,      \* the answer: sets of paths
  had          \* history: what each path has held since the listing

findVars == <<search, listed, sizes, digests, skipped, groups>>
searchVars == <<findVars, had>>

NothingHad == [p \in Path |-> {}]

SearchInit ==
  /\ search = "idle" /\ listed = {} /\ skipped = {} /\ groups = {}
  /\ sizes = <<>> /\ digests = <<>> /\ had = NothingHad

Ready ==
  /\ search' = "idle" /\ listed' = {} /\ skipped' = {} /\ groups' = {}
  /\ sizes' = <<>> /\ digests' = <<>> /\ had' = NothingHad

With(f, p, v) == [q \in DOMAIN f \cup {p} |-> IF q = p THEN v ELSE f[q]]

\* Symbolic links are not listed; a listing that fails lists nothing.
List ==
  /\ search = "idle"
  /\ listed' \in {{p \in Path : dir[p] # Absent}, {}}
  /\ had' = [p \in Path |-> {dir[p]}]
  /\ search' = "measure"
  /\ UNCHANGED <<sizes, digests, skipped, groups>>

\* Another program writes while a search may be under way.
Overtaken ==
  /\ had' = IF search = "idle" THEN had ELSE [p \in Path |-> had[p] \cup {dir'[p]}]
  /\ UNCHANGED findVars

\* The files whose turn it is.  They are measured in the order of the listing,
\* which is any order, and digested once all are measured.
ToMeasure == listed \ (DOMAIN sizes \cup skipped)

\* Mutant: three of a kind.
MinGroupOfThree(set) == Cardinality(set) >= 3

\* _MIN_GROUP_SIZE
MinGroup(set) == Cardinality(set) >= 2

SameSize(p) == {q \in DOMAIN sizes : sizes[q] = sizes[p]}

ToDigest == {p \in DOMAIN sizes : MinGroup(SameSize(p))} \ (DOMAIN digests \cup skipped)

\* Mutant: a file that is gone is tried again.
SkipRetries(p) ==
  UNCHANGED searchVars

\* A file that is gone, or cannot be looked at, is left out.
Skip(p) ==
  /\ skipped' = skipped \cup {p}
  /\ UNCHANGED <<search, listed, sizes, digests, groups, had>>

Measure(p) ==
  /\ search = "measure" /\ p \in ToMeasure
  /\ \/ /\ dir[p] # Absent
        /\ sizes' = With(sizes, p, Size[dir[p]])
        /\ UNCHANGED <<search, listed, digests, skipped, groups, had>>
     \/ Skip(p)

\* compute_hash, under the except clause that covers it.
Digest(p) ==
  /\ search = "measure" /\ ToMeasure = {} /\ p \in ToDigest
  /\ \/ /\ ReadsAs(p) # Absent
        /\ digests' = With(digests, p, ReadsAs(p))
        /\ UNCHANGED <<search, listed, sizes, skipped, groups, had>>
     \/ Skip(p)

Reading == search = "measure" /\ ToMeasure = {} /\ ToDigest # {}

\* Mutant: files of one size are taken for equal.
AlikeBySize(p) == SameSize(p) \cap DOMAIN digests

Alike(p) == {q \in SameSize(p) \cap DOMAIN digests : digests[q] = digests[p]}

Group ==
  /\ search = "measure" /\ ToMeasure = {} /\ ToDigest = {}
  /\ groups' = {g \in {Alike(p) : p \in DOMAIN digests} : MinGroup(g)}
  /\ search' = "over"
  /\ UNCHANGED <<listed, sizes, digests, skipped, had>>

SearchStep == List \/ Group \/ \E p \in listed : Measure(p) \/ Digest(p)

\* No other program has changed the file since the listing.
Still(p) == had[p] = {dir[p]}

InOneGroup(p, q) == \E g \in groups : {p, q} \subseteq g

\* Research R6, "size first, then hash", and FR-008, "sharing identical content":
\* no file is in two groups and none is alone in one; files of a group have held one
\* and the same content since the listing, whatever other programs did between the
\* looks at them; and the pre-filter loses nothing: two files that could be read,
\* hold the same and were left alone are in a group together, though a third one
\* may have changed.
DuplicatesTrue ==
  search = "over" =>
    /\ \A g \in groups : Cardinality(g) > 1
    /\ \A g, h \in groups : g # h => g \cap h = {}
    /\ \A p, q \in UNION groups : InOneGroup(p, q) => (had[p] \cap had[q]) \ {Absent} # {}
    /\ \A p, q \in listed \ skipped :
         p # q /\ Still(p) /\ Still(q) /\ dir[p] = dir[q] => InOneGroup(p, q)
=============================================================================
