------------------------------ MODULE DirSize -------------------------------
(***************************************************************************)
(* `opskit storage size` (storage/scan.py, storage/cli.py): each directory *)
(* named on the command line is walked with a stack, then the sizes are    *)
(* rolled up from the last directory visited to the first.                 *)
(*                                                                         *)
(* The tree is no variable: what a directory lists, and what an entry is   *)
(* when it is looked at, are chosen at that moment, since other programs   *)
(* create, replace and remove files during the walk.  Only the names are   *)
(* fixed.                                                                  *)
(***************************************************************************)
EXTENDS Integers, Sequences, SequencesExt, FiniteSets, ExitCodes

CONSTANTS
  Path,         \* names that can be met, the root included
  Root,
  Above,        \* the directory each other name is in
  Hidden,       \* names that count as hidden
  Size,         \* sizes of files
  Depth,        \* values of --depth
  MaxTargets    \* directories a command can be given (bound)

ASSUME PathAssumption ==
  /\ Root \in Path /\ Above \in [Path \ {Root} -> Path]
  /\ Hidden \subseteq Path \ {Root}

\* A name and the directories it is in: what every set has that holds the name
\* and, with each of its members, the directory of that member.
Lineage ==
  [p \in Path |->
    {q \in Path :
      \A S \in SUBSET Path : p \in S /\ (\A r \in S \ {Root} : Above[r] \in S) => q \in S}]

\* No directory is in itself.
ASSUME TreeAssumption == \A p \in Path \ {Root} : p \notin Lineage[Above[p]]

ASSUME SizeAssumption ==
  /\ Size \subseteq Nat /\ Depth \subseteq Int /\ MaxTargets \in Nat \ {0}

VARIABLES
  depth, includeHidden, targets,  \* the options
  stage,
  stack,          \* directories to visit
  preorder,       \* directories visited: [path, depth]
  entries,        \* entries of the directory last visited that are left to look at
  total,          \* own_bytes, then total_of
  incomplete,     \* failed, then incomplete_of
  inaccessible,   \* the paths reported as inaccessible
  fileCount,
  rolled,         \* directories rolled up so far
  counted,        \* history: the files counted, [path, size]
  met,            \* history: the entries that directories have listed
  known,          \* history: those of them that were listed in turn, measured, or seen
                  \* to be neither files nor directories
  result,         \* the DirSizeResult of the target walked last, if it has one
  codes,          \* the exit code of each target so far
  exitCode

options == <<depth, includeHidden, targets>>
walkVars == <<stack, preorder, entries, total, incomplete, inaccessible, fileCount, rolled, counted,
              met, known>>
sizeVars == <<options, stage, walkVars, result, codes, exitCode>>

Children(p) == {q \in Path \ {Root} : Above[q] = p}

Visited == {preorder[i].path : i \in DOMAIN preorder}

Nothing == [found |-> FALSE]

SizeInit ==
  /\ depth \in Depth /\ includeHidden \in BOOLEAN /\ targets \in 1 .. MaxTargets
  /\ stage = "check"
  /\ stack = <<>> /\ preorder = <<>> /\ entries = {}
  /\ total = [p \in Path |-> 0]
  /\ incomplete = {} /\ inaccessible = {}
  /\ fileCount = 0 /\ rolled = 0 /\ counted = {} /\ met = {} /\ known = {}
  /\ result = Nothing /\ codes = <<>> /\ exitCode = "none"

\* Mutant: the targets are counted before the last one is kept.
EndTargetLate(code, r) ==
  /\ codes' = Append(codes, code)
  /\ result' = r
  /\ stage' = IF Len(codes) = targets THEN "exit" ELSE "check"

\* Mutant: a target that fails is tried again.
EndTargetRetries(code, r) ==
  /\ codes' = IF code \in {"OK", "PARTIAL"} THEN Append(codes, code) ELSE codes
  /\ result' = r
  /\ stage' = IF Len(codes') = targets THEN "exit" ELSE "check"

\* collect_outcomes keeps what became of a target and goes on to the next.
EndTarget(code, r) ==
  /\ codes' = Append(codes, code)
  /\ result' = r
  /\ stage' = IF Len(codes') = targets THEN "exit" ELSE "check"

\* A negative --depth, before anything is looked at; a path that does not exist
\* or is no directory.
Reject ==
  /\ stage = "check"
  /\ EndTarget(IF depth < 0 THEN "USAGE" ELSE "NOT_FOUND", Nothing)
  /\ UNCHANGED <<options, walkVars, exitCode>>

\* exists() raises what it does not take for an absent path (EACCES).
Break ==
  /\ stage = "check" /\ depth >= 0
  /\ stage' = "exited" /\ exitCode' = "ERROR"
  /\ UNCHANGED <<options, walkVars, result, codes>>

FindRoot ==
  /\ stage = "check" /\ depth >= 0
  /\ stage' = "walk"
  /\ stack' = <<[path |-> Root, depth |-> 0]>>
  /\ preorder' = <<>> /\ entries' = {}
  /\ total' = [p \in Path |-> 0]
  /\ incomplete' = {} /\ inaccessible' = {}
  /\ fileCount' = 0 /\ rolled' = 0 /\ counted' = {} /\ met' = {} /\ known' = {}
  /\ result' = Nothing
  /\ UNCHANGED <<options, codes, exitCode>>

\* _walk: the next directory is taken from the stack ...
Visit ==
  /\ stage = "walk" /\ entries = {} /\ stack # <<>>
  /\ stack' = Front(stack)
  /\ preorder' = Append(preorder, Last(stack))

\* ... and listed.
List ==
  /\ Visit
  /\ entries' \in SUBSET Children(Last(stack).path)
  /\ met' = met \cup entries' /\ known' = known \cup {Last(stack).path}
  /\ UNCHANGED <<options, stage, total, incomplete, inaccessible, fileCount, rolled, counted,
                 result, codes, exitCode>>

\* It cannot be listed: recorded, unless it is the root.
ListFails ==
  /\ Visit
  /\ LET current == Last(stack).path IN
       IF current = Root
         THEN /\ EndTarget("PERMISSION_DENIED", Nothing)
              /\ UNCHANGED <<incomplete, inaccessible>>
         ELSE /\ incomplete' = incomplete \cup {current}
              /\ inaccessible' = inaccessible \cup {current}
              /\ UNCHANGED <<stage, result, codes>>
  /\ UNCHANGED <<options, entries, total, fileCount, rolled, counted, met, known, exitCode>>

LookAt(p) ==
  /\ stage = "walk" /\ p \in entries
  /\ entries' = entries \ {p}
  /\ UNCHANGED <<options, stage, preorder, rolled, met, result, codes, exitCode>>

\* Mutant: what is hidden is left out although it was asked for.
AdmittedStrict(p) == p \notin Hidden

Admitted(p) == includeHidden \/ p \notin Hidden

\* Left out by its name, before anything is asked of it.
SkipHidden(p) ==
  /\ LookAt(p) /\ ~Admitted(p)
  /\ UNCHANGED <<stack, total, incomplete, inaccessible, fileCount, counted, known>>

\* A symbolic link, or neither file nor directory: what is_dir() and is_file() say
\* of an entry that is gone if its listing did not tell its type.
SkipSpecial(p) ==
  /\ LookAt(p) /\ Admitted(p)
  /\ known' = known \cup {p}
  /\ UNCHANGED <<stack, total, incomplete, inaccessible, fileCount, counted>>

IsDirectory(p) ==
  /\ LookAt(p) /\ Admitted(p)
  /\ stack' = Append(stack, [path |-> p, depth |-> Last(preorder).depth + 1])
  /\ UNCHANGED <<total, incomplete, inaccessible, fileCount, counted, known>>

IsFile(p) ==
  /\ LookAt(p) /\ Admitted(p)
  /\ \E size \in Size :
       /\ total' = [total EXCEPT ![Last(preorder).path] = @ + size]
       /\ counted' = counted \cup {[path |-> p, size |-> size]}
  /\ fileCount' = fileCount + 1
  /\ known' = known \cup {p}
  /\ UNCHANGED <<stack, incomplete, inaccessible>>

\* Mutant: an entry that has gone is forgotten.
EntryForgotten(p) ==
  /\ LookAt(p) /\ Admitted(p)
  /\ UNCHANGED <<stack, total, incomplete, inaccessible, fileCount, counted, known>>

\* Mutant: an entry that cannot be read is listed and left at that.
EntryFailsQuietly(p) ==
  /\ LookAt(p) /\ Admitted(p)
  /\ inaccessible' = inaccessible \cup {p}
  /\ UNCHANGED <<stack, total, incomplete, fileCount, counted, known>>

\* It is gone, or cannot be read.
EntryFails(p) ==
  /\ LookAt(p) /\ Admitted(p)
  /\ incomplete' = incomplete \cup {Last(preorder).path}
  /\ inaccessible' = inaccessible \cup {p}
  /\ UNCHANGED <<stack, total, fileCount, counted, known>>

Walked == stage = "walk" /\ entries = {} /\ stack = <<>>

AddToParent(p) ==
  /\ total' = [total EXCEPT ![Above[p]] = @ + total[p]]
  /\ incomplete' = IF p \in incomplete THEN incomplete \cup {Above[p]} ELSE incomplete

\* Mutant: the directories are rolled up in the order of the walk.
RollUpForward ==
  /\ Walked /\ rolled < Len(preorder) - 1
  /\ AddToParent(preorder[rolled + 2].path)
  /\ rolled' = rolled + 1
  /\ UNCHANGED <<options, stage, stack, preorder, entries, inaccessible, fileCount, counted,
                 met, known, result, codes, exitCode>>

\* _aggregate: in the reverse of the order of the walk, without the root.
RollUp ==
  /\ Walked /\ rolled < Len(preorder) - 1
  /\ AddToParent(preorder[Len(preorder) - rolled].path)
  /\ rolled' = rolled + 1
  /\ UNCHANGED <<options, stage, stack, preorder, entries, inaccessible, fileCount, counted,
                 met, known, result, codes, exitCode>>

Listed(d) == [path |-> d.path, depth |-> d.depth, size |-> total[d.path],
              incomplete |-> d.path \in incomplete]

\* Mutant: the breakdown is cut before the depth that was asked for.
BreakdownShort ==
  [i \in {j \in DOMAIN preorder : preorder[j].depth \in 1 .. depth - 1} |-> Listed(preorder[i])]

\* In the order of the walk, by the place in it.
Breakdown ==
  [i \in {j \in DOMAIN preorder : preorder[j].depth \in 1 .. depth} |-> Listed(preorder[i])]

\* The result, and the class of its exit code (_size_exit_code).
Finish ==
  /\ Walked /\ rolled = Len(preorder) - 1
  /\ EndTarget(IF inaccessible # {} THEN "PARTIAL" ELSE "OK",
               [found |-> TRUE, total |-> total[Root], files |-> fileCount,
                dirs |-> Len(preorder), breakdown |-> Breakdown])
  /\ UNCHANGED <<options, walkVars, exitCode>>

Exit ==
  /\ stage = "exit"
  /\ stage' = "exited"
  /\ exitCode' = AggregateExit(Range(codes))
  /\ UNCHANGED <<options, walkVars, result, codes>>

SizeNext ==
  \/ Reject \/ Break \/ FindRoot \/ List \/ ListFails \/ RollUp \/ Finish \/ Exit
  \/ \E p \in Path : \/ SkipHidden(p) \/ SkipSpecial(p)
                    \/ IsDirectory(p) \/ IsFile(p) \/ EntryFails(p)

SizeSpec == SizeInit /\ [][SizeNext]_sizeVars

FairSizeSpec == SizeSpec /\ WF_sizeVars(SizeNext)
-----------------------------------------------------------------------------
(* Correctness.                                                            *)

SizeTypeOK ==
  /\ depth \in Depth /\ includeHidden \in BOOLEAN /\ targets \in 1 .. MaxTargets
  /\ stage \in {"check", "walk", "exit", "exited"}
  /\ stack \in Seq([path : Path, depth : Nat])
  /\ preorder \in Seq([path : Path, depth : Nat])
  /\ entries \subseteq Path
  /\ total \in [Path -> Nat]
  /\ incomplete \subseteq Path /\ inaccessible \subseteq Path
  /\ fileCount \in Nat /\ rolled \in Nat
  /\ counted \subseteq [path : Path, size : Size]
  /\ met \subseteq Path /\ known \subseteq Path
  /\ codes \in Seq({"OK", "USAGE", "NOT_FOUND", "PERMISSION_DENIED", "PARTIAL"})
  /\ Len(codes) <= targets
  /\ exitCode \in {"none", "OK", "ERROR", "USAGE", "NOT_FOUND", "PERMISSION_DENIED", "PARTIAL"}
  /\ exitCode # "none" <=> stage = "exited"

Below(d) == {p \in Path : d \in Lineage[p]}

\* The bytes of a set of files, one by one: there are as many as their sizes add
\* up to.
Bytes(files) == UNION {{f} \X (1 .. f.size) : f \in files}

Weight(d) == Cardinality(Bytes({f \in counted : f.path \in Below(d)}))

\* FR-007 to FR-009: the total, and that of every directory of the breakdown, is
\* the sum over the files met at or below it; the breakdown has each directory
\* met down to the depth asked for, once, with its distance from the root; and
\* nothing hidden, or in anything hidden, is counted unless it was asked for.
TotalsTrue ==
  /\ SizeTypeOK
  /\ result.found =>
       /\ result.total = Weight(Root)
       /\ result.files = Cardinality({f.path : f \in counted})
       /\ result.dirs = Cardinality(Visited)
       /\ \A i \in DOMAIN result.breakdown :
            LET c == result.breakdown[i] IN
              c.size = Weight(c.path) /\ c.depth = Cardinality(Lineage[c.path]) - 1
       /\ {result.breakdown[i].path : i \in DOMAIN result.breakdown}
            = {p \in Visited : Cardinality(Lineage[p]) - 1 \in 1 .. depth}
       /\ IsInjective(result.breakdown)
  /\ ~includeHidden => \A f \in counted : Lineage[f.path] \cap Hidden = {}

\* The walk never looks at these: not whether they could be read either.
LeftOut == IF includeHidden THEN {} ELSE Hidden

\* What was listed and could not be read, whatever the walk says of it.
Unread == met \ (known \cup LeftOut)

\* FR-011, "annotate the resulting total as incomplete rather than presenting it
\* as a complete result": every entry that could not be read is reported, each
\* size is marked as a lower bound exactly if one is at or below its directory,
\* and the exit code of the command says so for all its targets.  Hidden entries
\* are part of this only with --include-hidden, although spec.md:153-155 has those
\* that cannot be accessed reported "regardless of the hidden-files flag".
LowerBoundsMarked ==
  /\ result.found =>
       /\ inaccessible = Unread
       /\ codes[Len(codes)] = IF Unread = {} THEN "OK" ELSE "PARTIAL"
       /\ \A i \in DOMAIN result.breakdown :
            LET c == result.breakdown[i] IN
              c.incomplete <=> Unread \cap Below(c.path) # {}
  /\ stage = "exited" /\ exitCode # "ERROR" => Summarises(exitCode, codes)

\* The command ends, whatever becomes of the tree meanwhile.
SizeEnds == <>(stage = "exited")
=============================================================================
