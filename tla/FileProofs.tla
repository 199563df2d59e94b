----------------------------- MODULE FileProofs -----------------------------
(***************************************************************************)
(* Proofs about GuardedWrite, for any number of commands, paths, contents, *)
(* foreign edits, failures, kills and further runs; and about FileCommand, *)
(* Duplicates and LineEndings, for any session of commands, any directory  *)
(* and any way to cut a file into chunks.                                  *)
(***************************************************************************)
EXTENDS FileCommand, FiniteSetTheorems, SequenceTheorems, ExitCodeProofs, TLAPS

\* The phases between the reading of the source and the end.
Writing == {"check_bak", "copy", "copying", "mktemp", "writing", "replace", "link"}

\* The phases in which a command has no temporary file.
Tidy == {"idle", "read", "check_bak", "copy", "copying", "mktemp", "done"}

\* What a command knows when it is under way: its flags were accepted, its
\* bytes are complete, and its temporary file holds them when it is installed.
Prepared(j) ==
  /\ pc[j] \in Running => ~(req[j].backup /\ ~req[j].inPlace)
  /\ pc[j] \in {"check_bak", "copy", "copying"} => req[j].backup
  /\ pc[j] \in Writing => content[j] \in Data /\ Dest(j) \in Path
  /\ pc[j] \in Writing => content[j] = Convert[j][base[j]] /\ base[j] \in Content
  /\ pc[j] = "copying" => saved[j] \in Content
  /\ pc[j] \in {"replace", "link"} => temp[j] = content[j]
  /\ pc[j] \in {"link", "unlink"} => Exclusive(j)
  /\ pc[j] = "replace" => ~Exclusive(j)
  /\ pc[j] \in Tidy => temp[j] = Absent
  /\ pc[j] \in {"idle", "read"} => base[j] = NoData
  /\ pc[j] \notin {"unlink", "done"} => outcome[j] = "none"

IInv == TypeOK /\ \A j \in Job : Prepared(j)

\* The paths a command names are paths.
LEMMA BakTypes ==
  ASSUME TypeOK, NEW j \in Job
  PROVE  BakOf(j) \in Path /\ BakOf(j) \in Backups /\ req[j].source \in Path
BY PathAssumption, BakAssumption DEF TypeOK, RequestType, BakOf, Backups

\* What a path reads as, through a symbolic link or not.
LEMMA ReadTypes ==
  ASSUME TypeOK, NEW p \in Path
  PROVE  Follow(p) \in Path /\ ReadsAs(p) \in Content \cup {Absent}
BY DEF TypeOK, Follow, ReadsAs

\* Renaming a file over a path keeps the directory a directory.
LEMMA InstallTypes ==
  ASSUME TypeOK, NEW p \in Path, NEW c \in Content \cup {Absent}, Install(p, c)
  PROVE  /\ dir' \in [Path -> Content \cup {Absent}]
         /\ link' \in [Path -> Path \cup {NoPath}]
         /\ orphan' \subseteq Job
BY DEF TypeOK, Install, CopyingTo

\* IInv holds in the initial states ...
LEMMA InitTypes == Init => IInv
<1> SUFFICES ASSUME Init PROVE IInv
  OBVIOUS
<1>1. dir \in [Path -> Content \cup {Absent}] /\ link \in [Path -> Path \cup {NoPath}]
  BY InitialAssumption, LinkAssumption DEF Init, Content
<1>2. original \in [Path -> Data \cup {Absent}]
  <2> SUFFICES ASSUME NEW p \in Path PROVE ReadsAs(p) \in Data \cup {Absent}
    BY DEF Init
  <2> QED
    BY InitialAssumption, LinkAssumption DEF Init, ReadsAs, Follow
<1>3. TypeOK
  BY <1>1, <1>2, RequestAssumption, BoundAssumption DEF Init, TypeOK, Phase
<1>4. \A j \in Job : Prepared(j)
  BY DEF Init, Prepared, Writing, Tidy, Running
<1> QED
  BY <1>3, <1>4 DEF IInv

-----------------------------------------------------------------------------
(* Every action preserves IInv.                                            *)

\* ... is kept by every step of a command ...
LEMMA StepTypes ==
  ASSUME IInv, NEW j \in Job, Step(j)
  PROVE  IInv'
<1>. USE DEF IInv
<1>0. /\ BakOf(j) \in Path /\ req[j].source \in Path
      /\ ReadsAs(req[j].source) \in Content \cup {Absent}
  BY BakTypes, ReadTypes
<1>1. CASE Validate(j)
  <2>1. TypeOK'
    BY <1>1, BoundAssumption DEF TypeOK, Validate, Finish, Goto, Phase, Error
  <2>2. ASSUME NEW k \in Job PROVE Prepared(k)'
    BY <1>1 DEF TypeOK, Prepared, Validate, BadDestination, Finish, Goto, Phase,
                Writing, Tidy, Running, Dest, Exclusive
  <2> QED BY <2>1, <2>2
<1>2. CASE ReadFails(j)
  <2>1. TypeOK'
    BY <1>2 DEF TypeOK, ReadFails, Finish, Phase, Error
  <2>2. ASSUME NEW k \in Job PROVE Prepared(k)'
    BY <1>2 DEF TypeOK, Prepared, ReadFails, Finish, Phase,
                Writing, Tidy, Running, Dest, Exclusive
  <2> QED BY <2>1, <2>2
<1>3. CASE ReadSource(j)
  <2>0. /\ ReadsAs(req[j].source) \in Content
        /\ Convert[j][ReadsAs(req[j].source)] \in Data
    BY <1>0, <1>3, ConvertAssumption DEF ReadSource
  <2>a. pc[j] = "read" /\ pc[j] \in Running
    BY <1>3 DEF ReadSource, Running, Phase
  <2>b. req[j].backup => req[j].inPlace
    BY <2>a DEF Prepared, TypeOK, RequestType
  <2>c. Dest(j) \in Path \cup {NoPath}
    BY <1>0 DEF Dest, TypeOK, RequestType
  <2>1. /\ pc' \in [Job -> Phase] /\ outcome' \in [Job -> Error \cup {"none", "ok"}]
        /\ pc'[j] \in {"check_bak", "mktemp", "done"}
        /\ pc'[j] = "check_bak" => req[j].backup
        /\ pc'[j] \in {"check_bak", "mktemp"} => Dest(j) \in Path
        /\ pc'[j] # "done" => outcome'[j] = outcome[j]
        /\ \A k \in Job \ {j} : pc'[k] = pc[k] /\ outcome'[k] = outcome[k]
    <3>1. CASE Dest(j) = NoPath
      BY <1>3, <3>1, <2>b, <1>0, PathAssumption DEF ReadSource, TypeOK, Finish, Phase, Dest
    <3>2. CASE Dest(j) # NoPath
      BY <1>3, <3>2, <2>c DEF ReadSource, TypeOK, Goto, Phase
    <3> QED BY <3>1, <3>2
  <2>2. TypeOK'
    BY <1>3, <2>0, <2>1 DEF TypeOK, ReadSource, Content
  <2>3. ASSUME NEW k \in Job PROVE Prepared(k)'
    <3>1. CASE k = j
      BY <1>3, <2>0, <2>1, <2>b, <3>1
         DEF TypeOK, Prepared, ReadSource, Writing, Tidy, Running, Dest, Exclusive
    <3>2. CASE k # j
      BY <1>3, <2>1, <3>2
         DEF TypeOK, Prepared, ReadSource, Writing, Tidy, Running, Dest, Exclusive
    <3> QED BY <3>1, <3>2
  <2> QED BY <2>2, <2>3
<1>4. CASE CheckBackup(j)
  <2>1. TypeOK'
    BY <1>4 DEF TypeOK, CheckBackup, Finish, Goto, Phase, Error
  <2>2. ASSUME NEW k \in Job PROVE Prepared(k)'
    BY <1>4 DEF TypeOK, Prepared, CheckBackup, Finish, Goto, Phase,
                Writing, Tidy, Running, Dest, Exclusive
  <2> QED BY <2>1, <2>2
<1>5. CASE BeginCopy(j)
  <2>1. TypeOK'
    BY <1>0, <1>5 DEF TypeOK, BeginCopy, Goto, Phase, Content
  <2>2. ASSUME NEW k \in Job PROVE Prepared(k)'
    BY <1>0, <1>5 DEF TypeOK, Prepared, BeginCopy, Goto, Phase,
                Writing, Tidy, Running, Dest, Exclusive
  <2> QED BY <2>1, <2>2
<1>6. CASE CopyRefused(j)
  <2>1. TypeOK'
    BY <1>6 DEF TypeOK, CopyRefused, Finish, Phase, Error
  <2>2. ASSUME NEW k \in Job PROVE Prepared(k)'
    BY <1>6 DEF TypeOK, Prepared, CopyRefused, Finish, Phase,
                Writing, Tidy, Running, Dest, Exclusive
  <2> QED BY <2>1, <2>2
<1>c. CopyLands(j) /\ pc[j] = "copying" => dir' \in [Path -> Content \cup {Absent}]
  BY <1>0 DEF CopyLands, TypeOK, Prepared, Content
<1>7. CASE FinishCopy(j)
  <2>1. TypeOK'
    BY <1>7, <1>c DEF TypeOK, FinishCopy, Goto, Phase
  <2>2. ASSUME NEW k \in Job PROVE Prepared(k)'
    BY <1>7 DEF TypeOK, Prepared, FinishCopy, Goto, Phase,
                Writing, Tidy, Running, Dest, Exclusive
  <2> QED BY <2>1, <2>2
<1>8. CASE CopyFails(j)
  <2>1. TypeOK'
    BY <1>8, <1>c DEF TypeOK, CopyFails, Finish, Phase, Error
  <2>2. ASSUME NEW k \in Job PROVE Prepared(k)'
    BY <1>8 DEF TypeOK, Prepared, CopyFails, Finish, Phase,
                Writing, Tidy, Running, Dest, Exclusive
  <2> QED BY <2>1, <2>2
<1>9. CASE MakeTemp(j)
  <2>1. TypeOK'
    BY <1>9 DEF TypeOK, MakeTemp, Finish, Goto, Phase, Error, Content
  <2>2. ASSUME NEW k \in Job PROVE Prepared(k)'
    BY <1>9 DEF TypeOK, Prepared, MakeTemp, Finish, Goto, Phase,
                Writing, Tidy, Running, Dest, Exclusive
  <2> QED BY <2>1, <2>2
<1>10. CASE WriteTemp(j)
  <2>0. content[j] \in Data
    BY <1>10 DEF Prepared, WriteTemp, Writing
  <2>1. TypeOK'
    BY <1>10, <2>0 DEF TypeOK, WriteTemp, Finish, Goto, Phase, Error, Content
  <2>2. ASSUME NEW k \in Job PROVE Prepared(k)'
    BY <1>10 DEF TypeOK, Prepared, WriteTemp, Finish, Goto, Phase,
                 Writing, Tidy, Running, Dest, Exclusive
  <2> QED BY <2>1, <2>2
<1>11. CASE Replace(j)
  <2>0. temp[j] \in Content /\ Dest(j) \in Path
    BY <1>11 DEF Prepared, Replace, Writing, Content
  <2>a. /\ dir' \in [Path -> Content \cup {Absent}]
        /\ link' \in [Path -> Path \cup {NoPath}]
        /\ orphan' \subseteq Job
    BY <1>11, <2>0, InstallTypes DEF Replace
  <2>1. TypeOK'
    BY <1>11, <2>a DEF TypeOK, Replace, Finish, Phase
  <2>2. ASSUME NEW k \in Job PROVE Prepared(k)'
    BY <1>11 DEF TypeOK, Prepared, Replace, Finish, Phase,
                 Writing, Tidy, Running, Dest, Exclusive
  <2> QED BY <2>1, <2>2
<1>12. CASE ReplaceFails(j)
  <2>1. TypeOK'
    BY <1>12 DEF TypeOK, ReplaceFails, Finish, Phase, Error
  <2>2. ASSUME NEW k \in Job PROVE Prepared(k)'
    BY <1>12 DEF TypeOK, Prepared, ReplaceFails, Finish, Phase,
                 Writing, Tidy, Running, Dest, Exclusive
  <2> QED BY <2>1, <2>2
<1>13. CASE LinkDest(j)
  <2>0. temp[j] \in Content /\ Dest(j) \in Path
    BY <1>13 DEF Prepared, LinkDest, Writing, Content
  <2>a. /\ dir' \in [Path -> Content \cup {Absent}]
        /\ link' \in [Path -> Path \cup {NoPath}]
        /\ orphan' \subseteq Job
    BY <1>13, <2>0, InstallTypes DEF LinkDest
  <2>1. TypeOK'
    BY <1>13, <2>a DEF TypeOK, LinkDest, Phase
  <2>2. ASSUME NEW k \in Job PROVE Prepared(k)'
    BY <1>13 DEF TypeOK, Prepared, LinkDest, Phase,
                 Writing, Tidy, Running, Dest, Exclusive
  <2> QED BY <2>1, <2>2
<1>14. CASE LinkFails(j)
  <2>1. TypeOK'
    BY <1>14 DEF TypeOK, LinkFails, Phase, Error
  <2>2. ASSUME NEW k \in Job PROVE Prepared(k)'
    BY <1>14 DEF TypeOK, Prepared, LinkFails, Phase,
                 Writing, Tidy, Running, Dest, Exclusive
  <2> QED BY <2>1, <2>2
<1>15. CASE RemoveTemp(j)
  <2>1. TypeOK'
    BY <1>15 DEF TypeOK, RemoveTemp, Goto, Phase
  <2>2. ASSUME NEW k \in Job PROVE Prepared(k)'
    BY <1>15 DEF TypeOK, Prepared, RemoveTemp, Goto, Phase,
                 Writing, Tidy, Running, Dest, Exclusive
  <2> QED BY <2>1, <2>2
<1> QED
  BY <1>1, <1>2, <1>3, <1>4, <1>5, <1>6, <1>7, <1>8, <1>9, <1>10, <1>11, <1>12,
     <1>13, <1>14, <1>15 DEF Step

\* ... and by what happens to it from outside.
LEMMA OtherTypes ==
  ASSUME IInv, \/ \E j \in Job : Kill(j) \/ Restart(j)
               \/ \E p \in Foreign : Edit(p)
               \/ UNCHANGED vars
  PROVE  IInv'
<1>. USE DEF IInv
<1>1. ASSUME NEW j \in Job, Kill(j) PROVE IInv'
  <2>1. TypeOK'
    BY <1>1 DEF TypeOK, Kill, Phase
  <2>2. ASSUME NEW k \in Job PROVE Prepared(k)'
    BY <1>1 DEF TypeOK, Prepared, Kill, Writing, Tidy, Running, Dest, Exclusive
  <2> QED BY <2>1, <2>2
<1>2. ASSUME NEW j \in Job, Restart(j) PROVE IInv'
  <2>1. TypeOK'
    BY <1>2 DEF TypeOK, Restart, Phase
  <2>2. ASSUME NEW k \in Job PROVE Prepared(k)'
    BY <1>2 DEF TypeOK, Prepared, Restart, Writing, Tidy, Running, Dest, Exclusive
  <2> QED BY <2>1, <2>2
<1>3. ASSUME NEW p \in Foreign, Edit(p) PROVE IInv'
  <2>1. /\ dir' \in [Path -> Content \cup {Absent}]
        /\ link' \in [Path -> Path \cup {NoPath}]
        /\ orphan' \subseteq Job
    BY <1>3, InstallTypes, PathAssumption DEF Edit, Content
  <2>2. TypeOK'
    BY <1>3, <2>1, BoundAssumption DEF TypeOK, Edit
  <2>3. ASSUME NEW k \in Job PROVE Prepared(k)'
    BY <1>3 DEF TypeOK, Prepared, Edit, Writing, Tidy, Running, Dest, Exclusive
  <2> QED BY <2>2, <2>3
<1>4. CASE UNCHANGED vars
  BY <1>4 DEF vars, TypeOK, Prepared, Writing, Tidy, Running, Dest, Exclusive
<1> QED BY <1>1, <1>2, <1>3, <1>4

\* Type correctness, and what a command under way knows.
THEOREM TypeCorrect == Spec => []IInv
<1>1. IInv /\ [Next]_vars => IInv'
  BY StepTypes, OtherTypes DEF Next
<1> QED BY InitTypes, <1>1, PTL DEF Spec

\* For all instances: every variable keeps its type.
THEOREM WellTyped == Spec => []TypeOK
<1>1. IInv => TypeOK
  BY DEF IInv
<1> QED BY <1>1, TypeCorrect, PTL

-----------------------------------------------------------------------------
(* Atomicity and tidiness.                                                 *)

\* A renamed file is a whole one.
LEMMA InstallWhole ==
  ASSUME NeverTorn, TypeOK, NEW p \in Path, NEW c \in Data \cup {Absent}, Install(p, c)
  PROVE  NeverTorn'
BY DataAssumption DEF NeverTorn, TypeOK, Install

\* What no step does to a file that is not a backup: leave it half written.
LEMMA WholeStep == IInv /\ NeverTorn /\ [Next]_vars => NeverTorn'
<1> SUFFICES ASSUME IInv, NeverTorn, [Next]_vars PROVE NeverTorn'
  OBVIOUS
<1>. USE DEF IInv
<1>1. ASSUME NEW j \in Job, Replace(j) \/ LinkDest(j) PROVE NeverTorn'
  <2>1. Dest(j) \in Path /\ temp[j] \in Data /\ Install(Dest(j), temp[j])
    BY <1>1 DEF Prepared, Writing, Replace, LinkDest
  <2> QED BY <2>1, InstallWhole
<1>2. ASSUME NEW j \in Job, BeginCopy(j) \/ FinishCopy(j) \/ CopyFails(j)
      PROVE  NeverTorn'
  <2>1. BakOf(j) \in Backups
    BY BakTypes
  <2>2. \A p \in Path \ Backups : dir'[p] = dir[p]
    BY <1>2, <2>1 DEF TypeOK, BeginCopy, FinishCopy, CopyFails, CopyLands
  <2> QED BY <2>2 DEF NeverTorn
<1>3. ASSUME NEW p \in Foreign, Edit(p) PROVE NeverTorn'
  BY <1>3, InstallWhole, PathAssumption DEF Edit
<1>4. CASE UNCHANGED dir
  BY <1>4 DEF NeverTorn
<1> QED
  BY <1>1, <1>2, <1>3, <1>4
     DEF Next, Step, vars, Validate, ReadFails, ReadSource, CheckBackup,
         CopyRefused, MakeTemp, WriteTemp, ReplaceFails, LinkFails, RemoveTemp,
         Kill, Restart

\* FR-016, for all instances: a file that is not a backup is never seen written
\* in part, whatever commands run, fail or are killed.
THEOREM Atomicity == Spec => []NeverTorn
<1>1. Init => NeverTorn
  <2> SUFFICES ASSUME Init, NEW p \in Path PROVE dir[p] # Torn
    BY DEF NeverTorn
  <2>1. dir \in [Path -> Initial \cup {Absent}]
    BY DEF Init
  <2> QED BY <2>1, InitialAssumption, DataAssumption
<1> QED BY <1>1, WholeStep, TypeCorrect, PTL DEF Spec

LEMMA TidyFiles == IInv => NoLitter
BY DEF IInv, Prepared, Tidy, NoLitter

\* A command that has reported has no temporary file left.
THEOREM Tidiness == Spec => []NoLitter
BY TidyFiles, TypeCorrect, PTL

\* FilesWhole, atomic.py: what is seen of a file is whole and nothing temporary
\* outlives the command, for any number of commands, failures and kills.
THEOREM Wholeness == Spec => []FilesWhole
BY Atomicity, Tidiness, PTL DEF FilesWhole

-----------------------------------------------------------------------------
(* A command without --in-place leaves its source alone.                   *)

\* Links only disappear, so they stay one step long and never name a backup;
\* an accepted output is neither the name of the source nor what it points at.
LinkInv ==
  /\ \A p \in Path : link[p] \in {Link[p], NoPath}
  /\ \A p \in Path : link[p] # NoPath => link[link[p]] = NoPath /\ p \notin Backups

Apart(j) ==
  pc[j] \in Running /\ ~req[j].inPlace /\ req[j].output # NoPath
    => req[j].output \notin {req[j].source, Follow(req[j].source)}

ApartInv == LinkInv /\ \A j \in Job : Apart(j)

\* A rename removes at most the link it lands on.
LEMMA InstallLinks ==
  ASSUME TypeOK, LinkInv, NEW p \in Path, NEW c, Install(p, c)
  PROVE  /\ LinkInv'
         /\ \A q \in Path : Follow(q)' \in {q, Follow(q)}
<1>1. link' = [link EXCEPT ![p] = NoPath] /\ link \in [Path -> Path \cup {NoPath}]
  BY DEF Install, TypeOK
<1>2. \A q \in Path : link'[q] \in {link[q], NoPath}
  BY <1>1
<1>3. LinkInv'
  BY <1>1, <1>2 DEF LinkInv
<1> QED BY <1>2, <1>3 DEF Follow

\* The destination of a running command stays apart from its source.
LEMMA ApartStep == IInv /\ ApartInv /\ [Next]_vars => ApartInv'
<1> SUFFICES ASSUME IInv, ApartInv, [Next]_vars PROVE ApartInv'
  OBVIOUS
<1>. USE DEF IInv, ApartInv
<1>1. ASSUME NEW p \in Path, NEW c, Install(p, c), UNCHANGED req,
             \A k \in Job : pc'[k] \in Running => pc[k] \in Running
      PROVE  ApartInv'
  <2>1. LinkInv' /\ \A q \in Path : Follow(q)' \in {q, Follow(q)}
    BY <1>1, InstallLinks
  <2>2. \A k \in Job : req[k].source \in Path
    BY BakTypes
  <2> QED BY <1>1, <2>1, <2>2 DEF Apart
<1>2. ASSUME NEW j \in Job, Replace(j) \/ LinkDest(j) PROVE ApartInv'
  <2>1. Dest(j) \in Path /\ Install(Dest(j), temp[j])
    BY <1>2 DEF Prepared, Writing, Replace, LinkDest
  <2>2. \A k \in Job : pc'[k] \in Running => pc[k] \in Running
    BY <1>2 DEF Replace, LinkDest, Finish, Running, TypeOK, Phase
  <2> QED BY <1>1, <1>2, <2>1, <2>2 DEF Replace, LinkDest
<1>3. ASSUME NEW p \in Foreign, Edit(p) PROVE ApartInv'
  BY <1>1, <1>3, PathAssumption DEF Edit
<1>4. ASSUME NEW j \in Job, Validate(j) PROVE ApartInv'
  <2>1. LinkInv' /\ UNCHANGED <<link, req>>
    BY <1>4 DEF Validate, LinkInv
  <2>2. ASSUME NEW k \in Job PROVE Apart(k)'
    <3>1. CASE k # j
      BY <1>4, <2>1, <3>1 DEF Validate, Apart, Follow, Finish, Goto, TypeOK
    <3>2. CASE k = j /\ ~BadDestination(j)
      <4>1. req[j].output # NoPath => Follow(req[j].output) # Follow(req[j].source)
        BY <3>2 DEF BadDestination
      <4>2. req[j].source \in Path /\ req[j].output \in Path \cup {NoPath}
        BY BakTypes DEF TypeOK, RequestType
      <4>3. Follow(Follow(req[j].source)) = Follow(req[j].source)
        BY <4>2 DEF LinkInv, Follow
      <4> QED BY <2>1, <3>2, <4>1, <4>3 DEF Apart, Follow
    <3>3. CASE k = j /\ BadDestination(j)
      BY <1>4, <3>3 DEF Validate, Finish, Apart, Running, TypeOK
    <3> QED BY <3>1, <3>2, <3>3
  <2> QED BY <2>1, <2>2
<1>5. CASE /\ UNCHANGED <<link, req>>
           /\ \A k \in Job : pc'[k] \in Running => pc[k] \in Running
  BY <1>5 DEF LinkInv, Apart, Follow
<1>6. ASSUME NEW j \in Job,
             \/ ReadFails(j) \/ ReadSource(j) \/ CheckBackup(j) \/ BeginCopy(j)
             \/ CopyRefused(j) \/ FinishCopy(j) \/ CopyFails(j) \/ MakeTemp(j)
             \/ WriteTemp(j) \/ ReplaceFails(j) \/ LinkFails(j) \/ RemoveTemp(j)
             \/ Kill(j) \/ Restart(j)
      PROVE  ApartInv'
  <2>1. UNCHANGED <<link, req>>
    BY <1>6 DEF ReadFails, ReadSource, CheckBackup, BeginCopy, CopyRefused,
                FinishCopy, CopyFails, MakeTemp, WriteTemp, ReplaceFails,
                LinkFails, RemoveTemp, Kill, Restart
  <2>2. \/ pc[j] \in Running
        \/ pc' = [pc EXCEPT ![j] = "idle"]
    BY <1>6 DEF ReadFails, ReadSource, CheckBackup, BeginCopy, CopyRefused,
                FinishCopy, CopyFails, MakeTemp, WriteTemp, ReplaceFails,
                LinkFails, RemoveTemp, Kill, Restart, Running, Phase
  <2>3. \A k \in Job \ {j} : pc'[k] = pc[k]
    BY <1>6 DEF ReadFails, ReadSource, CheckBackup, BeginCopy, CopyRefused,
                FinishCopy, CopyFails, MakeTemp, WriteTemp, ReplaceFails,
                LinkFails, RemoveTemp, Kill, Restart, Finish, Goto, TypeOK
  <2>4. \A k \in Job : pc'[k] \in Running => pc[k] \in Running
    BY <2>2, <2>3 DEF Running, TypeOK
  <2> QED BY <1>5, <2>1, <2>4
<1>7. CASE UNCHANGED vars
  BY <1>5, <1>7 DEF vars
<1> QED BY <1>2, <1>3, <1>4, <1>6, <1>7 DEF Next, Step

\* It is so at the start.
LEMMA ApartInit == Init => ApartInv
BY LinkAssumption DEF Init, ApartInv, LinkInv, Apart, Running

\* What a command without --in-place does to its source in one step: nothing.
LEMMA SourceStep ==
  ASSUME IInv, ApartInv, [Next]_vars
  PROVE  \A j \in Job : pc'[j] # pc[j] /\ ~req[j].inPlace
           => ReadsAs(req[j].source)' = ReadsAs(req[j].source)
<1>. USE DEF IInv, ApartInv
<1> SUFFICES ASSUME NEW j \in Job, pc'[j] # pc[j], ~req[j].inPlace
             PROVE  ReadsAs(req[j].source)' = ReadsAs(req[j].source)
  OBVIOUS
<1>1. Step(j) \/ Kill(j) \/ Restart(j)
  <2>1. ASSUME NEW k \in Job, Step(k) \/ Kill(k) \/ Restart(k) PROVE k = j
    BY <2>1 DEF Step, Validate, ReadFails, ReadSource, CheckBackup, BeginCopy,
                CopyRefused, FinishCopy, CopyFails, MakeTemp, WriteTemp, Replace,
                ReplaceFails, LinkDest, LinkFails, RemoveTemp, Kill, Restart,
                Finish, Goto, TypeOK
  <2> QED BY <2>1 DEF Next, Edit, vars
<1>2. CASE UNCHANGED <<dir, link, req>>
  BY <1>2 DEF ReadsAs, Follow
<1>3. CASE Replace(j) \/ LinkDest(j)
  <2>1. /\ Install(Dest(j), temp[j]) /\ UNCHANGED req
        /\ pc[j] \in Running /\ Dest(j) = req[j].output /\ Dest(j) \in Path
    BY <1>3 DEF Replace, LinkDest, Prepared, Writing, Running, Phase, Dest
  <2>2. Dest(j) \notin {req[j].source, Follow(req[j].source)}
    BY <2>1, PathAssumption DEF Apart
  <2>3. req[j].source \in Path /\ Follow(req[j].source) \in Path
    BY BakTypes, ReadTypes
  <2>4. Follow(req[j].source)' = Follow(req[j].source)
    BY <2>1, <2>2, <2>3 DEF Install, Follow, TypeOK
  <2> QED BY <2>1, <2>2, <2>3, <2>4 DEF Install, ReadsAs, TypeOK
<1>4. ~(BeginCopy(j) \/ FinishCopy(j) \/ CopyFails(j))
  BY DEF BeginCopy, FinishCopy, CopyFails, Prepared, Running, Phase
<1> QED
  BY <1>1, <1>2, <1>3, <1>4
     DEF Step, Validate, ReadFails, ReadSource, CheckBackup, CopyRefused, MakeTemp,
         WriteTemp, ReplaceFails, LinkFails, RemoveTemp, Kill, Restart

\* FR-015, for all instances: without --in-place no step of a command changes
\* what its source reads as.
THEOREM NonDestructive == Spec => SourceUntouched
<1>1. IInv /\ ApartInv /\ [Next]_vars
        => [\A j \in Job : pc'[j] # pc[j] /\ ~req[j].inPlace
              => ReadsAs(req[j].source)' = ReadsAs(req[j].source)]_vars
  BY SourceStep
<1>2. Spec => []ApartInv
  BY ApartInit, ApartStep, TypeCorrect, PTL DEF Spec
<1> QED BY <1>1, <1>2, TypeCorrect, PTL DEF Spec, SourceUntouched

\* What a command does to a file it may not replace: nothing.
LEMMA OutputStep ==
  ASSUME IInv, [Next]_vars, NEW j \in Job, pc'[j] # pc[j], Exclusive(j),
         Dest(j) # NoPath, Present(Dest(j))
  PROVE  UNCHANGED <<dir[Dest(j)], link[Dest(j)]>>
<1>. USE DEF IInv
<1>1. Step(j) \/ Kill(j) \/ Restart(j)
  <2>1. ASSUME NEW k \in Job, Step(k) \/ Kill(k) \/ Restart(k) PROVE k = j
    BY <2>1
       DEF Step, Validate, ReadFails, ReadSource, CheckBackup, BeginCopy,
           CopyRefused, FinishCopy, CopyFails, MakeTemp, WriteTemp, Replace,
           ReplaceFails, LinkDest, LinkFails, RemoveTemp, Kill, Restart,
           Finish, Goto, TypeOK
  <2> QED BY <2>1 DEF Next, Edit, vars
<1>2. ~(BeginCopy(j) \/ FinishCopy(j) \/ CopyFails(j) \/ Replace(j) \/ LinkDest(j))
  BY DEF BeginCopy, FinishCopy, CopyFails, Replace, LinkDest, Prepared, Running,
         Phase, Exclusive
<1>3. UNCHANGED <<dir, link, req>>
  BY <1>1, <1>2
     DEF Step, Validate, ReadFails, ReadSource, CheckBackup, CopyRefused, MakeTemp,
         WriteTemp, ReplaceFails, LinkFails, RemoveTemp, Kill, Restart
<1> QED BY <1>3 DEF Dest

\* FR-016, for all instances: --output without --force replaces nothing.
THEOREM NoOutputClobbered == Spec => OutputExclusive
<1>1. IInv /\ [Next]_vars
        => [\A j \in Job : pc'[j] # pc[j] /\ Exclusive(j) /\ Dest(j) # NoPath
              => (Present(Dest(j)) => UNCHANGED <<dir[Dest(j)], link[Dest(j)]>>)]_vars
  BY OutputStep
<1> QED BY <1>1, TypeCorrect, PTL DEF Spec, OutputExclusive

\* OnlyAsTold, atomic.py and api.py _write_guarded: neither a source nor an
\* existing output changes unless the command line says so.
THEOREM Obedience == Spec => OnlyAsTold
BY NonDestructive, NoOutputClobbered DEF OnlyAsTold

-----------------------------------------------------------------------------
(* A command that nobody interferes with: its reports are true, and its    *)
(* backup keeps the first content of its source.                           *)

\* What ReportHolds claims of a report; a file that was installed is regular.
Truthful(j) ==
  IF outcome[j] = "ok" /\ Dest(j) # NoPath
    THEN /\ link[Dest(j)] = NoPath
         /\ dir[Dest(j)] = content[j]
         /\ content[j] = Convert[j][base[j]]
         /\ req[j].backup => dir[BakOf(j)] = base[j]
         /\ ~req[j].inPlace => ReadsAs(req[j].source) = base[j]
    ELSE ReadsAs(req[j].source) = base[j]

\* While the command is under way its source is what it read; an unfinished
\* backup is its own, a finished one is complete.
Undisturbed(j) ==
  /\ pc[j] \in Writing => ReadsAs(req[j].source) = base[j]
  /\ pc[j] = "copying" =>
       /\ saved[j] = base[j]
       /\ dir[BakOf(j)] = Torn
       /\ j \notin orphan
       /\ Follow(req[j].source) # BakOf(j)
  /\ pc[j] \in {"mktemp", "writing", "replace"} /\ req[j].backup
       => dir[BakOf(j)] = base[j]
  /\ pc[j] \in {"unlink", "done"} /\ base[j] # NoData => Truthful(j)

\* The first content of the source is in the source until the backup is
\* complete, and in the backup from then on.
Kept(j) ==
  LET first == original[req[j].source]
  IN /\ first \in {ReadsAs(req[j].source), dir[BakOf(j)]}
     /\ first = Absent => ReadsAs(req[j].source) = Absent
     /\ pc[j] \in Writing => first # Absent
     /\ pc[j] = "copy" => dir[BakOf(j)] = Absent
     /\ pc[j] \in {"copy", "copying"} => ReadsAs(req[j].source) = first
     /\ pc[j] \in {"mktemp", "writing", "replace"} => dir[BakOf(j)] = first

Safe(j) ==
  Alone(j) => /\ Undisturbed(j)
              /\ req[j].backup /\ ~req[j].force => Kept(j)

SafeInv == \A j \in Job : Safe(j)

\* A step after which nothing that concerns command j has changed.
Unseen(j) ==
  /\ UNCHANGED <<Follow(req[j].source), ReadsAs(req[j].source), dir[BakOf(j)]>>
  /\ Dest(j) # NoPath => UNCHANGED <<dir[Dest(j)], link[Dest(j)]>>
  /\ UNCHANGED <<original, req, pc[j], base[j], content[j], saved[j], outcome[j]>>
  /\ j \in orphan' => j \in orphan

\* What does not touch the files of a command keeps it safe.
LEMMA UnseenSafe ==
  ASSUME NEW j \in Job, Safe(j), UNCHANGED req, Alone(j) => Unseen(j)
  PROVE  Safe(j)'
<1> SUFFICES ASSUME Alone(j) PROVE Undisturbed(j)' /\ (req[j].backup /\ ~req[j].force => Kept(j)')
  BY DEF Safe, Alone, Uses, Writes, Dest, BakOf
<1>1. UNCHANGED <<BakOf(j), Dest(j), req[j]>>
  BY DEF BakOf, Dest
<1>2. Undisturbed(j) /\ (req[j].backup /\ ~req[j].force => Kept(j))
  BY DEF Safe
<1>3. Truthful(j) => Truthful(j)'
  BY <1>1 DEF Unseen, Truthful
<1> QED BY <1>1, <1>2, <1>3 DEF Unseen, Undisturbed, Kept

\* Commands and programs that write elsewhere are not seen.
LEMMA PutUnseen ==
  ASSUME IInv, LinkInv, NEW j \in Job, NEW p \in Path, p \notin Uses(j), NEW c,
         \/ Install(p, c)
         \/ dir' = [dir EXCEPT ![p] = c] /\ UNCHANGED <<link, orphan>>,
         UNCHANGED <<original, req, pc[j], base[j], content[j], saved[j], outcome[j]>>
  PROVE  Unseen(j)
<1>1. /\ req[j].source \in Path /\ BakOf(j) \in Path
      /\ Dest(j) \in Path \cup {NoPath}
      /\ Follow(req[j].source) \in {req[j].source, Link[req[j].source]} \ {NoPath}
      /\ Follow(req[j].source) \in Path
  BY BakTypes, ReadTypes, PathAssumption DEF IInv, TypeOK, RequestType, Dest, LinkInv, Follow
<1>2. p \notin {req[j].source, Follow(req[j].source), BakOf(j), Dest(j)}
  BY <1>1, PathAssumption DEF Uses
<1>3. UNCHANGED <<BakOf(j), Dest(j)>>
  BY DEF BakOf, Dest
<1>4. link'[req[j].source] = link[req[j].source]
      /\ (Dest(j) # NoPath => link'[Dest(j)] = link[Dest(j)])
  BY <1>1, <1>2 DEF Install, IInv, TypeOK
<1>5. j \in orphan' => j \in orphan
  BY <1>2 DEF Install, CopyingTo
<1>6. UNCHANGED Follow(req[j].source)
  BY <1>4 DEF Follow
<1> QED BY <1>1, <1>2, <1>3, <1>4, <1>5, <1>6 DEF Unseen, ReadsAs, Install, IInv, TypeOK

\* The steps of other commands do not touch the files of a command that is alone on them.
LEMMA OthersUnseen ==
  ASSUME IInv, LinkInv, NEW j \in Job, NEW k \in Job, k # j, Alone(j),
         Step(k) \/ Kill(k) \/ Restart(k)
  PROVE  Unseen(j)
<1>. USE DEF IInv
<1>1. /\ UNCHANGED <<original, req, pc[j], base[j], content[j], saved[j], outcome[j]>>
  BY DEF Step, Validate, ReadFails, ReadSource, CheckBackup, BeginCopy, CopyRefused,
         FinishCopy, CopyFails, MakeTemp, WriteTemp, Replace, ReplaceFails, LinkDest,
         LinkFails, RemoveTemp, Kill, Restart, Finish, Goto, TypeOK
<1>2. CASE Replace(k) \/ LinkDest(k)
  <2>1. Dest(k) \in Path /\ Install(Dest(k), temp[k])
    BY <1>2 DEF Prepared, Writing, Replace, LinkDest
  <2>2. Dest(k) \notin Uses(j)
    BY DEF Alone, Writes
  <2> QED BY <1>1, <2>1, <2>2, PutUnseen
<1>3. ASSUME req[k].backup PROVE BakOf(k) \in Path /\ BakOf(k) \notin Uses(j)
  BY <1>3, BakTypes DEF Alone, Writes
<1>4. CASE UNCHANGED <<dir, link, orphan>>
  BY <1>1, <1>4 DEF Unseen, ReadsAs, Follow, BakOf, Dest
<1>5. CASE BeginCopy(k)
  <2>1. BakOf(k) \in Path /\ BakOf(k) \notin Uses(j)
    BY <1>3, <1>5 DEF BeginCopy, Prepared
  <2>2. /\ req[j].source \in Path /\ BakOf(j) \in Path
        /\ Dest(j) \in Path \cup {NoPath}
        /\ Follow(req[j].source) \in {req[j].source, Link[req[j].source]} \ {NoPath}
        /\ Follow(req[j].source) \in Path
    BY BakTypes, ReadTypes, PathAssumption DEF TypeOK, RequestType, Dest, LinkInv, Follow
  <2>3. BakOf(k) \notin {req[j].source, Follow(req[j].source), BakOf(j), Dest(j)}
    BY <2>1, <2>2, PathAssumption DEF Uses
  <2> QED BY <1>1, <1>5, <2>2, <2>3
          DEF BeginCopy, Unseen, ReadsAs, Follow, BakOf, Dest, TypeOK
<1>6. CASE FinishCopy(k) \/ CopyFails(k)
  <2>1. BakOf(k) \in Path /\ BakOf(k) \notin Uses(j)
    BY <1>3, <1>6 DEF FinishCopy, CopyFails, Prepared
  <2>2. UNCHANGED <<link, orphan>>
    BY <1>6 DEF FinishCopy, CopyFails
  <2>3. \/ UNCHANGED dir
        \/ \E c \in {saved[k], Torn} : dir' = [dir EXCEPT ![BakOf(k)] = c]
    BY <1>6 DEF FinishCopy, CopyFails, CopyLands
  <2> QED BY <1>1, <1>4, <2>1, <2>2, <2>3, PutUnseen
<1> QED
  BY <1>2, <1>4, <1>5, <1>6
     DEF Step, Validate, ReadFails, ReadSource, CheckBackup, CopyRefused, MakeTemp,
         WriteTemp, ReplaceFails, LinkFails, RemoveTemp, Kill, Restart

\* The command's own steps.
LEMMA OwnSafe ==
  ASSUME IInv, ApartInv, NEW j \in Job, Safe(j), Alone(j),
         Step(j) \/ Kill(j) \/ Restart(j)
  PROVE  /\ Undisturbed(j)'
         /\ req[j].backup /\ ~req[j].force => Kept(j)'
<1>. USE DEF IInv, ApartInv
<1>0. /\ BakOf(j) \in Path /\ req[j].source \in Path /\ BakOf(j) # req[j].source
      /\ Follow(req[j].source) \in Path
      /\ ReadsAs(req[j].source) \in Content \cup {Absent}
      /\ Undisturbed(j)
      /\ req[j].backup /\ ~req[j].force => Kept(j)
      /\ Prepared(j)
  BY BakTypes, ReadTypes, BakAssumption DEF Safe, BakOf, TypeOK, RequestType
<1>1. UNCHANGED <<req, original, BakOf(j), Dest(j)>>
  BY DEF BakOf, Dest, Step, Validate, ReadFails, ReadSource, CheckBackup, BeginCopy,
         CopyRefused, FinishCopy, CopyFails, MakeTemp, WriteTemp, Replace,
         ReplaceFails, LinkDest, LinkFails, RemoveTemp, Kill, Restart
<1>2. ASSUME UNCHANGED <<dir, link>>
      PROVE  UNCHANGED <<Follow(req[j].source), ReadsAs(req[j].source), dir[BakOf(j)]>>
  BY <1>1, <1>2 DEF Follow, ReadsAs
<1>3. CASE Validate(j)
  <2>1. UNCHANGED <<dir, link, base>> /\ base[j] = NoData /\ pc'[j] \in {"done", "read"}
    BY <1>3 DEF Validate, Prepared, Finish, Goto, TypeOK
  <2> QED BY <1>0, <1>1, <1>2, <2>1 DEF Undisturbed, Kept, Writing
<1>4. CASE ReadFails(j)
  <2>1. UNCHANGED <<dir, link, base>> /\ base[j] = NoData /\ pc'[j] = "done"
    BY <1>4 DEF ReadFails, Prepared, Finish, TypeOK
  <2> QED BY <1>0, <1>1, <1>2, <2>1 DEF Undisturbed, Kept, Writing
<1>5. CASE ReadSource(j)
  <2>1. /\ UNCHANGED <<dir, link>> /\ base'[j] = ReadsAs(req[j].source)
        /\ ReadsAs(req[j].source) # Absent
    BY <1>5 DEF ReadSource, TypeOK
  <2>2. \/ pc'[j] = "check_bak"
        \/ pc'[j] = "done" /\ Dest(j) = NoPath /\ ~req[j].backup
        \/ pc'[j] = "mktemp" /\ ~req[j].backup
    <3>1. req[j].backup => Dest(j) # NoPath
      BY <1>0, <1>5, PathAssumption DEF ReadSource, Prepared, Running, Phase, Dest
    <3> QED BY <1>5, <3>1 DEF ReadSource, Goto, Finish, TypeOK
  <2>3. UNCHANGED <<ReadsAs(req[j].source), dir[BakOf(j)]>>
    BY <1>2, <2>1
  <2>4. Undisturbed(j)'
    <3>1. ReadsAs(req[j].source)' = base'[j]
      BY <2>1, <2>3
    <3> QED BY <1>1, <2>2, <3>1 DEF Undisturbed, Truthful, Writing
  <2>5. req[j].backup /\ ~req[j].force => Kept(j)'
    BY <1>0, <1>1, <2>1, <2>2, <2>3 DEF Kept, Writing
  <2> QED BY <2>4, <2>5
<1>6. CASE CheckBackup(j)
  <2>1. /\ UNCHANGED <<dir, link, base>> /\ pc[j] = "check_bak"
        /\ \/ pc'[j] = "done" /\ outcome'[j] = "ClobberRefused"
           \/ pc'[j] = "copy" /\ (dir[BakOf(j)] = Absent \/ req[j].force)
    BY <1>6 DEF CheckBackup, Finish, Goto, TypeOK
  <2>2. ReadsAs(req[j].source) = base[j] /\ base[j] # Absent
    BY <1>0, <2>1, DataAssumption DEF Undisturbed, Prepared, Writing, Content
  <2> QED BY <1>0, <1>1, <1>2, <2>1, <2>2 DEF Undisturbed, Kept, Writing, Truthful
<1>7. CASE BeginCopy(j)
  <2>1. /\ pc[j] = "copy" /\ pc'[j] = "copying" /\ UNCHANGED <<link, base>>
        /\ saved'[j] = ReadsAs(req[j].source) /\ j \notin orphan'
        /\ dir' = [dir EXCEPT ![BakOf(j)] = Torn]
        /\ Follow(req[j].source) # BakOf(j)
    BY <1>7 DEF BeginCopy, Goto, TypeOK
  <2>2. UNCHANGED <<Follow(req[j].source), ReadsAs(req[j].source)>> /\ dir'[BakOf(j)] = Torn
    BY <1>0, <1>1, <2>1 DEF Follow, ReadsAs, TypeOK
  <2> QED BY <1>0, <1>1, <2>1, <2>2 DEF Undisturbed, Kept, Writing
<1>8. CASE CopyRefused(j)
  <2>1. /\ UNCHANGED <<dir, link, base>> /\ pc[j] = "copy" /\ pc'[j] = "done"
        /\ outcome'[j] = "FilePermissionDenied"
    BY <1>8 DEF CopyRefused, Finish, TypeOK
  <2> QED BY <1>0, <1>1, <1>2, <2>1 DEF Undisturbed, Kept, Writing, Truthful
<1>9. CASE FinishCopy(j)
  <2>1. /\ pc[j] = "copying" /\ pc'[j] = "mktemp" /\ UNCHANGED <<link, base>>
        /\ dir' = [dir EXCEPT ![BakOf(j)] = saved[j]]
    BY <1>0, <1>9 DEF FinishCopy, CopyLands, Goto, TypeOK, Undisturbed
  <2>2. /\ UNCHANGED <<Follow(req[j].source), ReadsAs(req[j].source)>>
        /\ dir'[BakOf(j)] = base[j]
    BY <1>0, <1>1, <2>1 DEF Follow, ReadsAs, TypeOK, Undisturbed
  <2> QED BY <1>0, <1>1, <2>1, <2>2 DEF Undisturbed, Kept, Writing
<1>10. CASE CopyFails(j)
  <2>1. /\ pc[j] = "copying" /\ pc'[j] = "done" /\ UNCHANGED <<link, base>>
        /\ outcome'[j] = "FilePermissionDenied"
        /\ \/ dir' = [dir EXCEPT ![BakOf(j)] = saved[j]]
           \/ dir' = dir
    BY <1>0, <1>10 DEF CopyFails, CopyLands, Finish, TypeOK, Undisturbed
  <2>2. /\ UNCHANGED <<Follow(req[j].source), ReadsAs(req[j].source)>>
    BY <1>0, <1>1, <2>1 DEF Follow, ReadsAs, TypeOK, Undisturbed
  <2> QED BY <1>0, <1>1, <2>1, <2>2 DEF Undisturbed, Kept, Writing, Truthful
<1>11. CASE MakeTemp(j) \/ WriteTemp(j) \/ ReplaceFails(j)
  <2>1. /\ UNCHANGED <<dir, link, base>>
        /\ pc[j] \in {"mktemp", "writing", "replace"}
        /\ \/ pc'[j] \in {"writing", "replace"}
           \/ pc'[j] = "link" /\ Exclusive(j)
           \/ pc'[j] = "done" /\ outcome'[j] = "FilePermissionDenied"
    BY <1>11 DEF MakeTemp, WriteTemp, ReplaceFails, Finish, Goto, TypeOK
  <2> QED BY <1>0, <1>1, <1>2, <2>1 DEF Undisturbed, Kept, Writing, Truthful
<1>12. CASE Replace(j)
  <2>1. /\ pc[j] = "replace" /\ pc'[j] = "done" /\ outcome'[j] = "ok"
        /\ UNCHANGED <<base, content>> /\ Dest(j) \in Path
        /\ Install(Dest(j), content[j])
        /\ content[j] = Convert[j][base[j]]
    BY <1>0, <1>12 DEF Replace, Finish, TypeOK, Prepared, Writing
  <2>2. dir'[Dest(j)] = content[j] /\ link'[Dest(j)] = NoPath
    BY <2>1 DEF Install, TypeOK
  <2>3. req[j].backup => Dest(j) = req[j].source /\ dir'[BakOf(j)] = dir[BakOf(j)]
    <3>1. req[j].backup => req[j].inPlace
      BY <1>0, <2>1 DEF Prepared, Running, Phase
    <3> QED BY <1>0, <2>1, <3>1 DEF Install, TypeOK, Dest
  <2>4. ~req[j].inPlace => ReadsAs(req[j].source)' = ReadsAs(req[j].source)
    BY <1>0, <1>12, SourceStep, <2>1 DEF Next, Step
  <2>5. Truthful(j)'
    <3>1. ReadsAs(req[j].source) = base[j] /\ (req[j].backup => dir[BakOf(j)] = base[j])
      BY <1>0, <2>1 DEF Undisturbed, Writing
    <3>2. req[j].backup => dir'[BakOf(j)'] = base'[j]
      BY <1>1, <2>1, <2>3, <3>1
    <3>3. ~req[j].inPlace => ReadsAs(req[j].source)' = base'[j]
      BY <2>1, <2>4, <3>1
    <3> QED BY <1>1, <2>1, <2>2, <3>2, <3>3, PathAssumption DEF Truthful
  <2>6. Undisturbed(j)'
    BY <2>1, <2>5 DEF Undisturbed, Writing
  <2>7. req[j].backup /\ ~req[j].force => Kept(j)'
    <3> SUFFICES ASSUME req[j].backup, ~req[j].force PROVE Kept(j)'
      OBVIOUS
    <3>1. /\ original[req[j].source] # Absent
          /\ dir[BakOf(j)] = original[req[j].source]
      BY <1>0, <2>1 DEF Kept, Writing
    <3>2. dir'[BakOf(j)'] = original'[req'[j].source]
      BY <1>1, <2>3, <3>1
    <3> QED BY <1>1, <2>1, <3>1, <3>2 DEF Kept, Writing
  <2> QED BY <2>6, <2>7
<1>13. CASE LinkDest(j)
  <2>1. /\ pc[j] = "link" /\ pc'[j] = "unlink" /\ outcome'[j] = "ok"
        /\ UNCHANGED <<base, content>> /\ Dest(j) \in Path
        /\ Install(Dest(j), content[j])
        /\ content[j] = Convert[j][base[j]]
        /\ ~req[j].inPlace /\ ~req[j].backup
    BY <1>0, <1>13 DEF LinkDest, TypeOK, Prepared, Writing, Exclusive, Running, Phase
  <2>2. dir'[Dest(j)] = content[j] /\ link'[Dest(j)] = NoPath
    BY <2>1 DEF Install, TypeOK
  <2>3. ReadsAs(req[j].source)' = ReadsAs(req[j].source)
    BY <1>0, <1>13, SourceStep, <2>1 DEF Next, Step
  <2>4. Truthful(j)'
    BY <1>0, <1>1, <2>1, <2>2, <2>3 DEF Undisturbed, Truthful, Writing
  <2> QED BY <1>1, <2>1, <2>4 DEF Undisturbed, Writing
<1>14. CASE LinkFails(j)
  <2>1. /\ UNCHANGED <<dir, link, base>> /\ pc[j] = "link" /\ pc'[j] = "unlink"
        /\ outcome'[j] \in {"ClobberRefused", "FilePermissionDenied"}
        /\ ~req[j].backup
    BY <1>0, <1>14 DEF LinkFails, TypeOK, Prepared, Exclusive, Running, Phase
  <2> QED BY <1>0, <1>1, <1>2, <2>1 DEF Undisturbed, Writing, Truthful
<1>15. CASE RemoveTemp(j)
  <2>1. /\ UNCHANGED <<dir, link, base, content, outcome>>
        /\ pc[j] = "unlink" /\ pc'[j] = "done"
    BY <1>15 DEF RemoveTemp, Goto, TypeOK
  <2> QED BY <1>0, <1>1, <1>2, <2>1 DEF Undisturbed, Kept, Writing, Truthful
<1>16. CASE Kill(j) \/ Restart(j)
  <2>1. UNCHANGED <<dir, link>> /\ pc'[j] \in {"killed", "idle"}
    BY <1>16 DEF Kill, Restart, TypeOK
  <2> QED BY <1>0, <1>1, <1>2, <2>1 DEF Undisturbed, Kept, Writing
<1> QED
  BY <1>3, <1>4, <1>5, <1>6, <1>7, <1>8, <1>9, <1>10, <1>11, <1>12, <1>13, <1>14,
     <1>15, <1>16 DEF Step

\* Safety is inductive.
LEMMA SafeStep == IInv /\ ApartInv /\ SafeInv /\ [Next]_vars => SafeInv'
<1> SUFFICES ASSUME IInv, ApartInv, SafeInv, [Next]_vars, NEW j \in Job PROVE Safe(j)'
  BY DEF SafeInv
<1>. USE DEF ApartInv
<1>1. Safe(j)
  BY DEF SafeInv
<1>2. ASSUME NEW k \in Job, Step(k) \/ Kill(k) \/ Restart(k) PROVE Safe(j)'
  <2>1. UNCHANGED req
    BY <1>2 DEF Step, Validate, ReadFails, ReadSource, CheckBackup, BeginCopy,
                CopyRefused, FinishCopy, CopyFails, MakeTemp, WriteTemp, Replace,
                ReplaceFails, LinkDest, LinkFails, RemoveTemp, Kill, Restart
  <2>2. CASE k # j
    BY <1>1, <1>2, <2>1, <2>2, OthersUnseen, UnseenSafe
  <2>3. CASE k = j
    <3>1. Alone(j)' => Alone(j)
      BY <2>1 DEF Alone, Uses, Writes, Dest, BakOf
    <3> QED BY <1>1, <1>2, <2>1, <2>3, <3>1, OwnSafe DEF Safe
  <2> QED BY <2>2, <2>3
<1>3. ASSUME NEW p \in Foreign, Edit(p) PROVE Safe(j)'
  <2>1. p \in Path /\ UNCHANGED req /\ \E c \in Data \cup {Absent} : Install(p, c)
    BY <1>3, PathAssumption DEF Edit
  <2>2. Alone(j) => p \notin Uses(j)
    BY DEF Alone
  <2>3. UNCHANGED <<original, req, pc, base, content, saved, outcome>>
    BY <1>3 DEF Edit
  <2> QED BY <1>1, <2>1, <2>2, <2>3, PutUnseen, UnseenSafe
<1>4. CASE UNCHANGED vars
  BY <1>1, <1>4, UnseenSafe DEF vars, Unseen, Follow, ReadsAs, BakOf, Dest
<1> QED BY <1>2, <1>3, <1>4 DEF Next

\* Nothing is lost before anything is written.
LEMMA SafeInit == Init => SafeInv
<1> SUFFICES ASSUME Init, NEW j \in Job PROVE Undisturbed(j) /\ Kept(j)
  BY DEF SafeInv, Safe
<1>1. req[j].source \in Path
  BY InitTypes, BakTypes DEF IInv
<1> QED BY <1>1 DEF Init, Undisturbed, Kept, Writing

\* For all instances: what Recovery and TruthfulReports rest on.
THEOREM SafeAlways == Spec => []SafeInv
<1>1. Spec => []ApartInv
  BY ApartInit, ApartStep, TypeCorrect, PTL DEF Spec
<1> QED BY <1>1, SafeInit, SafeStep, TypeCorrect, PTL DEF Spec

\* For all instances: a command that backs up its source without --force, and
\* that nobody interferes with, never loses the first content of the source,
\* wherever it fails or is killed and however often it is run again.
THEOREM Recovery == Spec => []Recoverable
<1>1. SafeInv => Recoverable
  BY DEF SafeInv, Safe, Kept, Recoverable
<1> QED BY <1>1, SafeAlways, PTL

\* For all instances: what such a command reports is so.
THEOREM TruthfulReports == Spec => []ReportHolds
<1>1. SafeInv => ReportHolds
  BY DEF SafeInv, Safe, Undisturbed, Truthful, ReportHolds, ReadsAs, Follow
<1> QED BY <1>1, SafeAlways, PTL

-----------------------------------------------------------------------------
(* The commands implement AtomicUpdate.                                    *)

Told(j) == IF pc[j] = "killed" THEN "lost" ELSE outcome[j]

\* The initial states map to initial states.
LEMMA AbstractInit == Init => Abstract!Init
<1> SUFFICES ASSUME Init PROVE Abstract!Init
  OBVIOUS
<1>1. IInv
  BY InitTypes
<1>2. [p \in Path \ Backups |-> dir[p]] \in [Abstract!Visible -> Data \cup {Absent}]
  BY InitialAssumption DEF Init, Abstract!Visible
<1>3. /\ [j \in Job |-> Dest(j)] \in [Job -> Path \cup {NoPath}]
      /\ [j \in Job |-> req[j].source] \in [Job -> Path]
      /\ [j \in Job |-> Exclusive(j)] \in [Job -> BOOLEAN]
  BY <1>1, BakTypes DEF IInv, TypeOK, RequestType, Dest, Exclusive
<1> QED BY <1>1, <1>2, <1>3 DEF Init, Abstract!Init, IInv, TypeOK

\* A step that leaves what is visible alone.
LEMMA Invisible ==
  ASSUME UNCHANGED <<link, req, base>>,
         \A p \in Path \ Backups : dir'[p] = dir[p],
         \A j \in Job : Told(j)' = Told(j)
  PROVE  UNCHANGED Abstract!vars
BY DEF Abstract!vars, Dest, Exclusive, Told

\* A command that fails and changes no visible file is an abstract refusal.
LEMMA AbstractRefuse ==
  ASSUME IInv, NEW j \in Job, NEW e \in Error, Finish(j, e), outcome[j] = "none",
         pc[j] # "killed", UNCHANGED <<dir, link, req, base>>
  PROVE  Abstract!Refuse(j)
<1>1. Told(j) = "none" /\ Told(j)' = e /\ \A k \in Job \ {j} : Told(k)' = Told(k)
  BY DEF Told, Finish, IInv, TypeOK
<1> QED BY <1>1 DEF Abstract!Refuse, Abstract!asked, Dest, Exclusive, Told

\* A rename over a path puts the new content there.
LEMMA AbstractPut ==
  ASSUME IInv, NEW p \in Path, NEW c, Install(p, c)
  PROVE  Abstract!Put(p, c)
BY DEF Abstract!Put, Abstract!Visible, Install, IInv, TypeOK

\* The last system call maps to the abstract commit.
LEMMA AbstractCommit ==
  ASSUME IInv, NEW j \in Job, Replace(j) \/ LinkDest(j)
  PROVE  Abstract!Commit(j)
<1>. USE DEF IInv
<1>1. /\ Dest(j) \in Path /\ Install(Dest(j), Convert[j][base[j]])
      /\ Convert[j][base[j]] \in Data
      /\ base[j] # NoData /\ Dest(j) # NoPath
      /\ outcome[j] = "none" /\ pc[j] # "killed"
  BY PathAssumption, DataAssumption DEF Replace, LinkDest, Prepared, Writing, Content
<1>2. Told(j) = "none" /\ Told(j)' = "ok" /\ \A k \in Job \ {j} : Told(k)' = Told(k)
  BY <1>1 DEF Told, Replace, LinkDest, Finish, TypeOK
<1>3. Exclusive(j) => dir[Dest(j)] = Absent /\ link[Dest(j)] = NoPath
  BY DEF Replace, LinkDest, Prepared, Present
<1>4. UNCHANGED <<req, base>>
  BY DEF Replace, LinkDest
<1>5. Abstract!Put(Dest(j), Convert[j][base[j]])
  BY <1>1 DEF Abstract!Put, Abstract!Visible, Install, TypeOK
<1> QED
  BY <1>1, <1>2, <1>3, <1>4, <1>5
     DEF Abstract!Commit, Abstract!asked, Abstract!Visible, Dest, Exclusive, Told

\* Reading the source maps to looking at it.
LEMMA AbstractLook ==
  ASSUME IInv, NEW j \in Job, ReadSource(j)
  PROVE  Abstract!Look(j)
<1>. USE DEF IInv
<1>1. /\ base[j] = NoData /\ outcome[j] = "none"
      /\ ReadsAs(req[j].source) \in Content /\ req[j].source \in Path
      /\ base' = [base EXCEPT ![j] = ReadsAs(req[j].source)]
      /\ UNCHANGED <<dir, link, req>>
  BY BakTypes, ReadTypes DEF ReadSource, Prepared
<1>2. /\ Told(j) = "none" /\ \A k \in Job \ {j} : Told(k)' = Told(k)
      /\ \/ Told(j)' = "none"
         \/ Told(j)' = "ok" /\ Dest(j) = NoPath
  BY <1>1 DEF Told, ReadSource, Finish, Goto, TypeOK
<1> DEFINE told == [k \in Job |-> IF pc[k] = "killed" THEN "lost" ELSE outcome[k]]
           src == [k \in Job |-> req[k].source]
           seen(p) == [q \in Path \ Backups |-> dir[q]][p]
<1>3. told[j] = "none" /\ \/ told' = told
                          \/ told' = [told EXCEPT ![j] = "ok"] /\ Dest(j) = NoPath
  BY <1>2 DEF Told
<1>4. src[j] = req[j].source /\ [k \in Job |-> Dest(k)][j] = Dest(j)
  OBVIOUS
<1>5. Follow(req[j].source) \in Abstract!Visible
        => ReadsAs(req[j].source) = seen(Follow(req[j].source))
  BY DEF Abstract!Visible, ReadsAs
<1>6. UNCHANGED <<[q \in Path \ Backups |-> dir[q]], link, Abstract!asked>>
  BY <1>1 DEF Abstract!asked, Dest, Exclusive
<1>7. /\ told' \in {told, [told EXCEPT ![j] = "ok"]}
      /\ told' # told => Dest(j) = NoPath
  BY <1>3
<1> HIDE DEF told, src, seen
<1>8. \E c \in Content :
        /\ Follow(req[j].source) \in Abstract!Visible => c = seen(Follow(req[j].source))
        /\ base' = [base EXCEPT ![j] = c]
  BY <1>1, <1>5
<1> QED
  BY <1>1, <1>3, <1>4, <1>6, <1>7, <1>8 DEF Abstract!Look, Follow, told, src, seen

\* Every step maps to a step or a stutter.
LEMMA AbstractStep == IInv /\ [Next]_vars => [Abstract!Next]_Abstract!vars
<1> SUFFICES ASSUME IInv, [Next]_vars PROVE [Abstract!Next]_Abstract!vars
  OBVIOUS
<1>. USE DEF IInv
<1>1. ASSUME NEW j \in Job, NEW e \in Error, Finish(j, e), pc[j] \in Phase \ {"unlink", "done", "killed"},
             UNCHANGED <<dir, link, req, base>>
      PROVE  Abstract!Next
  BY <1>1, AbstractRefuse DEF Prepared, Abstract!Next
<1>2. ASSUME NEW j \in Job, NEW next \in Phase, Goto(j, next), pc[j] # "killed", next # "killed",
             UNCHANGED <<link, req, base>>, \A p \in Path \ Backups : dir'[p] = dir[p]
      PROVE  UNCHANGED Abstract!vars
  <2>1. \A k \in Job : Told(k)' = Told(k)
    BY <1>2 DEF Told, Goto, TypeOK
  <2> QED BY <1>2, <2>1, Invisible
<1>3. ASSUME NEW j \in Job, Validate(j) \/ CheckBackup(j) \/ MakeTemp(j) \/ WriteTemp(j)
      PROVE  Abstract!Next \/ UNCHANGED Abstract!vars
  <2>1. UNCHANGED <<dir, link, req, base>> /\ pc[j] \in Phase \ {"unlink", "done", "killed"}
    BY <1>3 DEF Validate, CheckBackup, MakeTemp, WriteTemp, Phase
  <2>2. \/ \E e \in Error : Finish(j, e)
        \/ \E next \in Phase \ {"killed"} : Goto(j, next)
    BY <1>3 DEF Validate, CheckBackup, MakeTemp, WriteTemp, Error, Phase
  <2> QED BY <1>1, <1>2, <2>1, <2>2
<1>4. ASSUME NEW j \in Job, ReadFails(j) \/ CopyRefused(j) \/ ReplaceFails(j)
      PROVE  Abstract!Next
  <2>1. UNCHANGED <<dir, link, req, base>> /\ pc[j] \in Phase \ {"unlink", "done", "killed"}
    BY <1>4 DEF ReadFails, CopyRefused, ReplaceFails, Phase
  <2>2. \E e \in Error : Finish(j, e)
    BY <1>4 DEF ReadFails, CopyRefused, ReplaceFails, Error
  <2> QED BY <1>1, <2>1, <2>2
<1>5. ASSUME NEW j \in Job, ReadSource(j) PROVE Abstract!Next
  BY <1>5, AbstractLook DEF Abstract!Next
<1>6. ASSUME NEW j \in Job, BeginCopy(j) \/ FinishCopy(j)
      PROVE  UNCHANGED Abstract!vars
  <2>1. BakOf(j) \in Backups
    BY BakTypes
  <2>2. /\ UNCHANGED <<link, req, base>> /\ pc[j] # "killed"
        /\ \A p \in Path \ Backups : dir'[p] = dir[p]
    BY <1>6, <2>1 DEF BeginCopy, FinishCopy, CopyLands, TypeOK
  <2>3. \E next \in Phase \ {"killed"} : Goto(j, next)
    BY <1>6 DEF BeginCopy, FinishCopy, Phase
  <2> QED BY <1>2, <2>2, <2>3
<1>7. ASSUME NEW j \in Job, CopyFails(j) PROVE Abstract!Next
  <2>1. BakOf(j) \in Backups
    BY BakTypes
  <2>2. /\ UNCHANGED <<link, req, base>> /\ pc[j] = "copying" /\ outcome[j] = "none"
        /\ \A p \in Path \ Backups : dir'[p] = dir[p]
    BY <1>7, <2>1 DEF CopyFails, CopyLands, TypeOK, Prepared
  <2>3. /\ Told(j) = "none" /\ Told(j)' = "FilePermissionDenied"
        /\ \A k \in Job \ {j} : Told(k)' = Told(k)
    BY <1>7, <2>2 DEF CopyFails, Finish, Told, TypeOK
  <2>4. Abstract!Refuse(j)
    BY <2>2, <2>3 DEF Abstract!Refuse, Abstract!asked, Dest, Exclusive, Told, Error
  <2> QED BY <2>4 DEF Abstract!Next
<1>8. ASSUME NEW j \in Job, Replace(j) \/ LinkDest(j) PROVE Abstract!Next
  BY <1>8, AbstractCommit DEF Abstract!Next
<1>9. ASSUME NEW j \in Job, LinkFails(j) PROVE Abstract!Next
  <2>1. /\ UNCHANGED <<dir, link, req, base>>
        /\ Told(j) = "none" /\ \A k \in Job \ {j} : Told(k)' = Told(k)
        /\ \E e \in Error : Told(j)' = e
    BY <1>9 DEF LinkFails, Told, TypeOK, Prepared, Error
  <2>2. Abstract!Refuse(j)
    BY <2>1 DEF Abstract!Refuse, Abstract!asked, Dest, Exclusive, Told
  <2> QED BY <2>2 DEF Abstract!Next
<1>10. ASSUME NEW j \in Job, RemoveTemp(j) PROVE UNCHANGED Abstract!vars
  <2>1. Goto(j, "done") /\ UNCHANGED <<dir, link, req, base>> /\ pc[j] # "killed"
    BY <1>10 DEF RemoveTemp
  <2> QED BY <1>2, <2>1 DEF Phase
<1>11. ASSUME NEW j \in Job, Kill(j) PROVE Abstract!Next
  <2>1. /\ UNCHANGED <<dir, link, req, base>>
        /\ Told(j)' = "lost" /\ \A k \in Job \ {j} : Told(k)' = Told(k)
    BY <1>11 DEF Kill, Told, TypeOK
  <2>2. Abstract!Lose(j)
    BY <2>1 DEF Abstract!Lose, Abstract!asked, Dest, Exclusive, Told
  <2> QED BY <2>2 DEF Abstract!Next
<1>12. ASSUME NEW j \in Job, Restart(j) PROVE Abstract!Next
  <2>1. /\ UNCHANGED <<dir, link, req>> /\ base' = [base EXCEPT ![j] = NoData]
        /\ Told(j)' = "none" /\ \A k \in Job \ {j} : Told(k)' = Told(k)
    BY <1>12 DEF Restart, Told, TypeOK
  <2>2. Abstract!Again(j)
    BY <2>1 DEF Abstract!Again, Abstract!asked, Dest, Exclusive, Told
  <2> QED BY <2>2 DEF Abstract!Next
<1>13. ASSUME NEW p \in Foreign, Edit(p) PROVE Abstract!Next
  <2>1. \E c \in Data \cup {Absent} : Abstract!Put(p, c)
    BY <1>13, AbstractPut, PathAssumption DEF Edit
  <2>2. UNCHANGED <<req, base, pc, outcome>>
    BY <1>13 DEF Edit
  <2>3. Abstract!Edit(p)
    BY <2>1, <2>2 DEF Abstract!Edit, Abstract!asked, Dest, Exclusive
  <2> QED BY <2>3 DEF Abstract!Next
<1>14. CASE UNCHANGED vars
  BY <1>14, Invisible DEF vars, Told
<1> QED
  BY <1>3, <1>4, <1>5, <1>6, <1>7, <1>8, <1>9, <1>10, <1>11, <1>12, <1>13, <1>14
     DEF Next, Step

\* For all instances: every behaviour of the commands, with temporary files,
\* backups and system calls hidden, is one of AtomicUpdate.
THEOREM Refinement == Spec => Implements
<1>1. Spec => Abstract!Init /\ [][Abstract!Next]_Abstract!vars
  BY AbstractInit, AbstractStep, TypeCorrect, PTL DEF Spec
<1> QED BY <1>1 DEF Implements, Abstract!Spec


-----------------------------------------------------------------------------
(* The commands of a session, as an operator gives them.                   *)

\* A command's targets are paths of the directory and jobs of GuardedWrite.
LEMMA CommandFacts ==
  ASSUME NEW s \in Session, NEW i \in 1 .. Len(s.commands)
  PROVE  /\ s.commands[i] \in Command
         /\ s.commands[i].targets \in Seq(Source)
         /\ Len(s.commands[i].targets) \in Nat
         /\ DOMAIN s.commands[i].targets = 1 .. Len(s.commands[i].targets)
         /\ 1 .. Len(s.commands[i].targets) \subseteq Job
<1>1. s.commands \in Seq(Command) /\ i \in DOMAIN s.commands
  BY SessionAssumption, LenProperties
<1>2. s.commands[i] \in Command
  BY <1>1, ElementOfSeq
<1>3. s.commands[i].targets \in Seq(Source)
  BY <1>2 DEF Command
<1>4. DOMAIN s.commands[i].targets \subseteq Job
  BY <1>1, SessionAssumption
<1> QED BY <1>2, <1>3, <1>4, LenProperties

\* A session has one write command at most.
LEMMA OneWriter ==
  ASSUME NEW s \in Session, NEW c \in WriteCommands(s), NEW d \in WriteCommands(s)
  PROVE  c = d
<1>1. s.commands \in Seq(Command)
  BY SessionAssumption
<1> DEFINE K == {k \in DOMAIN s.commands : s.commands[k].name \in Converters}
           S == {s.commands[i] : i \in K}
<1>2. IsFiniteSet(K)
  <2>1. DOMAIN s.commands = 1 .. Len(s.commands) /\ Len(s.commands) \in Nat
    BY <1>1, LenProperties
  <2>2. IsFiniteSet(1 .. Len(s.commands))
    BY <2>1, FS_Interval
  <2> QED BY <2>1, <2>2, FS_Subset
<1>3. IsFiniteSet(S)
  <2> DEFINE f == [i \in K |-> s.commands[i]]
  <2>1. f \in Surjection(K, S)
    BY DEF Surjection
  <2> HIDE DEF K, S, f
  <2> QED BY <1>2, <2>1, FS_Surjection
<1>4. Cardinality(S) <= 1
  BY SessionAssumption
<1>5. S = WriteCommands(s)
  BY DEF WriteCommands
<1>6. \E x : S = {x}
  <2> HIDE DEF S
  <2>1. Cardinality(S) \in Nat /\ S # {}
    BY <1>3, <1>5, FS_CardinalityType
  <2>2. Cardinality(S) = 1
    BY <2>1, <1>3, <1>4, FS_EmptySet
  <2> QED BY <2>2, <1>3, FS_Singleton
<1> QED BY <1>5, <1>6

\* What a job is asked is a request, and for a target of the write command it
\* is what that command says.
LEMMA AskedOf ==
  ASSUME NEW s \in Session, NEW c \in WriteCommands(s), NEW j \in DOMAIN c.targets
  PROVE  Asked(s, j) =
           [source |-> c.targets[j], output |-> c.output, inPlace |-> c.inPlace,
            backup |-> c.backup, force |-> c.force]
<1>1. (CHOOSE d \in WriteCommands(s) : TRUE) = c
  BY OneWriter
<1> QED BY <1>1 DEF Asked

LEMMA AskedTypes ==
  ASSUME NEW s \in Session, NEW j
  PROVE  Asked(s, j) \in RequestType
<1>1. CASE \E c \in WriteCommands(s) : j \in DOMAIN c.targets
  <2>1. PICK c \in WriteCommands(s) : j \in DOMAIN c.targets
    BY <1>1
  <2>2. PICK i \in DOMAIN s.commands : c = s.commands[i]
    BY DEF WriteCommands
  <2>3. i \in 1 .. Len(s.commands)
    BY <2>2, SessionAssumption, LenProperties
  <2>4. c \in Command /\ c.targets \in Seq(Source) /\ j \in 1 .. Len(c.targets)
    BY <2>1, <2>2, <2>3, CommandFacts
  <2>5. c.targets[j] \in Source
    BY <2>4, ElementOfSeq
  <2>6. /\ c.output \in Path \cup {NoPath}
        /\ c.inPlace \in BOOLEAN /\ c.backup \in BOOLEAN /\ c.force \in BOOLEAN
    BY <2>4 DEF Command
  <2> QED BY <2>1, <2>5, <2>6, AskedOf DEF RequestType
<1>2. CASE ~\E c \in WriteCommands(s) : j \in DOMAIN c.targets
  <2>1. (CHOOSE p \in Source : TRUE) \in Source
    BY SourceAssumption
  <2> QED BY <1>2, <2>1 DEF Asked, RequestType
<1> QED BY <1>1, <1>2

-----------------------------------------------------------------------------
(* A session is a behaviour of GuardedWrite: its jobs run one at a time.   *)

\* How far a session has got.  The command at hand takes its targets in turn,
\* and a search goes on only under the command that asks for one.
CommandTyped ==
  /\ session \in Session
  /\ req = [j \in Job |-> Asked(session, j)]
  /\ given \in 0 .. Len(session.commands)
  /\ phase = "running" => given # 0
  /\ outcomes \in Seq(Error \cup {"none", "ok", "invalid"})
  /\ search # "idle" => given # 0 /\ cmd.name = "duplicates"

\* The first state of a session is one of GuardedWrite's.
LEMMA CommandInitTypes == CommandInit => IInv /\ ApartInv /\ SafeInv /\ CommandTyped
<1> SUFFICES ASSUME CommandInit PROVE IInv /\ ApartInv /\ SafeInv /\ CommandTyped
  OBVIOUS
<1>0. /\ session \in Session /\ dir = session.files /\ link = Link
      /\ req = [j \in Job |-> Asked(session, j)]
  BY DEF CommandInit
<1>1. dir \in [Path -> Data \cup {Absent}] /\ link \in [Path -> Path \cup {NoPath}]
  BY <1>0, SessionAssumption, LinkAssumption
<1>2. original \in [Path -> Data \cup {Absent}]
  <2> SUFFICES ASSUME NEW p \in Path PROVE ReadsAs(p) \in Data \cup {Absent}
    BY DEF CommandInit
  <2> QED BY <1>1 DEF ReadsAs, Follow
<1>3. req \in [Job -> RequestType]
  BY <1>0, AskedTypes
<1>4. TypeOK
  BY <1>1, <1>2, <1>3, BoundAssumption DEF CommandInit, TypeOK, Phase, Content
<1>5. \A j \in Job : Prepared(j)
  BY DEF CommandInit, Prepared, Writing, Tidy, Running
<1>6. ApartInv
  BY <1>0, LinkAssumption DEF CommandInit, ApartInv, LinkInv, Apart, Running
<1>7. SafeInv
  <2> SUFFICES ASSUME NEW j \in Job PROVE Undisturbed(j) /\ Kept(j)
    BY DEF SafeInv, Safe
  <2>1. req[j].source \in Path
    BY <1>4, BakTypes
  <2> QED BY <2>1 DEF CommandInit, Undisturbed, Kept, Writing
<1>8. CommandTyped
  <2>1. Len(session.commands) \in Nat
    BY <1>0, SessionAssumption, LenProperties
  <2> QED BY <1>0, <2>1 DEF CommandInit, SearchInit, CommandTyped
<1> QED BY <1>4, <1>5, <1>6, <1>7, <1>8 DEF IInv

\* What the current target is.
LEMMA TurnFacts ==
  ASSUME CommandTyped, NEW names, Working(names)
  PROVE  /\ turn \in Job /\ turn \in 1 .. Len(cmd.targets)
         /\ target \in Source
         /\ cmd \in Command /\ cmd.targets \in Seq(Source)
         /\ given \in 1 .. Len(session.commands)
<1>1. given \in 1 .. Len(session.commands)
  <2>1. Len(session.commands) \in Nat
    BY SessionAssumption, LenProperties DEF CommandTyped
  <2> QED BY <2>1 DEF CommandTyped, Working
<1>2. /\ cmd \in Command /\ cmd.targets \in Seq(Source) /\ Len(cmd.targets) \in Nat
      /\ 1 .. Len(cmd.targets) \subseteq Job
  BY <1>1, CommandFacts DEF CommandTyped, cmd
<1>3. turn \in 1 .. Len(cmd.targets)
  <2>1. Len(outcomes) \in Nat
    BY LenProperties DEF CommandTyped
  <2> QED BY <2>1, <1>2 DEF Working, turn
<1>4. target \in Source
  BY <1>2, <1>3, ElementOfSeq DEF target
<1> QED BY <1>1, <1>2, <1>3, <1>4

\* Every step of a session is a step of one command of GuardedWrite, or none.
LEMMA CommandStep ==
  ASSUME CommandTyped, [CommandNext]_allVars
  PROVE  [Next]_vars
<1>1. CASE UNCHANGED allVars
  BY <1>1 DEF allVars
<1>2. CASE Converting
  <2>1. CASE (eol_cmd \/ convert_cmd \/ pretty_cmd \/ reencode_cmd)
    <3>1. turn \in Job /\ BeginWrite
      BY <2>1, TurnFacts DEF eol_cmd, convert_cmd, pretty_cmd, reencode_cmd
    <3> QED BY <3>1 DEF BeginWrite, Next
  <2>2. CASE Write \/ EndWrite \/ WriteRaises
    <3>1. turn \in Job
      BY <2>2, TurnFacts DEF Write, EndWrite, WriteRaises
    <3> QED BY <2>2, <3>1 DEF Write, EndWrite, WriteRaises, Next
  <2> QED BY <1>2, <2>1, <2>2 DEF Converting
<1>3. CASE Diagnosing \/ Finding \/ Exit \/ Give
  BY <1>3 DEF Diagnosing, Finding, Exit, Give, validate_cmd, stat_cmd, hash_cmd,
       encoding_cmd, identify_cmd, diff_cmd, LookRaises, OpenScan, OpenScanFails,
       ReadChunk, EndScan, ScanRaises, Search, EndSearch, SearchFails, SearchRaises
<1>4. CASE Interrupt
  BY <1>4 DEF Interrupt, Next
<1>5. CASE Others
  BY <1>5, SessionAssumption DEF Others, Next, CommandTyped
<1> QED BY <1>1, <1>2, <1>3, <1>4, <1>5 DEF CommandNext, Progress

\* The invariants of GuardedWrite are kept in a session.
LEMMA JobsStep ==
  ASSUME IInv, ApartInv, SafeInv, CommandTyped, [CommandNext]_allVars
  PROVE  IInv' /\ ApartInv' /\ SafeInv'
<1>1. [Next]_vars
  BY CommandStep
<1> QED BY <1>1, StepTypes, OtherTypes, ApartStep, SafeStep DEF Next

Outcome == Error \cup {"none", "ok", "invalid"}

\* Looking at a path gives an outcome.
LEMMA LookTypes ==
  ASSUME NEW p, NEW o
  PROVE  /\ o \in Look(p) => o \in Outcome
         /\ o \in StatFile(p) => o \in Outcome
         /\ o \in Parse(p, "invalid") => o \in Outcome
         /\ o \in Parse(p, "InvalidContent") => o \in Outcome
BY DEF Look, StatFile, Parse, ReadError, Outcome, Error

\* An outcome is kept.
LEMMA KeepTypes ==
  ASSUME CommandTyped, NEW o \in Outcome, Keep(o), UNCHANGED <<req, search>>
  PROVE  CommandTyped'
<1>1. outcomes' \in Seq(Outcome)
  BY AppendProperties DEF Keep, CommandTyped, Outcome
<1> QED BY <1>1 DEF Keep, CommandTyped, cmd, Outcome

\* The position in the session is kept well-formed.
LEMMA CommandTypes ==
  ASSUME IInv, CommandTyped, [CommandNext]_allVars
  PROVE  CommandTyped'
<1>0. UNCHANGED req
  <2>1. [Next]_vars
    BY CommandStep
  <2> QED BY <2>1 DEF Next, Edit, Kill, Restart, Step, vars, Validate, ReadFails,
       ReadSource, CheckBackup, BeginCopy, CopyRefused, FinishCopy, CopyFails, MakeTemp,
       WriteTemp, Replace, ReplaceFails, LinkDest, LinkFails, RemoveTemp
<1>a. ASSUME UNCHANGED <<session, given, phase, outcomes, search>> PROVE CommandTyped'
  BY <1>0, <1>a DEF CommandTyped, cmd
<1>b. ASSUME NEW code, Break(code), UNCHANGED search PROVE CommandTyped'
  BY <1>0, <1>b DEF CommandTyped, cmd, Break
<1>1. CASE UNCHANGED allVars
  BY <1>1, <1>a DEF allVars, commandVars, searchVars, findVars
<1>2. CASE Give
  <2>1. given' \in 0 .. Len(session.commands) /\ given' # 0
    BY <1>2 DEF Give, CommandTyped
  <2> QED BY <1>0, <1>2, <2>1 DEF Give, CommandTyped, Ready
<1>3. CASE Converting
  <2>1. CASE (eol_cmd \/ convert_cmd \/ pretty_cmd \/ reencode_cmd)
    BY <2>1, <1>a DEF eol_cmd, convert_cmd, pretty_cmd, reencode_cmd, BeginWrite, searchVars, findVars
  <2>2. CASE Write
    BY <2>2, <1>a DEF Write, commandVars, searchVars, findVars
  <2>3. CASE EndWrite
    <3>1. outcome[turn] \in Outcome
      BY <2>3, TurnFacts DEF EndWrite, IInv, TypeOK, Outcome
    <3> QED BY <1>0, <2>3, <3>1, KeepTypes DEF EndWrite, searchVars, findVars
  <2>4. CASE WriteRaises
    BY <2>4, <1>b DEF WriteRaises, searchVars, findVars
  <2> QED BY <1>3, <2>1, <2>2, <2>3, <2>4 DEF Converting
<1>4. CASE Diagnosing
  <2>1. CASE validate_cmd
    <3>1. PICK o : o \in Parse(target, "invalid") /\ Keep(o)
      BY <2>1 DEF validate_cmd
    <3> QED BY <1>0, <2>1, <3>1, LookTypes, KeepTypes DEF validate_cmd, searchVars, findVars
  <2>2. CASE stat_cmd
    <3>1. PICK o : o \in StatFile(target) /\ Keep(o)
      BY <2>2 DEF stat_cmd
    <3> QED BY <1>0, <2>2, <3>1, LookTypes, KeepTypes DEF stat_cmd, searchVars, findVars
  <2>3. CASE hash_cmd \/ encoding_cmd
    <3>1. PICK o : o \in Look(target) /\ Keep(o)
      BY <2>3 DEF hash_cmd, encoding_cmd
    <3> QED BY <1>0, <2>3, <3>1, LookTypes, KeepTypes DEF hash_cmd, encoding_cmd, searchVars, findVars
  <2>4. CASE identify_cmd
    <3>1. PICK o \in Look(target) : Keep(o) \/ UNCHANGED <<session, given, phase, outcomes>>
      BY <2>4 DEF identify_cmd
    <3>2. UNCHANGED search
      BY <2>4 DEF identify_cmd, searchVars, findVars
    <3> QED BY <1>0, <1>a, <3>1, <3>2, LookTypes, KeepTypes
  <2>5. CASE diff_cmd
    <3>1. PICK o \in Parse(target, "InvalidContent") :
            IF o = "ok" THEN Keep(o)
            ELSE /\ outcomes' = [i \in 1 .. Len(cmd.targets) |-> o]
                 /\ UNCHANGED <<session, given, phase>>
      BY <2>5 DEF diff_cmd
    <3>2. UNCHANGED search /\ o \in Outcome
      BY <2>5, LookTypes DEF diff_cmd, searchVars, findVars
    <3>3. CASE o = "ok"
      BY <1>0, <3>1, <3>2, <3>3, KeepTypes
    <3>4. CASE o # "ok"
      <4>1. Len(cmd.targets) \in Nat
        BY <2>5, TurnFacts, LenProperties DEF diff_cmd
      <4>2. outcomes' \in Seq(Outcome)
        BY <3>1, <3>2, <3>4, <4>1
      <4> QED BY <1>0, <3>1, <3>2, <3>4, <4>2 DEF CommandTyped, cmd, Outcome
    <3> QED BY <3>3, <3>4
  <2>6. CASE LookRaises \/ ScanRaises
    BY <2>6, <1>b DEF LookRaises, ScanRaises, searchVars, findVars
  <2>7. CASE OpenScan \/ ReadChunk
    BY <2>7, <1>a DEF OpenScan, ReadChunk, searchVars, findVars
  <2>8. CASE OpenScanFails
    <3>1. PICK o : o \in Look(target) /\ Keep(o)
      BY <2>8 DEF OpenScanFails
    <3> QED BY <1>0, <2>8, <3>1, LookTypes, KeepTypes DEF OpenScanFails, searchVars, findVars
  <2>9. CASE EndScan
    BY <1>0, <2>9, KeepTypes DEF EndScan, searchVars, findVars, Outcome
  <2> QED BY <1>4, <2>1, <2>2, <2>3, <2>4, <2>5, <2>6, <2>7, <2>8, <2>9 DEF Diagnosing
<1>5. CASE Search
  BY <1>0, <1>5 DEF Search, Searching, commandVars, CommandTyped, cmd
<1>6. CASE EndSearch
  BY <1>0, <1>6, KeepTypes DEF EndSearch, searchVars, findVars, Outcome
<1>7. CASE SearchFails
  <2>1. PICK o \in Outcome : Keep(o)
    BY <1>7 DEF SearchFails, Outcome, Error
  <2> QED BY <1>0, <1>7, <2>1, KeepTypes DEF SearchFails, searchVars, findVars
<1>8. CASE SearchRaises
  BY <1>8, <1>b DEF SearchRaises, searchVars, findVars
<1>9. CASE Exit
  BY <1>0, <1>9 DEF Exit, searchVars, findVars, CommandTyped, cmd
<1>10. CASE Interrupt
  BY <1>10, <1>b DEF Interrupt, searchVars, findVars
<1>11. CASE Others
  BY <1>11, <1>a DEF Others, Overtaken, searchVars, findVars, commandVars
<1> QED BY <1>1, <1>2, <1>3, <1>4, <1>5, <1>6, <1>7, <1>8, <1>9, <1>10, <1>11
        DEF CommandNext, Progress, Finding

\* For all instances: in a session of commands, the invariants of GuardedWrite
\* hold of the jobs.
THEOREM SessionTypes == CommandSpec => [](IInv /\ ApartInv /\ SafeInv /\ CommandTyped)
BY CommandInitTypes, JobsStep, CommandTypes, PTL DEF CommandSpec

\* FilesWhole of sessions: the files of a batch are whole at every moment, and it
\* leaves nothing temporary behind, whatever it is broken off by.
THEOREM SessionWhole == CommandSpec => []FilesWhole
<1>1. CommandInit => NeverTorn
  <2>1. CommandInit => dir \in [Path -> Data \cup {Absent}]
    <3>1. \A s \in Session : s.files \in [Path -> Data \cup {Absent}]
      BY SessionAssumption
    <3> QED BY <3>1, Zenon DEF CommandInit
  <2> QED BY <2>1, DataAssumption DEF NeverTorn
<1>2. IInv /\ CommandTyped /\ NeverTorn /\ [CommandNext]_allVars => NeverTorn'
  BY CommandStep, WholeStep
<1> QED BY <1>1, <1>2, SessionTypes, TidyFiles, PTL DEF CommandSpec, FilesWhole

\* OnlyAsTold of sessions: no target of a batch that is not written in place and
\* no existing output changes by a step of its command, although later targets
\* and later commands meet what the earlier ones left.
THEOREM SessionObeys == CommandSpec => OnlyAsTold
<1>1. IInv /\ ApartInv /\ CommandTyped /\ [CommandNext]_allVars
        => [\A j \in Job : pc'[j] # pc[j] /\ ~req[j].inPlace
              => ReadsAs(req[j].source)' = ReadsAs(req[j].source)]_vars
  BY CommandStep, SourceStep
<1>2. IInv /\ CommandTyped /\ [CommandNext]_allVars
        => [\A j \in Job : pc'[j] # pc[j] /\ Exclusive(j) /\ Dest(j) # NoPath
              => (Present(Dest(j)) => UNCHANGED <<dir[Dest(j)], link[Dest(j)]>>)]_vars
  BY CommandStep, OutputStep
<1>3. CommandSpec => SourceUntouched
  BY <1>1, SessionTypes, PTL DEF CommandSpec, SourceUntouched
<1>4. CommandSpec => OutputExclusive
  BY <1>2, SessionTypes, PTL DEF CommandSpec, OutputExclusive
<1> QED BY <1>3, <1>4 DEF OnlyAsTold

\* The first state of a session is one of AtomicUpdate.
LEMMA CommandInitAbstract == CommandInit => Abstract!Init
<1> SUFFICES ASSUME CommandInit PROVE Abstract!Init
  OBVIOUS
<1>1. IInv
  BY CommandInitTypes
<1>2. [p \in Path \ Backups |-> dir[p]] \in [Abstract!Visible -> Data \cup {Absent}]
  BY SessionAssumption DEF CommandInit, Abstract!Visible
<1>3. /\ [j \in Job |-> Dest(j)] \in [Job -> Path \cup {NoPath}]
      /\ [j \in Job |-> req[j].source] \in [Job -> Path]
      /\ [j \in Job |-> Exclusive(j)] \in [Job -> BOOLEAN]
  BY <1>1, BakTypes DEF IInv, TypeOK, RequestType, Dest, Exclusive
<1> QED BY <1>1, <1>2, <1>3 DEF CommandInit, Abstract!Init, IInv, TypeOK

\* A session implements AtomicUpdate: each target of a batch is converted as a
\* whole or not at all, and the batch is nothing but such conversions in turn.
THEOREM SessionImplements == CommandSpec => Implements
<1>1. IInv /\ CommandTyped /\ [CommandNext]_allVars => [Abstract!Next]_Abstract!vars
  BY CommandStep, AbstractStep
<1>2. CommandSpec => Abstract!Init /\ [][Abstract!Next]_Abstract!vars
  BY <1>1, CommandInitAbstract, SessionTypes, PTL DEF CommandSpec
<1> QED BY <1>2 DEF Implements, Abstract!Spec

\* Recoverable, FR-016, for all instances: what it says of commands that run
\* side by side also holds of the targets of one batch and its repetitions.
THEOREM SessionRecovery == CommandSpec => []Recoverable
<1>1. SafeInv => Recoverable
  BY DEF SafeInv, Safe, Kept, Recoverable
<1> QED BY <1>1, SessionTypes, PTL

\* ReportHolds for all instances and sessions.
THEOREM SessionReports == CommandSpec => []ReportHolds
<1>1. IInv /\ SafeInv => ReportHolds
  BY DEF IInv, SafeInv, Safe, Undisturbed, Truthful, ReportHolds, ReadsAs, Follow
<1> QED BY <1>1, SessionTypes, PTL

-----------------------------------------------------------------------------
(* The search for duplicates.                                              *)

\* A name is a symbolic link or a regular file, never both.
OneKind == \A p \in Path : dir[p] # Absent => link[p] = NoPath

\* What the search has found: the sizes and the contents it saw are of something
\* that the file has held since the listing.
Seen ==
  /\ \A p \in Path : dir[p] \in had[p]
  /\ \A p \in listed : link[p] = NoPath
  /\ \A p \in DOMAIN sizes : \E c \in had[p] : sizes[p] = Size[c]
  /\ \A p \in DOMAIN digests : digests[p] \in had[p] \ {Absent}

SearchInv ==
  /\ search \in {"idle", "measure", "over"}
  /\ search = "idle" => DOMAIN sizes = {} /\ DOMAIN digests = {}
  /\ listed \subseteq Path /\ DOMAIN sizes \subseteq listed
  /\ DOMAIN digests \subseteq DOMAIN sizes
  /\ search # "idle" => Seen
  /\ search = "over" =>
       /\ ToMeasure = {} /\ ToDigest = {}
       /\ groups = {g \in {Alike(p) : p \in DOMAIN digests} : MinGroup(g)}

\* A rename leaves either a file or nothing.
LEMMA KindStep == IInv /\ LinkInv /\ OneKind /\ [Next]_vars => OneKind'
<1> SUFFICES ASSUME IInv, LinkInv, OneKind, [Next]_vars PROVE OneKind'
  OBVIOUS
<1>. USE DEF IInv
<1>1. ASSUME NEW p \in Path, NEW c, Install(p, c) PROVE OneKind'
  BY <1>1 DEF Install, OneKind, TypeOK
<1>2. ASSUME NEW p \in Backups, NEW c, dir' = [dir EXCEPT ![p] = c], UNCHANGED link
      PROVE  OneKind'
  <2>1. \A q \in Path : link[q] # NoPath => q \notin Backups
    BY DEF LinkInv
  <2> QED BY <1>2, <2>1 DEF OneKind, TypeOK
<1>3. CASE UNCHANGED <<dir, link>>
  BY <1>3 DEF OneKind
<1>4. ASSUME NEW j \in Job, Step(j) PROVE OneKind'
  <2>1. CASE Replace(j) \/ LinkDest(j)
    <3>1. Dest(j) \in Path /\ Install(Dest(j), temp[j])
      BY <2>1 DEF Prepared, Writing, Replace, LinkDest
    <3> QED BY <1>1, <3>1
  <2>2. CASE BeginCopy(j) \/ FinishCopy(j) \/ CopyFails(j)
    <3>1. BakOf(j) \in Backups
      BY BakTypes
    <3>2. /\ UNCHANGED link
          /\ UNCHANGED dir \/ \E c : dir' = [dir EXCEPT ![BakOf(j)] = c]
      BY <2>2 DEF BeginCopy, FinishCopy, CopyFails, CopyLands
    <3> QED BY <1>2, <1>3, <3>1, <3>2
  <2> QED BY <1>3, <1>4, <2>1, <2>2
        DEF Step, Validate, ReadFails, ReadSource, CheckBackup, CopyRefused, MakeTemp,
            WriteTemp, ReplaceFails, LinkFails, RemoveTemp
<1>5. ASSUME NEW p \in Foreign, Edit(p) PROVE OneKind'
  BY <1>1, <1>5, PathAssumption DEF Edit
<1> QED BY <1>3, <1>4, <1>5 DEF Next, Kill, Restart, vars

LEMMA SearchStarts == CommandInit => OneKind /\ SearchInv
<1> SUFFICES ASSUME CommandInit PROVE OneKind /\ SearchInv
  OBVIOUS
<1>1. OneKind
  <2>1. session \in Session /\ dir = session.files /\ link = Link
    BY DEF CommandInit
  <2> QED BY <2>1, SessionAssumption DEF OneKind
<1>2. SearchInv
  BY DEF CommandInit, SearchInit, SearchInv
<1> QED BY <1>1, <1>2

\* Nothing is written while a search is on, but by other programs.
LEMMA SearchAlone ==
  ASSUME IInv, CommandTyped, [CommandNext]_allVars
  PROVE  \/ Search /\ UNCHANGED <<dir, link>>
         \/ Give
         \/ UNCHANGED searchVars /\ (search = "idle" \/ UNCHANGED <<dir, link>>)
         \/ Overtaken /\ \E p \in Path, c \in Data \cup {Absent} : Install(p, c)
<1>1. CASE UNCHANGED allVars
  BY <1>1 DEF allVars, vars
<1>2. CASE Converting
  <2>1. CASE (eol_cmd \/ convert_cmd \/ pretty_cmd \/ reencode_cmd)
    BY <2>1 DEF eol_cmd, convert_cmd, pretty_cmd, reencode_cmd, BeginWrite, Restart, vars
  <2>2. CASE Write
    <3>1. search = "idle"
      BY <2>2 DEF Write, Working, Converters, CommandTyped
    <3> QED BY <2>2, <3>1 DEF Write
  <2>3. CASE EndWrite \/ WriteRaises
    BY <2>3 DEF EndWrite, WriteRaises, Kill, vars
  <2> QED BY <1>2, <2>1, <2>2, <2>3 DEF Converting
<1>3. CASE Diagnosing \/ EndSearch \/ SearchFails \/ SearchRaises \/ Exit
  BY <1>3 DEF vars, Diagnosing, Exit, validate_cmd, stat_cmd, hash_cmd,
     encoding_cmd, identify_cmd, diff_cmd, LookRaises, OpenScan, OpenScanFails,
     ReadChunk, EndScan, ScanRaises, EndSearch, SearchFails, SearchRaises
<1>4. CASE Search
  BY <1>4 DEF Search, vars
<1>5. CASE Interrupt
  BY <1>5 DEF Interrupt, Kill, vars
<1>6. CASE Others
  <2>1. \E p \in Path, c \in Data \cup {Absent} : Install(p, c)
    BY <1>6, PathAssumption, SessionAssumption DEF Others, Edit, CommandTyped
  <2> QED BY <1>6, <2>1 DEF Others
<1> QED BY <1>1, <1>2, <1>3, <1>4, <1>5, <1>6 DEF CommandNext, Progress, Finding

LEMMA SearchKept ==
  ASSUME IInv, CommandTyped, OneKind, SearchInv, [CommandNext]_allVars
  PROVE  SearchInv'
<1>0. dir \in [Path -> Content \cup {Absent}] /\ link \in [Path -> Path \cup {NoPath}]
  BY DEF IInv, TypeOK
<1>1. CASE Give
  <2>1. /\ search' = "idle" /\ listed' = {} /\ sizes' = <<>> /\ digests' = <<>>
    BY <1>1 DEF Give, Ready
  <2> QED BY <2>1 DEF SearchInv
\* The search stands still; another program may have written.
<1>2. CASE UNCHANGED findVars /\ (search # "idle" => Seen')
  <2>1. UNCHANGED <<search, listed, sizes, digests, skipped, groups>>
    BY <1>2 DEF findVars
  <2>2. /\ ToMeasure' = ToMeasure /\ ToDigest' = ToDigest
        /\ \A p : Alike(p)' = Alike(p)
    BY <2>1 DEF ToMeasure, ToDigest, Alike, SameSize
  <2> QED BY <1>2, <2>1, <2>2 DEF SearchInv
<1>3. CASE UNCHANGED searchVars /\ (search = "idle" \/ UNCHANGED <<dir, link>>)
  <2>1. UNCHANGED findVars /\ had' = had /\ UNCHANGED <<listed, sizes, digests>>
    BY <1>3 DEF searchVars, findVars
  <2>2. search # "idle" => Seen'
    BY <1>3, <2>1 DEF SearchInv, Seen
  <2> QED BY <1>2, <2>1, <2>2
<1>4. ASSUME Overtaken, NEW p \in Path, NEW c, Install(p, c)
      PROVE  SearchInv'
  <2>1. UNCHANGED findVars /\ UNCHANGED <<listed, sizes, digests>>
    BY <1>4 DEF Overtaken, findVars
  <2>2. ASSUME search # "idle"
        PROVE  Seen'
    <3>1. had' = [q \in Path |-> had[q] \cup {dir'[q]}]
      BY <1>4, <2>2 DEF Overtaken
    <3>2. \A q \in Path : had[q] \subseteq had'[q] /\ dir'[q] \in had'[q]
      BY <3>1
    <3>3. \A q \in Path : link[q] = NoPath => link'[q] = NoPath
      BY <1>0, <1>4 DEF Install
    <3> QED BY <2>1, <2>2, <3>2, <3>3 DEF SearchInv, Seen
  <2> QED BY <1>2, <2>1, <2>2
<1>5. CASE Search /\ UNCHANGED <<dir, link>>
  <2>0. SearchStep
    BY <1>5 DEF Search
  <2>1. CASE List
    <3>1. /\ search' = "measure" /\ had' = [p \in Path |-> {dir[p]}] /\ UNCHANGED <<sizes, digests>>
          /\ listed' \subseteq Path /\ \A p \in listed' : dir[p] # Absent
          /\ DOMAIN sizes = {} /\ DOMAIN digests = {}
      BY <2>1 DEF List, SearchInv
    <3>2. Seen'
      BY <1>5, <3>1 DEF Seen, OneKind
    <3> QED BY <3>1, <3>2 DEF SearchInv
  <2>2. ASSUME NEW p \in listed, Measure(p) PROVE SearchInv'
    <3>0. search = "measure" /\ had' = had
      BY <2>2 DEF Measure, Skip
    <3>1. CASE Skip(p)
      BY <1>5, <3>0, <3>1 DEF Skip, SearchInv, Seen
    <3>2. CASE ~Skip(p)
      <4>1. /\ sizes' = With(sizes, p, Size[dir[p]])
            /\ UNCHANGED <<search, listed, digests>>
        BY <2>2, <3>2 DEF Measure
      <4>2. /\ DOMAIN sizes' = DOMAIN sizes \cup {p}
            /\ \A q \in DOMAIN sizes' : sizes'[q] = IF q = p THEN Size[dir[p]] ELSE sizes[q]
        BY <4>1 DEF With
      <4>3. Seen'
        BY <1>5, <3>0, <4>1, <4>2 DEF SearchInv, Seen
      <4> QED BY <3>0, <4>1, <4>2, <4>3 DEF SearchInv
    <3> QED BY <3>1, <3>2
  <2>3. ASSUME NEW p \in listed, Digest(p) PROVE SearchInv'
    <3>0. search = "measure" /\ had' = had
      BY <2>3 DEF Digest, Skip
    <3>1. CASE Skip(p)
      BY <1>5, <3>0, <3>1 DEF Skip, SearchInv, Seen
    <3>2. CASE ~Skip(p)
      <4>1. /\ p \in DOMAIN sizes /\ ReadsAs(p) # Absent
            /\ digests' = With(digests, p, ReadsAs(p))
            /\ UNCHANGED <<search, listed, sizes>>
        BY <2>3, <3>2 DEF Digest, ToDigest
      <4>2. /\ DOMAIN digests' = DOMAIN digests \cup {p}
            /\ \A q \in DOMAIN digests' :
                 digests'[q] = IF q = p THEN ReadsAs(p) ELSE digests[q]
        BY <4>1 DEF With
      <4>3. ReadsAs(p) = dir[p]
        BY <3>0 DEF SearchInv, Seen, ReadsAs, Follow
      <4>4. Seen'
        BY <1>5, <3>0, <4>1, <4>2, <4>3 DEF SearchInv, Seen
      <4> QED BY <3>0, <4>1, <4>2, <4>4 DEF SearchInv
    <3> QED BY <3>1, <3>2
  <2>4. CASE Group
    <3>1. /\ search = "measure" /\ search' = "over"
          /\ ToMeasure = {} /\ ToDigest = {}
          /\ groups' = {g \in {Alike(p) : p \in DOMAIN digests} : MinGroup(g)}
          /\ UNCHANGED <<listed, sizes, digests, skipped, had>>
      BY <2>4 DEF Group
    <3>2. /\ ToMeasure' = ToMeasure /\ ToDigest' = ToDigest
          /\ \A p : Alike(p)' = Alike(p)
      BY <3>1 DEF ToMeasure, ToDigest, Alike, SameSize
    <3>3. Seen'
      BY <1>5, <3>1 DEF SearchInv, Seen
    <3> QED BY <3>1, <3>2, <3>3 DEF SearchInv
  <2> QED BY <2>0, <2>1, <2>2, <2>3, <2>4 DEF SearchStep
<1> QED BY <1>1, <1>3, <1>4, <1>5, SearchAlone

\* Two files make a group.
LEMMA PairSize ==
  ASSUME NEW p, NEW q, p # q
  PROVE  Cardinality({p, q}) = 2
<1>1. IsFiniteSet({p}) /\ Cardinality({p}) = 1
  BY FS_Singleton
<1>2. Cardinality({p} \cup {q}) = IF q \in {p} THEN Cardinality({p}) ELSE Cardinality({p}) + 1
  BY <1>1, FS_AddElement, Zenon
<1>3. {p} \cup {q} = {p, q} /\ q \notin {p}
  OBVIOUS
<1> QED BY <1>1, <1>2, <1>3

\* What the groups of a finished search are.
LEMMA GroupsTrue == SearchInv => DuplicatesTrue
<1> SUFFICES ASSUME SearchInv, search = "over" PROVE
      /\ \A g \in groups : Cardinality(g) > 1
      /\ \A g, h \in groups : g # h => g \cap h = {}
      /\ \A p, q \in UNION groups : InOneGroup(p, q) => (had[p] \cap had[q]) \ {Absent} # {}
      /\ \A p, q \in listed \ skipped :
           p # q /\ Still(p) /\ Still(q) /\ dir[p] = dir[q] => InOneGroup(p, q)
  BY DEF DuplicatesTrue
<1>0. Seen
  BY DEF SearchInv
<1>1. groups = {g \in {Alike(p) : p \in DOMAIN digests} : MinGroup(g)}
  BY DEF SearchInv
<1>2. ASSUME NEW g \in groups PROVE Cardinality(g) > 1
  <2>1. g \subseteq Path /\ MinGroup(g)
    BY <1>1 DEF Alike, SameSize, SearchInv
  <2>2. Cardinality(g) \in Nat
    BY <2>1, DirectoryAssumption, FS_Subset, FS_CardinalityType
  <2> QED BY <2>1, <2>2 DEF MinGroup
<1>3. ASSUME NEW g \in groups, NEW h \in groups, g # h PROVE g \cap h = {}
  <2>1. PICK p \in DOMAIN digests : g = Alike(p)
    BY <1>1
  <2>2. PICK q \in DOMAIN digests : h = Alike(q)
    BY <1>1
  <2> SUFFICES ASSUME NEW r \in g, r \in h PROVE FALSE
    OBVIOUS
  <2>3. /\ sizes[r] = sizes[p] /\ digests[r] = digests[p]
        /\ sizes[r] = sizes[q] /\ digests[r] = digests[q]
    BY <2>1, <2>2 DEF Alike, SameSize
  <2>4. Alike(p) = Alike(q)
    BY <2>3 DEF Alike, SameSize
  <2> QED BY <1>3, <2>1, <2>2, <2>4
<1>4. ASSUME NEW p, NEW q, InOneGroup(p, q)
      PROVE  (had[p] \cap had[q]) \ {Absent} # {}
  <2>1. PICK r \in DOMAIN digests : {p, q} \subseteq Alike(r)
    BY <1>1, <1>4 DEF InOneGroup
  <2>2. p \in DOMAIN digests /\ q \in DOMAIN digests /\ digests[p] = digests[q]
    BY <2>1 DEF Alike
  <2>3. digests[p] \in had[p] \ {Absent} /\ digests[p] \in had[q]
    BY <1>0, <2>2 DEF Seen
  <2> QED BY <2>3
<1>5. ASSUME NEW p \in listed \ skipped, NEW q \in listed \ skipped, p # q,
             Still(p), Still(q), dir[p] = dir[q]
      PROVE  InOneGroup(p, q)
  <2>1. p \in DOMAIN sizes /\ q \in DOMAIN sizes /\ sizes[p] = sizes[q]
    BY <1>0, <1>5 DEF SearchInv, ToMeasure, Seen, Still
  <2>2. ASSUME NEW S, S \subseteq Path, p \in S, q \in S PROVE MinGroup(S)
    <3>1. IsFiniteSet(S) /\ Cardinality(S) \in Nat
      BY <2>2, DirectoryAssumption, FS_Subset, FS_CardinalityType
    <3>2. Cardinality({p, q}) = 2
      BY <1>5, PairSize
    <3>3. {p, q} \in SUBSET S
      BY <2>2
    <3>4. Cardinality({p, q}) <= Cardinality(S)
      BY <3>1, <3>3, FS_Subset
    <3> QED BY <3>1, <3>2, <3>4 DEF MinGroup
  <2>3. SameSize(p) \subseteq Path /\ {p, q} \subseteq SameSize(p)
    BY <2>1 DEF SameSize, SearchInv
  <2>4. SameSize(q) = SameSize(p)
    BY <2>1 DEF SameSize
  <2>5. MinGroup(SameSize(p)) /\ MinGroup(SameSize(q))
    BY <2>2, <2>3, <2>4
  <2>6. p \in DOMAIN digests /\ q \in DOMAIN digests
    BY <1>5, <2>1, <2>5 DEF SearchInv, ToDigest
  <2>7. digests[p] = digests[q]
    BY <1>0, <1>5, <2>6 DEF Seen, Still
  <2>8. {p, q} \subseteq Alike(p) /\ Alike(p) \subseteq Path
    BY <2>3, <2>6, <2>7 DEF Alike
  <2>9. Alike(p) \in groups
    BY <1>1, <2>2, <2>6, <2>8
  <2> QED BY <2>8, <2>9 DEF InOneGroup
<1> QED BY <1>2, <1>3, <1>4, <1>5

\* DuplicatesTrue, research R6, for all instances: any number of files, sizes,
\* contents, failures and foreign edits.
THEOREM Grouping == CommandSpec => []DuplicatesTrue
<1>1. OneKind /\ IInv /\ ApartInv /\ CommandTyped /\ [CommandNext]_allVars => OneKind'
  BY KindStep, CommandStep DEF ApartInv
<1>2. CommandSpec => []OneKind
  BY <1>1, SearchStarts, SessionTypes, PTL DEF CommandSpec
<1>3. IInv /\ CommandTyped /\ OneKind /\ SearchInv /\ [CommandNext]_allVars => SearchInv'
  BY SearchKept
<1>4. CommandSpec => []SearchInv
  BY <1>2, <1>3, SearchStarts, SessionTypes, PTL DEF CommandSpec
<1> QED BY <1>4, GroupsTrue, PTL

-----------------------------------------------------------------------------
(* Sequences of sequences.                                                 *)

\* Induction over sequences, of a property given as a set.
LEMMA SeqInduct ==
  ASSUME NEW S, NEW T, <<>> \in T,
         \A s \in Seq(S), e \in S : s \in T => Append(s, e) \in T
  PROVE  Seq(S) \subseteq T
<1> DEFINE N == {n \in Nat : \A s \in Seq(S) : Len(s) = n => s \in T}
<1>1. 0 \in N
  BY EmptySeq
<1>2. ASSUME NEW n \in Nat, n \in N PROVE n + 1 \in N
  <2> SUFFICES ASSUME NEW s \in Seq(S), Len(s) = n + 1 PROVE s \in T
    OBVIOUS
  <2>1. s # <<>>
    BY EmptySeq
  <2>2. PICK t \in Seq(S), e \in S : s = Append(t, e)
    BY <2>1, SequenceEmptyOrAppend
  <2>3. Len(t) = n
    BY <2>2, AppendProperties, LenProperties
  <2>4. t \in T
    BY <1>2, <2>3
  <2> QED BY <2>2, <2>4
<1>3. Nat \subseteq N
  <2> HIDE DEF N
  <2> QED BY <1>1, <1>2, NatInduct
<1> QED BY <1>3, LenProperties

\* The recursive function inside FlattenSeq.
Flat(f, ss) ==
  f = [i \in 1 .. Len(ss) |-> IF i = 1 THEN ss[i] ELSE f[i-1] \o ss[i]]

LEMMA FlatAt ==
  ASSUME NEW f, NEW ss, Flat(f, ss), NEW i \in 1 .. Len(ss)
  PROVE  f[i] = IF i = 1 THEN ss[i] ELSE f[i-1] \o ss[i]
BY Zenon DEF Flat

Agree(s, t, m) == \A i \in 1 .. m : s[i] = t[i]

LEMMA FlatSame ==
  ASSUME NEW f, NEW g, NEW ss, NEW tt, NEW m \in Nat, Flat(f, ss), Flat(g, tt),
         Len(ss) \in Nat, Len(tt) \in Nat, m <= Len(ss), m <= Len(tt),
         Agree(ss, tt, m)
  PROVE  Agree(f, g, m)
<1> USE DEF Agree
<1> DEFINE N == {n \in Nat : n \in 1 .. m => f[n] = g[n]}
<1>1. 0 \in N
  OBVIOUS
<1>2. ASSUME NEW n \in Nat, n \in N PROVE n + 1 \in N
  <2> SUFFICES ASSUME n + 1 \in 1 .. m PROVE f[n+1] = g[n+1]
    OBVIOUS
  <2>1. f[n+1] = IF n + 1 = 1 THEN ss[n+1] ELSE f[n] \o ss[n+1]
    BY FlatAt
  <2>2. g[n+1] = IF n + 1 = 1 THEN tt[n+1] ELSE g[n] \o tt[n+1]
    BY FlatAt
  <2> QED BY <1>2, <2>1, <2>2
<1>3. Nat \subseteq N
  <2> HIDE DEF N
  <2> QED BY <1>1, <1>2, NatInduct
<1> QED BY <1>3

LEMMA FlatExists ==
  ASSUME NEW S, NEW ss \in Seq(S)
  PROVE  \E f : Flat(f, ss)
<1> DEFINE T == {s \in Seq(S) : \E f : Flat(f, s)}
<1>1. <<>> \in T
  <2>1. Flat(<<>>, <<>>)
    BY DEF Flat
  <2> QED BY <2>1, EmptySeq
<1>2. ASSUME NEW s \in Seq(S), NEW e \in S, s \in T PROVE Append(s, e) \in T
  <2>1. PICK f : Flat(f, s)
    BY <1>2
  <2> DEFINE n == Len(s)
             t == Append(s, e)
             g == [i \in 1 .. n + 1 |-> IF i <= n THEN f[i] ELSE IF n = 0 THEN e ELSE f[n] \o e]
  <2>2. /\ n \in Nat /\ Len(t) = n + 1 /\ t \in Seq(S)
        /\ \A i \in 1 .. n : t[i] = s[i]
        /\ t[n+1] = e
    BY AppendProperties, LenProperties
  <2>3. Flat(g, t)
    <3> HIDE DEF t, n
    <3>1. ASSUME NEW i \in 1 .. n + 1
          PROVE  g[i] = IF i = 1 THEN t[i] ELSE g[i-1] \o t[i]
      <4>1. CASE i <= n
        <5>1. f[i] = IF i = 1 THEN s[i] ELSE f[i-1] \o s[i]
          BY <2>1, <2>2, <4>1, FlatAt DEF n
        <5> QED BY <2>2, <4>1, <5>1
      <4>2. CASE i = n + 1
        BY <2>2, <4>2
      <4> QED BY <2>2, <4>1, <4>2
    <3> QED BY <2>2, <3>1 DEF Flat
  <2> QED BY <2>2, <2>3
<1>3. Seq(S) \subseteq T
  <2> HIDE DEF T
  <2> QED BY <1>1, <1>2, SeqInduct
<1> QED BY <1>3

LEMMA FlattenValue ==
  ASSUME NEW S, NEW ss \in Seq(S), ss # <<>>
  PROVE  \E f : Flat(f, ss) /\ FlattenSeq(ss) = f[Len(ss)]
<1>1. Len(ss) # 0
  BY EmptySeq
<1>2. \E f : Flat(f, ss)
  BY FlatExists
<1> DEFINE c == CHOOSE f : Flat(f, ss)
<1>3. Flat(c, ss)
  BY <1>2
<1>4. FlattenSeq(ss) = c[Len(ss)]
  BY <1>1 DEF FlattenSeq, Flat
<1> QED BY <1>3, <1>4

LEMMA FlattenEmpty == FlattenSeq(<<>>) = <<>>
BY DEF FlattenSeq

\* What FlattenSeq does with one part more.
LEMMA FlattenAppend ==
  ASSUME NEW S, NEW ss \in Seq(Seq(S)), NEW t \in Seq(S)
  PROVE  FlattenSeq(Append(ss, t)) = FlattenSeq(ss) \o t
<1> DEFINE Q == Seq(S)
           r == Append(ss, t)
           n == Len(ss)
<1>0. /\ n \in Nat /\ Len(r) = n + 1 /\ r \in Seq(Q) /\ r # <<>>
      /\ \A i \in 1 .. n : r[i] = ss[i]
      /\ r[n+1] = t
  <2>1. ss \in Seq(Q) /\ t \in Q
    OBVIOUS
  <2> HIDE DEF Q
  <2> QED BY <2>1, AppendProperties, LenProperties
<1>1. PICK g : Flat(g, r) /\ FlattenSeq(r) = g[n+1]
  <2> HIDE DEF Q, r, n
  <2> QED BY <1>0, FlattenValue
<1>2. g[n+1] = IF n + 1 = 1 THEN t ELSE g[n] \o t
  <2> HIDE DEF r, n
  <2> QED BY <1>0, <1>1, FlatAt
<1>3. CASE ss = <<>>
  <2>1. n = 0
    BY <1>3
  <2> QED BY <1>1, <1>2, <1>3, <2>1, FlattenEmpty, ConcatEmptySeq
<1>4. CASE ss # <<>>
  <2>1. n # 0
    <3>1. ss \in Seq(Q)
      OBVIOUS
    <3> HIDE DEF Q
    <3> QED BY <1>4, <3>1, EmptySeq
  <2>2. PICK f : Flat(f, ss) /\ FlattenSeq(ss) = f[n]
    <3>1. ss \in Seq(Q)
      OBVIOUS
    <3> HIDE DEF Q
    <3> QED BY <1>4, <3>1, FlattenValue
  <2>3. Agree(f, g, n)
    <3>1. n <= Len(ss) /\ n <= Len(r) /\ Len(r) \in Nat /\ Len(ss) \in Nat
      BY <1>0
    <3>2. Agree(ss, r, n)
      BY <1>0 DEF Agree
    <3> HIDE DEF r, n
    <3>3. n \in Nat /\ Flat(f, ss) /\ Flat(g, r)
      BY <1>0, <1>1, <2>2
    <3> QED BY <3>1, <3>2, <3>3, FlatSame
  <2>4. g[n+1] = g[n] \o t /\ f[n] = g[n]
    <3> HIDE DEF n
    <3> QED BY <1>0, <1>2, <2>1, <2>3, SMTT(20) DEF Agree
  <2>5. FlattenSeq(r) = FlattenSeq(ss) \o t
    BY Zenon, <1>1, <2>2, <2>4
  <2> QED BY <2>5
<1> QED BY <1>3, <1>4

\* The parts of a sequence in S are in S.
LEMMA FlattenTypes ==
  ASSUME NEW S, NEW ss \in Seq(Seq(S))
  PROVE  FlattenSeq(ss) \in Seq(S)
<1> DEFINE Q == Seq(S)
           T == {r \in Seq(Q) : FlattenSeq(r) \in Q}
<1>1. <<>> \in T
  <2>1. <<>> \in Seq(Q) /\ <<>> \in Q
    OBVIOUS
  <2> QED BY <2>1, FlattenEmpty
<1>2. ASSUME NEW r \in Seq(Q), NEW t \in Q, r \in T PROVE Append(r, t) \in T
  <2>1. FlattenSeq(Append(r, t)) = FlattenSeq(r) \o t
    BY FlattenAppend
  <2>2. FlattenSeq(r) \o t \in Q
    BY <1>2, ConcatProperties
  <2>3. Append(r, t) \in Seq(Q)
    <3> HIDE DEF Q
    <3> QED BY AppendProperties
  <2> QED BY <2>1, <2>2, <2>3
<1>3. Seq(Q) \subseteq T
  <2> HIDE DEF T, Q
  <2> QED BY <1>1, <1>2, SeqInduct
<1> QED BY <1>3

-----------------------------------------------------------------------------
(* Line endings, one byte more at a time.                                  *)

\* Byte b ends a pair that the last byte of s began.
Joins(s, b) == s # <<>> /\ s[Len(s)] = "cr" /\ b = "lf"

\* What a content consists of once its line ends are all alike.
Text == {"lf", "x"}

Uni(b) == IF b = "cr" THEN "lf" ELSE b

Part(s, i) == IF Pair(s, i) THEN <<>> ELSE IF s[i] = "cr" THEN <<"lf">> ELSE <<s[i]>>

Parts(s) == [i \in DOMAIN s |-> Part(s, i)]

LEMMA PartsTypes ==
  ASSUME NEW s \in Seq(Byte)
  PROVE  Parts(s) \in Seq(Seq(Text)) /\ Len(Parts(s)) = Len(s) /\ Unified(s) = FlattenSeq(Parts(s))
<1>1. DOMAIN s = 1 .. Len(s) /\ Len(s) \in Nat
  BY LenProperties
<1>2. ASSUME NEW i \in 1 .. Len(s) PROVE Part(s, i) \in Seq(Text)
  <2>1. s[i] \in Byte
    BY ElementOfSeq
  <2>2. <<>> \in Seq(Text) /\ <<"lf">> \in Seq(Text) /\ <<"x">> \in Seq(Text)
    BY DEF Text
  <2> QED BY <2>1, <2>2 DEF Part, Byte
<1>3. Parts(s) \in Seq(Seq(Text))
  <2> DEFINE Q == Seq(Text)
  <2>1. Parts(s) \in [1 .. Len(s) -> Q]
    BY <1>1, <1>2 DEF Parts
  <2> HIDE DEF Q
  <2>2. Parts(s) \in Seq(Q)
    BY <1>1, <2>1
  <2> QED BY <2>2 DEF Q
<1>4. Len(Parts(s)) = Len(s)
  BY <1>1 DEF Parts
<1>5. Unified(s) = FlattenSeq(Parts(s))
  BY DEF Unified, Parts, Part
<1> QED BY <1>3, <1>4, <1>5

\* One byte more, which ends no pair, is one part more.
LEMMA PartsAppend ==
  ASSUME NEW s \in Seq(Byte), NEW b \in Byte, ~Joins(s, b)
  PROVE  Parts(Append(s, b)) = Append(Parts(s), <<Uni(b)>>)
<1> DEFINE t == Append(s, b)
           n == Len(s)
<1>0. /\ DOMAIN s = 1 .. n /\ n \in Nat /\ t \in Seq(Byte) /\ Len(t) = n + 1
      /\ DOMAIN t = 1 .. n + 1
      /\ \A i \in 1 .. n : t[i] = s[i]
      /\ t[n + 1] = b
  BY AppendProperties, LenProperties
<1> HIDE DEF t
<1>1. ASSUME NEW i \in 1 .. n PROVE Part(t, i) = Part(s, i)
  <2>1. Pair(t, i) = Pair(s, i)
    <3>1. CASE i = n
      <4>1. ~Pair(s, i)
        BY <3>1 DEF Pair
      <4>2. ~Pair(t, i)
        BY <1>0, <3>1 DEF Pair, Joins
      <4> QED BY <4>1, <4>2 DEF Pair
    <3>2. CASE i # n
      <4>1. n \in Nat /\ i \in 1 .. n
        BY <1>0
      <4>2. i + 1 \in 1 .. n /\ i < n /\ i < n + 1
        BY <3>2, <4>1
      <4>3. t[i] = s[i] /\ t[i + 1] = s[i + 1] /\ Len(t) = n + 1
        BY <1>0, <4>2
      <4> QED BY <4>2, <4>3 DEF Pair
    <3> QED BY <3>1, <3>2
  <2> QED BY <1>0, <2>1 DEF Part
<1>2. Part(t, n + 1) = <<Uni(b)>>
  <2>1. ~Pair(t, n + 1)
    BY <1>0 DEF Pair
  <2> QED BY <1>0, <2>1 DEF Part, Uni
<1>3. Parts(s) \in Seq(Seq(Text)) /\ Parts(t) \in Seq(Seq(Text)) /\ Len(Parts(s)) = n /\ Len(Parts(t)) = n + 1
  BY <1>0, PartsTypes
<1>4. <<Uni(b)>> \in Seq(Text)
  BY DEF Uni, Text, Byte
<1>5. \A i \in 1 .. n : Parts(t)[i] = Parts(s)[i]
  BY <1>0, <1>1 DEF Parts
<1>6. Parts(t)[n + 1] = <<Uni(b)>>
  BY <1>0, <1>2 DEF Parts
<1>7. Parts(t) = Append(Parts(s), <<Uni(b)>>)
  <2> DEFINE Q == Seq(Text)
             p == Parts(s)
             q == Parts(t)
             e == <<Uni(b)>>
  <2>1. p \in Seq(Q) /\ q \in Seq(Q) /\ e \in Q /\ Len(p) = n /\ Len(q) = n + 1
    BY <1>3, <1>4
  <2>2. \A i \in 1 .. n : q[i] = p[i]
    BY <1>5
  <2>3. q[n + 1] = e
    BY <1>6
  <2> HIDE DEF Q, p, q, e
  <2>4. /\ Append(p, e) \in Seq(Q) /\ Len(Append(p, e)) = n + 1
        /\ \A i \in 1 .. n : Append(p, e)[i] = p[i]
        /\ Append(p, e)[n + 1] = e
    BY <2>1, AppendProperties
  <2>5. \A i \in 1 .. Len(q) : q[i] = Append(p, e)[i]
    BY <1>0, <2>1, <2>2, <2>3, <2>4
  <2>6. q = Append(p, e)
    BY <2>1, <2>4, <2>5, SeqEqual
  <2> QED BY <2>6 DEF p, q, e
<1> QED BY <1>7 DEF t

\* A pair is one line end, which its first byte began.
LEMMA PartsPair ==
  ASSUME NEW r \in Seq(Byte)
  PROVE  Parts(Append(Append(r, "cr"), "lf")) = Append(Append(Parts(r), <<>>), <<"lf">>)
<1> DEFINE s == Append(r, "cr")
           t == Append(s, "lf")
           n == Len(r)
<1>0. /\ DOMAIN r = 1 .. n /\ n \in Nat /\ s \in Seq(Byte) /\ t \in Seq(Byte)
      /\ Len(s) = n + 1 /\ Len(t) = n + 2 /\ DOMAIN t = 1 .. n + 2
      /\ \A i \in 1 .. n : t[i] = r[i]
      /\ t[n + 1] = "cr" /\ t[n + 2] = "lf"
  <2>1. "cr" \in Byte /\ "lf" \in Byte
    BY DEF Byte
  <2>2. /\ s \in Seq(Byte) /\ Len(s) = n + 1 /\ n \in Nat /\ DOMAIN r = 1 .. n
        /\ \A i \in 1 .. n : s[i] = r[i]
        /\ s[n + 1] = "cr"
    BY <2>1, AppendProperties, LenProperties
  <2> HIDE DEF s
  <2>3. /\ t \in Seq(Byte) /\ Len(t) = n + 2 /\ DOMAIN t = 1 .. n + 2
        /\ \A i \in 1 .. n + 1 : t[i] = s[i]
        /\ t[n + 2] = "lf"
    BY <2>1, <2>2, AppendProperties, LenProperties
  <2> HIDE DEF t
  <2> QED BY <2>2, <2>3
<1> HIDE DEF s, t
<1>1. ASSUME NEW i \in 1 .. n PROVE Part(t, i) = Part(r, i)
  <2>1. Pair(t, i) = Pair(r, i)
    BY <1>0 DEF Pair
  <2> QED BY <1>0, <2>1 DEF Part
<1>2. Part(t, n + 1) = <<>> /\ Part(t, n + 2) = <<"lf">>
  BY <1>0 DEF Part, Pair
<1> DEFINE Q == Seq(Text)
           p == Parts(r)
           q == Parts(t)
           m == <<"lf">>
<1>3. p \in Seq(Q) /\ q \in Seq(Q) /\ Len(p) = n /\ Len(q) = n + 2
  BY <1>0, PartsTypes
<1>4. <<>> \in Q /\ m \in Q
  BY DEF Text
<1>5. \A i \in 1 .. n : q[i] = p[i]
  BY <1>0, <1>1 DEF Parts
<1>6. q[n + 1] = <<>> /\ q[n + 2] = m
  BY <1>0, <1>2 DEF Parts
<1> HIDE DEF Q, p, q, m
<1> DEFINE u == Append(p, <<>>)
<1>7. /\ u \in Seq(Q) /\ Len(u) = n + 1
      /\ \A i \in 1 .. n : u[i] = p[i]
      /\ u[n + 1] = <<>>
  BY <1>3, <1>4, AppendProperties
<1> HIDE DEF u
<1>8. /\ Append(u, m) \in Seq(Q) /\ Len(Append(u, m)) = n + 2
      /\ \A i \in 1 .. n + 1 : Append(u, m)[i] = u[i]
      /\ Append(u, m)[n + 2] = m
  BY <1>0, <1>4, <1>7, AppendProperties
<1>9. \A i \in 1 .. Len(q) : q[i] = Append(u, m)[i]
  BY <1>0, <1>3, <1>5, <1>6, <1>7, <1>8, SMTT(20)
<1>10. q = Append(u, m)
  BY <1>3, <1>8, <1>9, SeqEqual
<1> QED BY <1>10 DEF q, u, m, p, s, t

\* Unified, one byte more at a time.
LEMMA UnifiedAppend ==
  ASSUME NEW s \in Seq(Byte), NEW b \in Byte
  PROVE  /\ Unified(s) \in Seq(Text)
         /\ Unified(Append(s, b)) =
              IF Joins(s, b) THEN Unified(s) ELSE Append(Unified(s), Uni(b))
<1>1. ASSUME NEW r \in Seq(Byte) PROVE Unified(r) \in Seq(Text)
  BY PartsTypes, FlattenTypes
<1>2. ASSUME NEW r \in Seq(Byte), NEW c \in Byte, ~Joins(r, c)
      PROVE  Unified(Append(r, c)) = Append(Unified(r), Uni(c))
  <2>1. Append(r, c) \in Seq(Byte) /\ Uni(c) \in Text
    BY AppendProperties DEF Uni, Byte, Text
  <2>2. Unified(Append(r, c)) = FlattenSeq(Append(Parts(r), <<Uni(c)>>))
    BY <1>2, <2>1, PartsTypes, PartsAppend
  <2>3. Parts(r) \in Seq(Seq(Text)) /\ <<Uni(c)>> \in Seq(Text)
    BY <2>1, PartsTypes
  <2>4. FlattenSeq(Append(Parts(r), <<Uni(c)>>)) = FlattenSeq(Parts(r)) \o <<Uni(c)>>
    BY <2>3, FlattenAppend
  <2>5. Unified(r) \o <<Uni(c)>> = Append(Unified(r), Uni(c))
    BY <1>1, <2>1, AppendIsConcat
  <2> QED BY <2>2, <2>4, <2>5, PartsTypes
<1>3. CASE Joins(s, b)
  <2>1. s # <<>> /\ s[Len(s)] = "cr" /\ b = "lf"
    BY <1>3 DEF Joins
  <2>2. PICK r \in Seq(Byte), e \in Byte : s = Append(r, e)
    BY <2>1, SequenceEmptyOrAppend
  <2>3. e = "cr"
    BY <2>1, <2>2, AppendProperties
  <2>4. ~Joins(r, "cr") /\ "cr" \in Byte
    BY DEF Joins, Byte
  <2>5. Unified(s) = Append(Unified(r), "lf")
    BY <1>2, <2>2, <2>3, <2>4 DEF Uni
  <2>6. Parts(r) \in Seq(Seq(Text)) /\ <<"lf">> \in Seq(Text) /\ <<>> \in Seq(Text)
    BY PartsTypes DEF Text
  <2>7. Append(s, b) \in Seq(Byte)
    BY AppendProperties
  <2>8. Unified(Append(s, b)) = FlattenSeq(Append(Append(Parts(r), <<>>), <<"lf">>))
    BY <2>1, <2>2, <2>3, <2>7, PartsTypes, PartsPair
  <2>9. Append(Parts(r), <<>>) \in Seq(Seq(Text))
    <3> DEFINE Q == Seq(Text)
    <3>1. Parts(r) \in Seq(Q) /\ <<>> \in Q
      BY <2>6
    <3> HIDE DEF Q
    <3>2. Append(Parts(r), <<>>) \in Seq(Q)
      BY <3>1, AppendProperties
    <3> QED BY <3>2 DEF Q
  <2>10. FlattenSeq(Append(Append(Parts(r), <<>>), <<"lf">>))
           = FlattenSeq(Append(Parts(r), <<>>)) \o <<"lf">>
    BY <2>6, <2>9, FlattenAppend
  <2>11. FlattenSeq(Append(Parts(r), <<>>)) = FlattenSeq(Parts(r)) \o <<>>
    BY <2>6, FlattenAppend
  <2>12. FlattenSeq(Parts(r)) = Unified(r) /\ Unified(r) \in Seq(Text)
    BY <1>1, PartsTypes
  <2>13. Unified(r) \o <<>> = Unified(r)
    BY <2>12, ConcatEmptySeq
  <2>14. Unified(r) \o <<"lf">> = Append(Unified(r), "lf")
    BY <2>12, AppendIsConcat DEF Text
  <2> QED BY <1>1, <1>3, <2>5, <2>8, <2>10, <2>11, <2>12, <2>13, <2>14
<1>4. CASE ~Joins(s, b)
  BY <1>1, <1>2, <1>4
<1> QED BY <1>3, <1>4

\* The bytes that are no line end.
OtherBytes(s) == {i \in DOMAIN s : s[i] = "x"}

\* Tally, one byte more at a time.
LEMMA TallyAppend ==
  ASSUME NEW s \in Seq(Byte), NEW b \in Byte
  PROVE  /\ Tally(s).crlf \in Nat /\ Tally(s).lf \in Nat /\ Tally(s).cr \in Nat
         /\ Joins(s, b) => Tally(s).cr # 0
         /\ Tally(Append(s, b)) =
              IF Joins(s, b)
                THEN [crlf |-> Tally(s).crlf + 1, lf |-> Tally(s).lf, cr |-> Tally(s).cr - 1]
                ELSE [crlf |-> Tally(s).crlf,
                      lf |-> Tally(s).lf + (IF b = "lf" THEN 1 ELSE 0),
                      cr |-> Tally(s).cr + (IF b = "cr" THEN 1 ELSE 0)]
         /\ Cardinality(OtherBytes(s)) \in Nat
         /\ Cardinality(OtherBytes(Append(s, b))) =
              Cardinality(OtherBytes(s)) + (IF b = "x" THEN 1 ELSE 0)
<1> DEFINE t == Append(s, b)
           n == Len(s)
<1>0. /\ DOMAIN s = 1 .. n /\ n \in Nat /\ t \in Seq(Byte) /\ Len(t) = n + 1
      /\ DOMAIN t = 1 .. n + 1
      /\ \A i \in 1 .. n : t[i] = s[i]
      /\ t[n + 1] = b
  BY AppendProperties, LenProperties
<1>f. /\ IsFiniteSet(CrLf(s)) /\ IsFiniteSet(LoneLf(s)) /\ IsFiniteSet(LoneCr(s))
      /\ IsFiniteSet(OtherBytes(s))
  <2>1. IsFiniteSet(1 .. n)
    BY <1>0, FS_Interval
  <2>2. /\ CrLf(s) \in SUBSET (1 .. n) /\ LoneLf(s) \in SUBSET (1 .. n)
        /\ LoneCr(s) \in SUBSET (1 .. n) /\ OtherBytes(s) \in SUBSET (1 .. n)
    BY <1>0 DEF CrLf, LoneLf, LoneCr, OtherBytes
  <2> QED BY <2>1, <2>2, FS_Subset
<1>n. /\ Cardinality(CrLf(s)) \in Nat /\ Cardinality(LoneLf(s)) \in Nat
      /\ Cardinality(LoneCr(s)) \in Nat /\ Cardinality(OtherBytes(s)) \in Nat
  BY <1>f, FS_CardinalityType
<1>t. /\ Tally(s).crlf = Cardinality(CrLf(s)) /\ Tally(s).lf = Cardinality(LoneLf(s))
      /\ Tally(s).cr = Cardinality(LoneCr(s))
  BY DEF Tally
<1> HIDE DEF t
<1>1. ASSUME NEW i \in 1 .. n
      PROVE  Pair(t, i) <=> (Pair(s, i) \/ (i = n /\ Joins(s, b)))
  <2>1. CASE i = n
    BY <1>0, <2>1 DEF Pair, Joins
  <2>2. CASE i # n
    <3>1. n \in Nat /\ i \in 1 .. n
      BY <1>0
    <3>2. i + 1 \in 1 .. n /\ i < n /\ i < n + 1
      BY <2>2, <3>1
    <3>3. t[i] = s[i] /\ t[i + 1] = s[i + 1] /\ Len(t) = n + 1
      BY <1>0, <3>2
    <3> QED BY <2>2, <3>2, <3>3 DEF Pair
  <2> QED BY <2>1, <2>2
<1>2. ~Pair(t, n + 1) /\ ~Pair(s, n)
  BY <1>0 DEF Pair
<1>3. Joins(s, b) => n \in 1 .. n /\ s[n] = "cr" /\ b = "lf"
  BY <1>0 DEF Joins
<1>4. CrLf(t) = CrLf(s) \cup (IF Joins(s, b) THEN {n} ELSE {})
  <2>1. ASSUME NEW i \in 1 .. n PROVE i \in CrLf(t) <=> (i \in CrLf(s) \/ (i = n /\ Joins(s, b)))
    <3>1. i \in DOMAIN s /\ i \in DOMAIN t
      BY <1>0
    <3> QED BY <1>1, <3>1, Zenon DEF CrLf
  <2>2. n + 1 \notin CrLf(t) /\ CrLf(t) \subseteq 1 .. n + 1 /\ CrLf(s) \subseteq 1 .. n
    BY <1>0, <1>2 DEF CrLf
  <2>3. Joins(s, b) => n \in 1 .. n
    BY <1>3
  <2>4. ASSUME NEW i PROVE i \in CrLf(t) <=> (i \in CrLf(s) \/ (i = n /\ Joins(s, b)))
    <3>1. CASE i \in 1 .. n
      BY <2>1, <3>1
    <3>2. CASE i \notin 1 .. n
      <4>1. i \notin CrLf(t)
        BY <1>0, <2>2, <3>2
      <4> QED BY <2>2, <2>3, <3>2, <4>1
    <3> QED BY <3>1, <3>2
  <2> QED BY <2>4
<1>5. n \notin CrLf(s)
  BY <1>2 DEF CrLf
<1>6. LoneLf(t) = LoneLf(s) \cup (IF b = "lf" /\ ~Joins(s, b) THEN {n + 1} ELSE {})
  <2>1. ASSUME NEW i \in 1 .. n PROVE i \in LoneLf(t) <=> i \in LoneLf(s)
    <3>1. i - 1 \in CrLf(t) <=> i - 1 \in CrLf(s)
      BY <1>0, <1>4
    <3> QED BY <1>0, <3>1 DEF LoneLf
  <2>2. n + 1 \in LoneLf(t) <=> b = "lf" /\ ~Joins(s, b)
    BY <1>0, <1>4, <1>5 DEF LoneLf
  <2>3. LoneLf(t) \subseteq 1 .. n + 1 /\ LoneLf(s) \subseteq 1 .. n
    BY <1>0 DEF LoneLf
  <2> QED BY <1>0, <2>1, <2>2, <2>3
<1>7. LoneCr(t) = (LoneCr(s) \ (IF Joins(s, b) THEN {n} ELSE {}))
                    \cup (IF b = "cr" THEN {n + 1} ELSE {})
  <2>1. ASSUME NEW i \in 1 .. n
        PROVE  i \in LoneCr(t) <=> (i \in LoneCr(s) /\ ~(i = n /\ Joins(s, b)))
    <3>1. i \in DOMAIN s /\ i \in DOMAIN t /\ t[i] = s[i]
      BY <1>0
    <3>2. s[i] = "cr" /\ Pair(t, i) /\ i = n /\ Joins(s, b) => ~Pair(s, i)
      BY <1>2, Zenon
    <3> QED BY <1>1, <1>2, <3>1, <3>2, Zenon DEF LoneCr
  <2>2. /\ n + 1 \in LoneCr(t) <=> b = "cr"
        /\ LoneCr(t) \subseteq 1 .. n + 1 /\ LoneCr(s) \subseteq 1 .. n
    BY <1>0, <1>2 DEF LoneCr
  <2>3. ASSUME NEW i
        PROVE  i \in LoneCr(t) <=>
                 ((i \in LoneCr(s) /\ ~(i = n /\ Joins(s, b))) \/ (i = n + 1 /\ b = "cr"))
    <3>1. CASE i \in 1 .. n
      <4>1. i # n + 1
        BY <1>0, <3>1
      <4> QED BY <2>1, <3>1, <4>1
    <3>2. CASE i \notin 1 .. n
      <4>1. i \in LoneCr(t) => i = n + 1
        BY <1>0, <2>2, <3>2
      <4> QED BY <2>2, <3>2, <4>1
    <3> QED BY <3>1, <3>2
  <2> QED BY <2>3
<1>8. Joins(s, b) => n \in LoneCr(s)
  BY <1>0, <1>2, <1>3 DEF LoneCr
<1>9. OtherBytes(t) = OtherBytes(s) \cup (IF b = "x" THEN {n + 1} ELSE {})
  BY <1>0 DEF OtherBytes
<1>10. n + 1 \notin LoneLf(s) /\ n + 1 \notin LoneCr(s) /\ n + 1 \notin OtherBytes(s)
  BY <1>0 DEF LoneLf, LoneCr, OtherBytes
<1>11. Cardinality(CrLf(t)) = Cardinality(CrLf(s)) + (IF Joins(s, b) THEN 1 ELSE 0)
  <2>1. CASE Joins(s, b)
    BY <1>f, <1>4, <1>5, <2>1, FS_AddElement
  <2>2. CASE ~Joins(s, b)
    <3>1. CrLf(t) = CrLf(s)
      BY <1>4, <2>2
    <3> QED BY <1>n, <2>2, <3>1
  <2> QED BY <2>1, <2>2
<1>12. Cardinality(LoneLf(t))
         = Cardinality(LoneLf(s)) + (IF b = "lf" /\ ~Joins(s, b) THEN 1 ELSE 0)
  <2>1. CASE b = "lf" /\ ~Joins(s, b)
    BY <1>f, <1>6, <1>10, <2>1, FS_AddElement
  <2>2. CASE ~(b = "lf" /\ ~Joins(s, b))
    <3>1. LoneLf(t) = LoneLf(s)
      BY <1>6, <2>2
    <3> QED BY <1>n, <2>2, <3>1
  <2> QED BY <2>1, <2>2
<1>13. Cardinality(LoneCr(t))
         = IF Joins(s, b) THEN Cardinality(LoneCr(s)) - 1
           ELSE Cardinality(LoneCr(s)) + (IF b = "cr" THEN 1 ELSE 0)
  <2>1. CASE Joins(s, b)
    <3>1. LoneCr(t) = LoneCr(s) \ {n}
      BY <1>3, <1>7, <2>1
    <3> QED BY <1>f, <1>8, <2>1, <3>1, FS_RemoveElement
  <2>2. CASE ~Joins(s, b) /\ b = "cr"
    <3>1. LoneCr(t) = LoneCr(s) \cup {n + 1}
      BY <1>7, <2>2
    <3> QED BY <1>f, <1>10, <2>2, <3>1, FS_AddElement
  <2>3. CASE ~Joins(s, b) /\ b # "cr"
    <3>1. LoneCr(t) = LoneCr(s)
      BY <1>7, <2>3
    <3> QED BY <1>n, <2>3, <3>1
  <2> QED BY <2>1, <2>2, <2>3
<1>14. Cardinality(OtherBytes(t)) = Cardinality(OtherBytes(s)) + (IF b = "x" THEN 1 ELSE 0)
  <2>1. CASE b = "x"
    BY <1>f, <1>9, <1>10, <2>1, FS_AddElement
  <2>2. CASE b # "x"
    <3>1. OtherBytes(t) = OtherBytes(s)
      BY <1>9, <2>2
    <3> QED BY <1>n, <2>2, <3>1
  <2> QED BY <2>1, <2>2
<1>15. Joins(s, b) => Cardinality(LoneCr(s)) # 0
  BY <1>f, <1>8, FS_EmptySet
<1>16. Tally(t) = [crlf |-> Cardinality(CrLf(t)), lf |-> Cardinality(LoneLf(t)),
                   cr |-> Cardinality(LoneCr(t))]
  BY DEF Tally
<1>17. Joins(s, b) => b # "cr"
  BY <1>3
<1>18. Tally(t) = IF Joins(s, b)
                THEN [crlf |-> Tally(s).crlf + 1, lf |-> Tally(s).lf, cr |-> Tally(s).cr - 1]
                ELSE [crlf |-> Tally(s).crlf,
                      lf |-> Tally(s).lf + (IF b = "lf" THEN 1 ELSE 0),
                      cr |-> Tally(s).cr + (IF b = "cr" THEN 1 ELSE 0)]
  BY <1>n, <1>t, <1>11, <1>12, <1>13, <1>16, <1>17
<1> QED BY <1>n, <1>t, <1>14, <1>15, <1>18 DEF t

-----------------------------------------------------------------------------
(* normalize_line_endings does what FR-011 asks, for contents of any length. *)

\* The second half of Normalize: LF becomes the new style.
Put(b, style) == IF b = "lf" THEN Mark(style) ELSE <<b>>

Marks(u, style) == [i \in DOMAIN u |-> Put(u[i], style)]

Marked(u, style) == FlattenSeq(Marks(u, style))

LEMMA NormalizeIsMarked ==
  ASSUME NEW s, NEW style
  PROVE  Normalize(s, style) = Marked(Unified(s), style)
BY DEF Normalize, Marked, Marks, Put

LEMMA MarkedAppend ==
  ASSUME NEW u \in Seq(Text), NEW b \in Text, NEW style \in Style
  PROVE  /\ Marked(u, style) \in Seq(Byte)
         /\ Marked(Append(u, b), style) = Marked(u, style) \o Put(b, style)
<1> DEFINE Q == Seq(Byte)
           v == Append(u, b)
           n == Len(u)
<1>0. /\ DOMAIN u = 1 .. n /\ n \in Nat /\ v \in Seq(Text) /\ Len(v) = n + 1
      /\ DOMAIN v = 1 .. n + 1
      /\ \A i \in 1 .. n : v[i] = u[i]
      /\ v[n + 1] = b
  BY AppendProperties, LenProperties
<1> HIDE DEF v
<1>1. ASSUME NEW c \in Text PROVE Put(c, style) \in Q
  <2>1. /\ <<"cr", "lf">> \in Q /\ <<"cr">> \in Q /\ <<"lf">> \in Q /\ <<"x">> \in Q
    BY DEF Byte
  <2>2. Mark(style) \in {<<"cr", "lf">>, <<"cr">>, <<"lf">>}
    BY DEF Mark, Style
  <2>3. Put(c, style) \in {Mark(style), <<"x">>}
    BY DEF Put, Text
  <2> HIDE DEF Q
  <2> QED BY <2>1, <2>2, <2>3
<1>2. /\ \A i \in 1 .. n : u[i] \in Text
      /\ \A i \in 1 .. n + 1 : v[i] \in Text
  BY <1>0, ElementOfSeq
<1> DEFINE p == Marks(u, style)
           q == Marks(v, style)
           e == Put(b, style)
<1>3. p \in Seq(Q) /\ q \in Seq(Q) /\ e \in Q /\ Len(p) = n /\ Len(q) = n + 1
  <2>1. p \in [1 .. n -> Q] /\ q \in [1 .. n + 1 -> Q]
    <3> HIDE DEF Q
    <3> QED BY <1>0, <1>1, <1>2 DEF Marks
  <2>2. e \in Q
    BY <1>1
  <2> HIDE DEF Q, p, q, e
  <2> QED BY <1>0, <2>1, <2>2
<1>4. \A i \in 1 .. n : q[i] = p[i]
  BY <1>0 DEF Marks
<1>5. q[n + 1] = e
  BY <1>0 DEF Marks
<1>6. q = Append(p, e)
  <2> HIDE DEF Q, p, q, e
  <2>1. /\ Append(p, e) \in Seq(Q) /\ Len(Append(p, e)) = n + 1
        /\ \A i \in 1 .. n : Append(p, e)[i] = p[i]
        /\ Append(p, e)[n + 1] = e
    BY <1>3, AppendProperties
  <2>2. \A i \in 1 .. Len(q) : q[i] = Append(p, e)[i]
    BY <1>0, <1>3, <1>4, <1>5, <2>1
  <2> QED BY <1>3, <2>1, <2>2, SeqEqual
<1>7. p \in Seq(Seq(Byte)) /\ e \in Seq(Byte)
  BY <1>3
<1>8. FlattenSeq(p) \in Seq(Byte) /\ FlattenSeq(Append(p, e)) = FlattenSeq(p) \o e
  <2> HIDE DEF p, e
  <2> QED BY <1>7, FlattenTypes, FlattenAppend
<1>9. Marked(v, style) = FlattenSeq(p) \o e
  BY <1>6, <1>8 DEF Marked
<1> QED BY <1>8, <1>9 DEF Marked, v

\* A content in one style, which reads u when its line ends are all alike.
Neat(m, u, style) ==
  /\ m \in Seq(Byte)
  /\ Unified(m) = u
  /\ m # <<>> /\ m[Len(m)] = "cr" => style = "cr"
  /\ \A k \in Style \ {style} : Tally(m)[k] = 0

LEMMA NeatByte ==
  ASSUME NEW m \in Seq(Byte), NEW b \in Byte
  PROVE  LET t == Append(m, b) IN
           /\ t \in Seq(Byte) /\ t # <<>> /\ t[Len(t)] = b
           /\ Unified(t) = IF Joins(m, b) THEN Unified(m) ELSE Append(Unified(m), Uni(b))
<1>1. LET t == Append(m, b) IN t \in Seq(Byte) /\ t # <<>> /\ t[Len(t)] = b
  BY AppendProperties
<1> QED BY <1>1, UnifiedAppend

LEMMA NeatStep ==
  ASSUME NEW style \in Style, NEW u \in Seq(Text), NEW m, Neat(m, u, style), NEW b \in Text
  PROVE  Neat(m \o Put(b, style), Append(u, b), style)
<1>0. /\ m \in Seq(Byte) /\ Unified(m) = u
      /\ (m # <<>> /\ m[Len(m)] = "cr" => style = "cr")
      /\ \A k \in Style \ {style} : Tally(m)[k] = 0
      /\ Tally(m).crlf \in Nat /\ Tally(m).lf \in Nat /\ Tally(m).cr \in Nat
  <2>1. m \in Seq(Byte) /\ "x" \in Byte
    BY DEF Neat, Byte
  <2> QED BY <2>1, TallyAppend DEF Neat
<1>1. ASSUME NEW c \in Byte, ~Joins(m, c), Put(b, style) = <<c>>, Uni(c) = b,
             c = "cr" => style = "cr", c = "lf" => style = "lf"
      PROVE  Neat(m \o Put(b, style), Append(u, b), style)
  <2>1. m \o Put(b, style) = Append(m, c)
    BY <1>0, <1>1, AppendIsConcat
  <2>2. /\ Append(m, c) \in Seq(Byte) /\ Append(m, c)[Len(Append(m, c))] = c
        /\ Unified(Append(m, c)) = Append(u, b)
    BY <1>0, <1>1, NeatByte
  <2>3. Tally(Append(m, c)) =
          [crlf |-> Tally(m).crlf,
           lf |-> Tally(m).lf + (IF c = "lf" THEN 1 ELSE 0),
           cr |-> Tally(m).cr + (IF c = "cr" THEN 1 ELSE 0)]
    BY <1>0, <1>1, TallyAppend
  <2>4. \A k \in Style \ {style} : Tally(Append(m, c))[k] = 0
    BY <1>0, <1>1, <2>3 DEF Style
  <2> QED BY <1>1, <2>1, <2>2, <2>4 DEF Neat
<1>2. CASE b = "x"
  BY <1>1, <1>2 DEF Joins, Put, Byte, Uni
<1>3. CASE b = "lf" /\ style = "lf"
  BY <1>0, <1>1, <1>3 DEF Joins, Put, Mark, Byte, Uni
<1>4. CASE b = "lf" /\ style = "cr"
  BY <1>0, <1>1, <1>4 DEF Joins, Put, Mark, Byte, Uni
<1>5. CASE b = "lf" /\ style = "crlf"
  <2> DEFINE c == Append(m, "cr")
             t == Append(c, "lf")
  <2>1. "cr" \in Byte /\ "lf" \in Byte /\ ~Joins(m, "cr")
    BY DEF Byte, Joins
  <2>2. /\ c \in Seq(Byte) /\ c # <<>> /\ c[Len(c)] = "cr"
        /\ Unified(c) = Append(u, "lf")
    BY <1>0, <2>1, NeatByte DEF Uni
  <2>3. Tally(c) = [crlf |-> Tally(m).crlf, lf |-> Tally(m).lf, cr |-> Tally(m).cr + 1]
    BY <1>0, <2>1, TallyAppend
  <2>4. m \o Put(b, style) = t
    <3>1. m \o <<"cr", "lf">> = Append(Append(m, "cr"), "lf")
      BY <1>0, <2>1
    <3> QED BY <1>5, <3>1 DEF Put, Mark
  <2> HIDE DEF c
  <2>5. Joins(c, "lf")
    BY <2>2 DEF Joins
  <2>6. /\ t \in Seq(Byte) /\ t # <<>> /\ t[Len(t)] = "lf"
        /\ Unified(t) = Append(u, "lf")
    BY <2>1, <2>2, <2>5, NeatByte
  <2>7. Tally(t) = [crlf |-> Tally(c).crlf + 1, lf |-> Tally(c).lf, cr |-> Tally(c).cr - 1]
    BY <2>1, <2>2, <2>5, TallyAppend
  <2>8. \A k \in Style \ {style} : Tally(t)[k] = 0
    BY <1>0, <1>5, <2>3, <2>7 DEF Style
  <2> QED BY <1>5, <2>4, <2>6, <2>8 DEF Neat
<1> QED BY <1>2, <1>3, <1>4, <1>5 DEF Text, Style

LEMMA EmptyNeat ==
  ASSUME NEW style \in Style
  PROVE  Neat(Marked(<<>>, style), <<>>, style)
<1>1. Marked(<<>>, style) = <<>> /\ Unified(<<>>) = <<>>
  <2>1. Marks(<<>>, style) = <<>> /\ Parts(<<>>) = <<>> /\ <<>> \in Seq(Byte)
    BY DEF Marks, Parts
  <2> QED BY <2>1, FlattenEmpty, PartsTypes DEF Marked
<1>2. Tally(<<>>) = [crlf |-> 0, lf |-> 0, cr |-> 0]
  <2>1. CrLf(<<>>) = {} /\ LoneLf(<<>>) = {} /\ LoneCr(<<>>) = {}
    BY DEF CrLf, LoneLf, LoneCr
  <2> QED BY <2>1, FS_EmptySet DEF Tally
<1>3. \A k \in Style : Tally(<<>>)[k] = 0
  BY <1>2 DEF Style
<1>4. <<>> \in Seq(Byte)
  OBVIOUS
<1> QED BY <1>1, <1>3, <1>4 DEF Neat

\* What is rewritten to a style is neat.
LEMMA MarkedNeat ==
  ASSUME NEW u \in Seq(Text), NEW style \in Style
  PROVE  Neat(Marked(u, style), u, style)
<1> DEFINE T == {v \in Seq(Text) : Neat(Marked(v, style), v, style)}
<1>1. <<>> \in T
  BY EmptyNeat
<1>2. ASSUME NEW v \in Seq(Text), NEW b \in Text, v \in T PROVE Append(v, b) \in T
  <2>1. Neat(Marked(v, style), v, style)
    BY <1>2
  <2>2. Neat(Marked(v, style) \o Put(b, style), Append(v, b), style)
    BY <2>1, NeatStep
  <2> QED BY <2>2, MarkedAppend, AppendProperties
<1>3. Seq(Text) \subseteq T
  <2> HIDE DEF T
  <2> QED BY <1>1, <1>2, SeqInduct
<1> QED BY <1>3

LEMMA SumUp ==
  ASSUME NEW t, NEW v, t.crlf \in Nat, t.lf \in Nat, t.cr \in Nat, v.crlf = t.crlf,
         NEW x \in Nat, NEW y \in Nat, v.lf = t.lf + x, v.cr = t.cr + y
  PROVE  Sum(v) = Sum(t) + (x + y)
BY DEF Sum

\* The line ends, and the other bytes, are those of the unified content.
LEMMA UnifiedCounts ==
  ASSUME NEW s \in Seq(Byte)
  PROVE  /\ Unified(s) \in Seq(Text)
         /\ Sum(Tally(s)) = Sum(Tally(Unified(s)))
         /\ Cardinality(OtherBytes(s)) = Cardinality(OtherBytes(Unified(s)))
<1>0. ASSUME NEW r \in Seq(Byte) PROVE Unified(r) \in Seq(Text) /\ Unified(r) \in Seq(Byte)
  <2>1. Unified(r) \in Seq(Text) /\ Text \subseteq Byte
    BY UnifiedAppend DEF Byte, Text
  <2> QED BY <2>1, SeqMonotonic
<1> DEFINE T == {r \in Seq(Byte) :
                   /\ Sum(Tally(r)) = Sum(Tally(Unified(r)))
                   /\ Cardinality(OtherBytes(r)) = Cardinality(OtherBytes(Unified(r)))}
<1>1. <<>> \in T
  <2>1. Parts(<<>>) = <<>> /\ <<>> \in Seq(Byte)
    BY DEF Parts
  <2>2. Unified(<<>>) = <<>>
    BY <2>1, FlattenEmpty, PartsTypes
  <2> QED BY <2>1, <2>2
<1>2. ASSUME NEW r \in Seq(Byte), NEW b \in Byte, r \in T PROVE Append(r, b) \in T
  <2>0. Append(r, b) \in Seq(Byte)
    BY AppendProperties
  <2> DEFINE u == Unified(r)
             c == Uni(b)
  <2>1. u \in Seq(Text) /\ u \in Seq(Byte) /\ c \in Text /\ c \in Byte
    BY <1>0 DEF Uni, Text, Byte
  <2>2. /\ Sum(Tally(r)) = Sum(Tally(u))
        /\ Cardinality(OtherBytes(r)) = Cardinality(OtherBytes(u))
    BY <1>2
  <2>3. ~Joins(u, c)
    <3>1. u # <<>> => u[Len(u)] \in Text
      <4>1. u # <<>> => Len(u) \in 1 .. Len(u)
        BY <2>1, EmptySeq
      <4> QED BY <2>1, <4>1, ElementOfSeq
    <3> QED BY <3>1 DEF Joins, Text
  <2>4. /\ Tally(r).crlf \in Nat /\ Tally(r).lf \in Nat /\ Tally(r).cr \in Nat
        /\ Tally(u).crlf \in Nat /\ Tally(u).lf \in Nat /\ Tally(u).cr \in Nat
        /\ Cardinality(OtherBytes(r)) \in Nat /\ Cardinality(OtherBytes(u)) \in Nat
    <3> HIDE DEF u
    <3> QED BY <2>1, TallyAppend
  <2>5. CASE Joins(r, b)
    <3>1. Unified(Append(r, b)) = u
      BY <2>5, UnifiedAppend
    <3>2. Tally(Append(r, b)) =
            [crlf |-> Tally(r).crlf + 1, lf |-> Tally(r).lf, cr |-> Tally(r).cr - 1]
      BY <2>5, TallyAppend
    <3>3. Sum(Tally(Append(r, b))) = Sum(Tally(r))
      BY <2>4, <3>2 DEF Sum
    <3>4. b # "x"
      BY <2>5 DEF Joins
    <3>5. Cardinality(OtherBytes(Append(r, b))) = Cardinality(OtherBytes(r)) + 0
      BY <3>4, TallyAppend
    <3> QED BY <2>0, <2>2, <2>4, <3>1, <3>3, <3>5
  <2>6. CASE ~Joins(r, b)
    <3>1. Unified(Append(r, b)) = Append(u, c)
      BY <2>6, UnifiedAppend
    <3>2. Tally(Append(r, b)) =
            [crlf |-> Tally(r).crlf,
             lf |-> Tally(r).lf + (IF b = "lf" THEN 1 ELSE 0),
             cr |-> Tally(r).cr + (IF b = "cr" THEN 1 ELSE 0)]
      BY <2>6, TallyAppend
    <3>3. Tally(Append(u, c)) =
            [crlf |-> Tally(u).crlf,
             lf |-> Tally(u).lf + (IF c = "lf" THEN 1 ELSE 0),
             cr |-> Tally(u).cr + (IF c = "cr" THEN 1 ELSE 0)]
      <4> HIDE DEF u, c
      <4> QED BY <2>1, <2>3, TallyAppend
    <3>4. \/ b = "x" /\ c = "x"
          \/ b = "lf" /\ c = "lf"
          \/ b = "cr" /\ c = "lf"
      BY DEF Uni, Byte
    <3>5. Sum(Tally(Append(r, b))) = Sum(Tally(Append(u, c)))
      <4> HIDE DEF u, c
      <4>1. Sum(Tally(Append(r, b))) = Sum(Tally(r)) + (IF b = "x" THEN 0 ELSE 1)
        <5>1. /\ Tally(Append(r, b)).crlf = Tally(r).crlf
              /\ Tally(Append(r, b)).lf = Tally(r).lf + (IF b = "lf" THEN 1 ELSE 0)
              /\ Tally(Append(r, b)).cr = Tally(r).cr + (IF b = "cr" THEN 1 ELSE 0)
          BY <3>2
        <5> QED BY <2>4, <3>4, <5>1, SumUp
      <4>2. Sum(Tally(Append(u, c))) = Sum(Tally(u)) + (IF c = "x" THEN 0 ELSE 1)
        <5>1. /\ Tally(Append(u, c)).crlf = Tally(u).crlf
              /\ Tally(Append(u, c)).lf = Tally(u).lf + (IF c = "lf" THEN 1 ELSE 0)
              /\ Tally(Append(u, c)).cr = Tally(u).cr + (IF c = "cr" THEN 1 ELSE 0)
          BY <3>3
        <5> QED BY <2>4, <3>4, <5>1, SumUp
      <4> QED BY <2>2, <3>4, <4>1, <4>2
    <3>6. Cardinality(OtherBytes(Append(r, b))) = Cardinality(OtherBytes(Append(u, c)))
      <4>1. Cardinality(OtherBytes(Append(r, b)))
              = Cardinality(OtherBytes(r)) + (IF b = "x" THEN 1 ELSE 0)
        BY TallyAppend
      <4>2. Cardinality(OtherBytes(Append(u, c)))
              = Cardinality(OtherBytes(u)) + (IF c = "x" THEN 1 ELSE 0)
        <5> HIDE DEF u, c
        <5> QED BY <2>1, TallyAppend
      <4> QED BY <2>2, <3>4, <4>1, <4>2
    <3> QED BY <2>0, <3>1, <3>5, <3>6
  <2> QED BY <2>5, <2>6
<1>3. Seq(Byte) \subseteq T
  <2> HIDE DEF T
  <2> QED BY <1>1, <1>2, SeqInduct
<1> QED BY <1>0, <1>3

\* FR-011 for every content: NormalizesTo holds.
LEMMA Normalizes ==
  ASSUME NEW s \in Seq(Byte), NEW style \in Style
  PROVE  /\ NormalizesTo(s, style)
         /\ Normalize(s, style) \in Seq(Byte)
<1>0. /\ Unified(s) \in Seq(Text)
      /\ Sum(Tally(s)) = Sum(Tally(Unified(s)))
      /\ Cardinality(OtherBytes(s)) = Cardinality(OtherBytes(Unified(s)))
  BY UnifiedCounts
<1>1. ASSUME NEW to \in Style PROVE Neat(Normalize(s, to), Unified(s), to)
  BY <1>0, MarkedNeat, NormalizeIsMarked
<1> DEFINE n == Normalize(s, style)
<1>2. Neat(n, Unified(s), style)
  BY <1>1
<1>3. n \in Seq(Byte) /\ Unified(n) = Unified(s) /\ \A k \in Style \ {style} : Tally(n)[k] = 0
  BY <1>2 DEF Neat
<1>4. Sum(Tally(n)) = Sum(Tally(s)) /\ Cardinality(OtherBytes(n)) = Cardinality(OtherBytes(s))
  <2> HIDE DEF n
  <2> QED BY <1>0, <1>3, UnifiedCounts
<1>5. ASSUME NEW via \in Style PROVE Normalize(Normalize(s, via), style) = n
  <2>1. Unified(Normalize(s, via)) = Unified(s)
    BY <1>1 DEF Neat
  <2> QED BY <2>1, NormalizeIsMarked
<1> QED BY <1>3, <1>4, <1>5 DEF NormalizesTo, OtherBytes

-----------------------------------------------------------------------------
(* Counting chunk by chunk, wherever the chunks are cut.                   *)

EndsCr(s) == s # <<>> /\ s[Len(s)] = "cr"

\* The tally of two contents that no pair spans is the sum of theirs.
Adds(s, t) ==
  /\ Tally(s \o t).crlf = Tally(s).crlf + Tally(t).crlf
  /\ Tally(s \o t).lf = Tally(s).lf + Tally(t).lf
  /\ Tally(s \o t).cr = Tally(s).cr + Tally(t).cr

LEMMA TallyTypes ==
  ASSUME NEW s \in Seq(Byte)
  PROVE  Tally(s).crlf \in Nat /\ Tally(s).lf \in Nat /\ Tally(s).cr \in Nat
BY TallyAppend DEF Byte

LEMMA TallyEmpty == Tally(<<>>) = [crlf |-> 0, lf |-> 0, cr |-> 0]
<1>1. CrLf(<<>>) = {} /\ LoneLf(<<>>) = {} /\ LoneCr(<<>>) = {}
  BY DEF CrLf, LoneLf, LoneCr
<1> QED BY <1>1, FS_EmptySet DEF Tally

LEMMA TallyConcat ==
  ASSUME NEW s \in Seq(Byte), NEW t \in Seq(Byte), ~(EndsCr(s) /\ t # <<>> /\ t[1] = "lf")
  PROVE  Adds(s, t)
<1> DEFINE Spanned(r) == EndsCr(s) /\ r # <<>> /\ r[1] = "lf"
           T == {r \in Seq(Byte) : Spanned(r) \/ Adds(s, r)}
<1>1. <<>> \in T
  <2>1. s \o <<>> = s /\ <<>> \in Seq(Byte)
    BY ConcatEmptySeq
  <2>2. Adds(s, <<>>)
    BY <2>1, TallyEmpty, TallyTypes DEF Adds
  <2> QED BY <2>1, <2>2
<1>2. ASSUME NEW r \in Seq(Byte), NEW b \in Byte, r \in T PROVE Append(r, b) \in T
  <2>0. Append(r, b) \in Seq(Byte)
    BY AppendProperties
  <2> SUFFICES ASSUME ~Spanned(Append(r, b)) PROVE Adds(s, Append(r, b))
    BY <2>0
  <2>1. ~Spanned(r)
    <3>1. r # <<>> => 1 \in 1 .. Len(r)
      BY EmptySeq
    <3>2. r # <<>> => Append(r, b)[1] = r[1]
      BY <3>1, AppendProperties
    <3> QED BY <3>2, AppendProperties
  <2>2. Adds(s, r)
    BY <1>2, <2>1
  <2>3. s \o Append(r, b) = Append(s \o r, b) /\ s \o r \in Seq(Byte)
    <3>1. Append(r, b) = r \o <<b>> /\ <<b>> \in Seq(Byte)
      BY AppendIsConcat
    <3>2. s \o (r \o <<b>>) = (s \o r) \o <<b>> /\ s \o r \in Seq(Byte)
      BY <3>1, ConcatAssociative, ConcatProperties
    <3> QED BY <3>1, <3>2, AppendIsConcat
  <2>4. Joins(s \o r, b) <=> Joins(r, b)
    <3>1. CASE r = <<>>
      <4>1. s \o r = s /\ Append(r, b)[1] = b
        BY <3>1, ConcatEmptySeq
      <4>2. ~Joins(s, b)
        BY <4>1, AppendProperties DEF Joins, EndsCr
      <4> QED BY <3>1, <4>1, <4>2 DEF Joins
    <3>2. CASE r # <<>>
      <4>1. Len(r) \in Nat \ {0} /\ Len(s) \in Nat
        BY <3>2, EmptySeq, LenProperties
      <4>2. Len(s \o r) = Len(s) + Len(r) /\ (s \o r)[Len(s) + Len(r)] = r[Len(r)]
        BY <4>1, ConcatProperties
      <4>3. s \o r # <<>>
        BY <4>1, <4>2
      <4> QED BY <3>2, <4>2, <4>3 DEF Joins
    <3> QED BY <3>1, <3>2
  <2> DEFINE u == s \o r
  <2>5. /\ Tally(s).crlf \in Nat /\ Tally(s).lf \in Nat /\ Tally(s).cr \in Nat
        /\ Tally(r).crlf \in Nat /\ Tally(r).lf \in Nat /\ Tally(r).cr \in Nat
        /\ Tally(u).crlf = Tally(s).crlf + Tally(r).crlf
        /\ Tally(u).lf = Tally(s).lf + Tally(r).lf
        /\ Tally(u).cr = Tally(s).cr + Tally(r).cr
    BY <2>2, TallyTypes DEF Adds
  <2> HIDE DEF u
  <2>6. u \in Seq(Byte) /\ s \o Append(r, b) = Append(u, b) /\ (Joins(u, b) <=> Joins(r, b))
    BY <2>3, <2>4 DEF u
  <2>7. CASE Joins(r, b)
    <3>1. /\ Tally(Append(u, b)).crlf = Tally(u).crlf + 1
          /\ Tally(Append(u, b)).lf = Tally(u).lf
          /\ Tally(Append(u, b)).cr = Tally(u).cr - 1
      <4>1. Tally(Append(u, b))
              = [crlf |-> Tally(u).crlf + 1, lf |-> Tally(u).lf, cr |-> Tally(u).cr - 1]
        BY <2>6, <2>7, TallyAppend
      <4> QED BY <4>1
    <3>2. /\ Tally(Append(r, b)).crlf = Tally(r).crlf + 1
          /\ Tally(Append(r, b)).lf = Tally(r).lf
          /\ Tally(Append(r, b)).cr = Tally(r).cr - 1
          /\ Tally(r).cr # 0
      BY <2>7, TallyAppend, SMTT(20)
    <3>3. /\ Tally(Append(u, b)).crlf = Tally(s).crlf + Tally(Append(r, b)).crlf
          /\ Tally(Append(u, b)).lf = Tally(s).lf + Tally(Append(r, b)).lf
      <4>1. /\ Tally(s).crlf \in Nat /\ Tally(r).crlf \in Nat
            /\ Tally(u).crlf = Tally(s).crlf + Tally(r).crlf
            /\ Tally(u).lf = Tally(s).lf + Tally(r).lf
        BY <2>5
      <4>2. Tally(u).crlf + 1 = Tally(s).crlf + (Tally(r).crlf + 1)
        BY <4>1
      <4> QED BY <3>1, <3>2, <4>1, <4>2
    <3>4. Tally(Append(u, b)).cr = Tally(s).cr + Tally(Append(r, b)).cr
      <4>1. Tally(s).cr \in Nat /\ Tally(r).cr \in Nat /\ Tally(u).cr = Tally(s).cr + Tally(r).cr
        BY <2>5
      <4>2. Tally(u).cr - 1 = Tally(s).cr + (Tally(r).cr - 1)
        BY <4>1
      <4> QED BY <3>1, <3>2, <4>2
    <3> QED BY <2>6, <3>3, <3>4 DEF Adds
  <2>8. CASE ~Joins(r, b)
    <3> DEFINE x == IF b = "lf" THEN 1 ELSE 0
               y == IF b = "cr" THEN 1 ELSE 0
    <3>1. /\ Tally(Append(u, b)).crlf = Tally(u).crlf
          /\ Tally(Append(u, b)).lf = Tally(u).lf + x
          /\ Tally(Append(u, b)).cr = Tally(u).cr + y
      BY <2>6, <2>8, TallyAppend
    <3>2. /\ Tally(Append(r, b)).crlf = Tally(r).crlf
          /\ Tally(Append(r, b)).lf = Tally(r).lf + x
          /\ Tally(Append(r, b)).cr = Tally(r).cr + y
      BY <2>8, TallyAppend
    <3>3. x \in Nat /\ y \in Nat
      OBVIOUS
    <3> HIDE DEF x, y
    <3> QED BY <2>5, <2>6, <3>1, <3>2, <3>3, SMTT(20) DEF Adds
  <2> QED BY <2>7, <2>8
<1>3. Seq(Byte) \subseteq T
  <2> HIDE DEF T
  <2> QED BY <1>1, <1>2, SeqInduct
<1> QED BY <1>3

\* What the counts say of the content that was read so far.
Represents(c, s) ==
  c = [crlf |-> Tally(s).crlf, lf |-> Tally(s).lf,
       cr |-> Tally(s).cr - (IF EndsCr(s) THEN 1 ELSE 0), pending |-> EndsCr(s)]

\* A CR at the end is put aside.
LEMMA HeldTally ==
  ASSUME NEW r \in Seq(Byte)
  PROVE  LET held == r # <<>> /\ Last(r) = "cr"
             here == Tally(IF held THEN Front(r) ELSE r)
         IN  /\ held <=> EndsCr(r)
             /\ Tally(r).crlf = here.crlf /\ Tally(r).lf = here.lf
             /\ Tally(r).cr = here.cr + (IF EndsCr(r) THEN 1 ELSE 0)
             /\ here.crlf \in Nat /\ here.lf \in Nat /\ here.cr \in Nat
<1>1. (r # <<>> /\ Last(r) = "cr") <=> EndsCr(r)
  BY DEF Last, EndsCr
<1>2. CASE EndsCr(r)
  <2>1. PICK q \in Seq(Byte), e \in Byte : r = Append(q, e)
    BY <1>2, SequenceEmptyOrAppend DEF EndsCr
  <2>2. e = "cr" /\ Len(r) = Len(q) + 1 /\ Len(q) \in Nat
    BY <1>2, <2>1, AppendProperties, LenProperties DEF EndsCr
  <2>3. Front(r) = q
    <3>1. Front(r) = SubSeq(r, 1, Len(q))
      BY <2>2 DEF Front
    <3>2. /\ Front(r) \in Seq(Byte) /\ Len(Front(r)) = Len(q)
          /\ \A i \in 1 .. Len(q) : Front(r)[i] = r[i]
      <4>1. \A i \in 1 .. Len(q) : r[i] \in Byte /\ r[i] = q[i]
        BY <2>1, AppendProperties, ElementOfSeq
      <4>2. Len(SubSeq(r, 1, Len(q))) = Len(q)
        BY <2>2, <4>1, SubSeqProperties
      <4> QED BY <2>2, <3>1, <4>1, <4>2, SubSeqProperties
    <3>3. \A i \in 1 .. Len(q) : r[i] = q[i]
      BY <2>1, AppendProperties
    <3> QED BY <3>2, <3>3, SeqEqual
  <2>4. /\ Tally(r).crlf = Tally(q).crlf /\ Tally(r).lf = Tally(q).lf
        /\ Tally(r).cr = Tally(q).cr + 1
        /\ Tally(q).crlf \in Nat /\ Tally(q).lf \in Nat /\ Tally(q).cr \in Nat
    <3>1. ~Joins(q, e) /\ "cr" # "lf"
      BY <2>2 DEF Joins
    <3>2. Tally(r) = [crlf |-> Tally(q).crlf, lf |-> Tally(q).lf + 0, cr |-> Tally(q).cr + 1]
      BY <2>1, <2>2, <3>1, TallyAppend
    <3> QED BY <3>2, TallyTypes
  <2> QED BY <1>1, <1>2, <2>3, <2>4
<1>3. CASE ~EndsCr(r)
  BY <1>1, <1>3, TallyTypes
<1> QED BY <1>2, <1>3

\* _count_chunk.
LEMMA ChunkCounted ==
  ASSUME NEW c, NEW s \in Seq(Byte), Represents(c, s), NEW chunk \in Seq(Byte), chunk # <<>>
  PROVE  Represents(CountChunk(c, chunk), s \o chunk)
<1> DEFINE joined == c.pending /\ Head(chunk) = "lf"
           rest == IF joined THEN Tail(chunk) ELSE chunk
           held == rest # <<>> /\ Last(rest) = "cr"
           here == Tally(IF held THEN Front(rest) ELSE rest)
<1>0. /\ c.crlf = Tally(s).crlf /\ c.lf = Tally(s).lf
      /\ c.cr = Tally(s).cr - (IF EndsCr(s) THEN 1 ELSE 0)
      /\ c.pending = EndsCr(s)
      /\ Tally(s).crlf \in Nat /\ Tally(s).lf \in Nat /\ Tally(s).cr \in Nat
  BY TallyTypes DEF Represents
<1>1. /\ Head(chunk) = chunk[1] /\ Head(chunk) \in Byte /\ Tail(chunk) \in Seq(Byte)
      /\ rest \in Seq(Byte)
  BY HeadTailProperties
<1>2. /\ held <=> EndsCr(rest)
      /\ Tally(rest).crlf = here.crlf /\ Tally(rest).lf = here.lf
      /\ Tally(rest).cr = here.cr + (IF EndsCr(rest) THEN 1 ELSE 0)
      /\ here.crlf \in Nat /\ here.lf \in Nat /\ here.cr \in Nat
  <2> HIDE DEF rest
  <2> QED BY <1>1, HeldTally
<1>3. CountChunk(c, chunk) =
        [crlf |-> c.crlf + here.crlf + (IF joined THEN 1 ELSE 0),
         lf |-> c.lf + here.lf,
         cr |-> c.cr + here.cr + (IF c.pending /\ ~joined THEN 1 ELSE 0),
         pending |-> held]
  BY DEF CountChunk
<1> HIDE DEF here
<1>4. CASE joined
  <2> DEFINE t == Append(s, "lf")
             w == s \o chunk
  <2>1. Joins(s, "lf") /\ EndsCr(s) /\ "lf" \in Byte
    BY <1>0, <1>4 DEF Joins, EndsCr, Byte
  <2>2. t \in Seq(Byte) /\ ~EndsCr(t)
    BY <2>1, AppendProperties DEF EndsCr
  <2>3. /\ Tally(t).crlf = Tally(s).crlf + 1 /\ Tally(t).lf = Tally(s).lf
        /\ Tally(t).cr = Tally(s).cr - 1
    BY <2>1, TallyAppend
  <2>4. w = t \o rest
    <3>1. rest = Tail(chunk) /\ chunk[1] = "lf"
      BY <1>1, <1>4
    <3>2. chunk = <<"lf">> \o Tail(chunk)
      BY <1>1, <3>1, <2>1
    <3>3. t = s \o <<"lf">> /\ <<"lf">> \in Seq(Byte)
      BY <2>1, AppendIsConcat
    <3>4. s \o (<<"lf">> \o Tail(chunk)) = (s \o <<"lf">>) \o Tail(chunk)
      BY <1>1, <3>3, ConcatAssociative
    <3> QED BY <3>1, <3>2, <3>3, <3>4
  <2> HIDE DEF t, rest, w
  <2>5. Adds(t, rest)
    BY <1>1, <2>2, TallyConcat
  <2>6. EndsCr(w) <=> EndsCr(rest)
    <3>1. CASE rest = <<>>
      BY <2>2, <2>4, <3>1, ConcatEmptySeq DEF EndsCr
    <3>2. CASE rest # <<>>
      <4>1. Len(rest) \in Nat \ {0} /\ Len(t) \in Nat
        BY <1>1, <2>2, <3>2, EmptySeq, LenProperties
      <4>2. Len(t \o rest) = Len(t) + Len(rest)
            /\ (t \o rest)[Len(t) + Len(rest)] = rest[Len(rest)]
        BY <1>1, <2>2, <4>1, ConcatProperties
      <4>3. t \o rest # <<>>
        BY <4>1, <4>2
      <4> QED BY <2>4, <3>2, <4>2, <4>3 DEF EndsCr
    <3> QED BY <3>1, <3>2
  <2>7. /\ Tally(w).crlf = Tally(t).crlf + Tally(rest).crlf
        /\ Tally(w).lf = Tally(t).lf + Tally(rest).lf
        /\ Tally(w).cr = Tally(t).cr + Tally(rest).cr
    BY <2>4, <2>5 DEF Adds
  <2>8. /\ Tally(w).crlf = c.crlf + here.crlf + 1
        /\ Tally(w).lf = c.lf + here.lf
        /\ Tally(w).cr - (IF EndsCr(w) THEN 1 ELSE 0) = c.cr + here.cr + 0
    <3>1. Tally(w).crlf = c.crlf + here.crlf + 1
      BY <1>0, <1>2, <2>3, <2>7, SMTT(20)
    <3>2. Tally(w).lf = c.lf + here.lf
      BY <1>0, <1>2, <2>3, <2>7
    <3>3. c.cr = Tally(s).cr - 1
      BY <1>0, <2>1
    <3>4. Tally(w).cr = c.cr + here.cr + (IF EndsCr(rest) THEN 1 ELSE 0)
      BY <1>0, <1>2, <2>3, <2>7, <3>3
    <3> DEFINE x == IF EndsCr(rest) THEN 1 ELSE 0
    <3>5. x \in Nat /\ (IF EndsCr(w) THEN 1 ELSE 0) = x
      BY <2>6
    <3>6. c.cr \in Int /\ here.cr \in Nat /\ Tally(w).cr = c.cr + here.cr + x
      BY <1>0, <1>2, <3>3, <3>4
    <3> HIDE DEF x
    <3>7. Tally(w).cr - x = c.cr + here.cr + 0
      BY <3>5, <3>6
    <3> QED BY <3>1, <3>2, <3>5, <3>7
  <2>9. held = EndsCr(w) /\ EndsCr(w) \in BOOLEAN
    BY <1>2, <2>6 DEF EndsCr
  <2>10. CountChunk(c, chunk) =
        [crlf |-> c.crlf + here.crlf + 1, lf |-> c.lf + here.lf,
         cr |-> c.cr + here.cr + 0, pending |-> EndsCr(w)]
    BY <1>3, <1>4, <2>9
  <2> QED BY <2>8, <2>10 DEF Represents, w
<1>5. CASE ~joined
  <2> DEFINE w == s \o chunk
  <2>1. rest = chunk /\ ~(EndsCr(s) /\ chunk # <<>> /\ chunk[1] = "lf")
    BY <1>0, <1>1, <1>5
  <2>2. Adds(s, chunk)
    BY <2>1, TallyConcat
  <2> HIDE DEF rest, w
  <2>3. EndsCr(w) <=> EndsCr(chunk)
    <3>1. Len(chunk) \in Nat \ {0} /\ Len(s) \in Nat
      BY EmptySeq, LenProperties
    <3>2. Len(s \o chunk) = Len(s) + Len(chunk)
          /\ (s \o chunk)[Len(s) + Len(chunk)] = chunk[Len(chunk)]
      BY <3>1, ConcatProperties
    <3>3. s \o chunk # <<>>
      BY <3>1, <3>2
    <3> QED BY <3>2, <3>3 DEF EndsCr, w
  <2>4. /\ Tally(w).crlf = Tally(s).crlf + Tally(chunk).crlf
        /\ Tally(w).lf = Tally(s).lf + Tally(chunk).lf
        /\ Tally(w).cr = Tally(s).cr + Tally(chunk).cr
    BY <2>2 DEF Adds, w
  <2>5. /\ Tally(w).crlf = c.crlf + here.crlf + 0
        /\ Tally(w).lf = c.lf + here.lf
        /\ Tally(w).cr - (IF EndsCr(w) THEN 1 ELSE 0)
             = c.cr + here.cr + (IF EndsCr(s) THEN 1 ELSE 0)
    BY <1>0, <1>2, <2>1, <2>3, <2>4, SMTT(20)
  <2>6. held = EndsCr(w)
    BY <1>2, <2>1, <2>3 DEF EndsCr
  <2>7. CountChunk(c, chunk) =
        [crlf |-> c.crlf + here.crlf + 0, lf |-> c.lf + here.lf,
         cr |-> c.cr + here.cr + (IF EndsCr(s) THEN 1 ELSE 0), pending |-> EndsCr(w)]
    BY <1>0, <1>3, <1>5, <2>6
  <2> QED BY <2>5, <2>7 DEF Represents, w
<1> QED BY <1>4, <1>5

\* No chunk yet, and all of them.
LEMMA CountsStart == Represents(Zero, <<>>)
<1>1. EndsCr(<<>>) = FALSE
  BY DEF EndsCr
<1>2. Tally(<<>>).crlf = 0 /\ Tally(<<>>).lf = 0 /\ Tally(<<>>).cr = 0
  BY TallyEmpty
<1>3. (IF EndsCr(<<>>) THEN 1 ELSE 0) = 0
  BY <1>1
<1>4. Tally(<<>>).cr - (IF EndsCr(<<>>) THEN 1 ELSE 0) = 0
  BY <1>2, <1>3
<1> QED BY <1>1, <1>2, <1>4 DEF Represents, Zero

LEMMA CountsEnd ==
  ASSUME NEW c, NEW s \in Seq(Byte), Represents(c, s)
  PROVE  Settle(c) = Tally(s)
<1>1. Tally(s).cr \in Nat /\ c.cr = Tally(s).cr - (IF EndsCr(s) THEN 1 ELSE 0)
      /\ c.crlf = Tally(s).crlf /\ c.lf = Tally(s).lf /\ c.pending = EndsCr(s)
  BY TallyTypes DEF Represents
<1>2. Tally(s) = [crlf |-> Tally(s).crlf, lf |-> Tally(s).lf, cr |-> Tally(s).cr]
  BY DEF Tally
<1>3. c.cr + (IF c.pending THEN 1 ELSE 0) = Tally(s).cr
  BY <1>1
<1> QED BY <1>1, <1>2, <1>3 DEF Settle

-----------------------------------------------------------------------------
(* lineendings: what it reports of a file.                                 *)

Counted == [crlf : Nat, lf : Nat, cr : Nat]

\* What the open file holds, what has been counted of it, and the last report.
ScanInv ==
  /\ handle \in [content : Seq(Byte), rest : Seq(Byte)]
  /\ reports \in Seq(Counted)
  /\ phase = "running" /\ cmd.name # "lineendings" => reports = <<>>
  /\ phase = "running" /\ cmd.name = "lineendings" /\ begun =>
       \E s \in Seq(Byte) : handle.content = s \o handle.rest /\ Represents(counts, s)
  /\ phase = "running" /\ ~begun /\ reports # <<>> /\ Last(outcomes) = "ok" =>
       Last(reports) = Tally(handle.content)

LEMMA ScanStarts == CommandInit => ScanInv
BY DEF CommandInit, ScanInv, NoHandle

\* The last element of what was appended to.
LEMMA LastAppended ==
  ASSUME NEW S, NEW s \in Seq(S), NEW e \in S
  PROVE  Last(Append(s, e)) = e
BY AppendProperties DEF Last

\* Steps that leave the scan alone: it goes on, or the command ends.
LEMMA ScanQuiet ==
  ASSUME ScanInv, UNCHANGED <<handle, counts, reports, session, given>>,
         \/ UNCHANGED <<phase, begun, outcomes>>
         \/ phase' = "prompt"
         \/ phase = "running" /\ UNCHANGED phase /\ cmd.name # "lineendings"
  PROVE  ScanInv'
<1>1. /\ UNCHANGED <<handle, counts, reports>> /\ cmd' = cmd
      /\ handle \in [content : Seq(Byte), rest : Seq(Byte)] /\ reports \in Seq(Counted)
  BY DEF ScanInv, cmd
<1>2. CASE UNCHANGED <<phase, begun, outcomes>>
  BY <1>1, <1>2 DEF ScanInv
<1>3. CASE phase' = "prompt"
  BY <1>1, <1>3 DEF ScanInv
<1>4. CASE phase = "running" /\ UNCHANGED phase /\ cmd.name # "lineendings"
  <2>1. reports' = <<>>
    BY <1>1, <1>4 DEF ScanInv
  <2> QED BY <1>1, <1>4, <2>1 DEF ScanInv
<1> QED BY <1>2, <1>3, <1>4

LEMMA ScanKept ==
  ASSUME IInv, CommandTyped, ScanInv, [CommandNext]_allVars
  PROVE  ScanInv'
<1>0. ASSUME NEW names, Working(names), "lineendings" \notin names
      PROVE  phase = "running" /\ cmd.name # "lineendings"
  BY <1>0 DEF Working
<1>1. CASE UNCHANGED allVars
  BY <1>1, ScanQuiet DEF allVars, commandVars
<1>2. CASE Give
  BY <1>2 DEF Give, ScanInv
<1>3. CASE Converting
  <2>1. CASE (eol_cmd \/ convert_cmd \/ pretty_cmd \/ reencode_cmd)
    <3>1. phase = "running" /\ cmd.name # "lineendings"
      BY <2>1, <1>0 DEF eol_cmd, convert_cmd, pretty_cmd, reencode_cmd
    <3>2. UNCHANGED <<handle, counts, reports, session, given, phase>>
      BY <2>1 DEF eol_cmd, convert_cmd, pretty_cmd, reencode_cmd, BeginWrite
    <3> QED BY <3>1, <3>2, ScanQuiet
  <2>2. CASE Write
    BY <2>2, ScanQuiet DEF Write, commandVars
  <2>3. CASE EndWrite
    <3>1. phase = "running" /\ cmd.name # "lineendings"
      BY <2>3, <1>0 DEF EndWrite, Converters
    <3> QED BY <2>3, <3>1, ScanQuiet DEF EndWrite, Keep
  <2>4. CASE WriteRaises
    BY <2>4, ScanQuiet DEF WriteRaises, Break
  <2> QED BY <1>3, <2>1, <2>2, <2>3, <2>4 DEF Converting
<1>4. CASE validate_cmd \/ stat_cmd \/ hash_cmd \/ encoding_cmd \/ identify_cmd \/ diff_cmd
  <2>1. phase = "running" /\ cmd.name # "lineendings"
    BY <1>4, <1>0 DEF validate_cmd, stat_cmd, hash_cmd, encoding_cmd, identify_cmd, diff_cmd
  <2>2. UNCHANGED <<handle, counts, reports, session, given, phase>>
    BY <1>4 DEF validate_cmd, stat_cmd, hash_cmd, encoding_cmd, identify_cmd, diff_cmd, Keep
  <2> QED BY <2>1, <2>2, ScanQuiet
<1>5. CASE LookRaises \/ ScanRaises \/ SearchRaises \/ Interrupt
  BY <1>5, ScanQuiet DEF LookRaises, ScanRaises, SearchRaises, Interrupt, Break
<1>6. CASE OpenScan
  <2>1. /\ ReadsAs(target) \in Seq(Byte)
        /\ handle' = [content |-> ReadsAs(target), rest |-> ReadsAs(target)]
        /\ counts' = Zero /\ begun' /\ UNCHANGED <<reports, session, given, phase>>
        /\ cmd.name = "lineendings"
    BY <1>6, ByteAssumption DEF OpenScan, Working
  <2>2. handle'.content = <<>> \o handle'.rest /\ <<>> \in Seq(Byte)
    BY <2>1, ConcatEmptySeq
  <2>3. Represents(counts', <<>>)
    BY <2>1, CountsStart
  <2>4. cmd' = cmd
    BY <2>1 DEF cmd
  <2> QED BY <2>1, <2>2, <2>3, <2>4 DEF ScanInv
<1>7. CASE OpenScanFails
  <2>1. PICK o \in Look(target) \ {"ok"} : Keep(o)
    BY <1>7 DEF OpenScanFails
  <2>2. /\ outcomes' = Append(outcomes, o) /\ begun' = FALSE /\ o # "ok"
        /\ UNCHANGED <<handle, counts, reports, session, given, phase>>
    BY <1>7, <2>1 DEF OpenScanFails, Keep
  <2>3. Last(outcomes') # "ok"
    <3>1. outcomes \in Seq(Outcome) /\ o \in Outcome
      BY LookTypes DEF CommandTyped, Outcome
    <3> QED BY <2>2, <3>1, LastAppended
  <2>4. cmd' = cmd
    BY <2>2 DEF cmd
  <2> QED BY <2>2, <2>3, <2>4 DEF ScanInv
<1>8. CASE ReadChunk
  <2>1. PICK n \in 1 .. MaxChunk :
          /\ n <= Len(handle.rest)
          /\ counts' = CountChunk(counts, SubSeq(handle.rest, 1, n))
          /\ handle' = [handle EXCEPT !.rest = SubSeq(@, n + 1, Len(@))]
    BY <1>8 DEF ReadChunk
  <2>2. /\ begun /\ phase = "running" /\ cmd.name = "lineendings"
        /\ UNCHANGED <<reports, session, given, phase, begun, outcomes>>
    BY <1>8 DEF ReadChunk, Working
  <2>3. cmd' = cmd
    BY <2>2 DEF cmd
  <2>4. PICK s \in Seq(Byte) : handle.content = s \o handle.rest /\ Represents(counts, s)
    BY <2>2 DEF ScanInv
  <2> DEFINE r == handle.rest
             chunk == SubSeq(r, 1, n)
             left == SubSeq(r, n + 1, Len(r))
  <2>5. r \in Seq(Byte) /\ n \in Nat /\ n # 0 /\ Len(r) \in Nat
    BY <2>2, JobAssumption, LenProperties DEF ScanInv
  <2>6. chunk \in Seq(Byte) /\ chunk # <<>> /\ left \in Seq(Byte)
    <3> HIDE DEF r
    <3>1. \A i \in 1 .. Len(r) : r[i] \in Byte
      BY <2>5, ElementOfSeq
    <3>2. chunk \in Seq(Byte) /\ Len(chunk) = n
      BY <2>1, <2>5, <3>1, SubSeqProperties DEF r
    <3>3. left \in Seq(Byte)
      BY <2>5, <3>1, SubSeqProperties
    <3> QED BY <2>5, <3>2, <3>3, EmptySeq
  <2>7. chunk \o left = r
    <3> HIDE DEF r
    <3>1. SubSeq(r, 1, n) \o SubSeq(r, n + 1, Len(r)) = SubSeq(r, 1, Len(r))
      <4>1. 1 \in 1 .. Len(r) + 1 /\ n \in 1 - 1 .. Len(r) /\ Len(r) \in n .. Len(r)
        BY <2>1, <2>5 DEF r
      <4> QED BY <2>5, <4>1, ConcatAdjacentSubSeq
    <3> QED BY <2>5, <3>1, SubSeqFull
  <2>8. handle'.content = handle.content /\ handle'.rest = left /\ counts' = CountChunk(counts, chunk)
    <3>1. handle' = [handle EXCEPT !.rest = left]
      BY <2>1
    <3>2. handle \in [content : Seq(Byte), rest : Seq(Byte)]
      BY DEF ScanInv
    <3>3. counts' = CountChunk(counts, chunk)
      BY <2>1
    <3> HIDE DEF left
    <3> QED BY <3>1, <3>2, <3>3
  <2> HIDE DEF chunk, left, r
  <2>9. handle.content = (s \o chunk) \o left /\ s \o chunk \in Seq(Byte)
    <3>1. handle.content = s \o r
      BY <2>4 DEF r
    <3>2. s \o (chunk \o left) = (s \o chunk) \o left
      BY <2>6, ConcatAssociative
    <3> QED BY <2>6, <2>7, <3>1, <3>2, ConcatProperties
  <2>10. Represents(counts', s \o chunk)
    BY <2>4, <2>6, <2>8, ChunkCounted
  <2>11. handle' \in [content : Seq(Byte), rest : Seq(Byte)]
    <3>1. handle' = [handle EXCEPT !.rest = left]
      BY <2>1 DEF left, r
    <3> QED BY <2>6, <3>1 DEF ScanInv
  <2> QED BY <2>2, <2>3, <2>8, <2>9, <2>10, <2>11 DEF ScanInv
<1>9. CASE EndScan
  <2>1. /\ begun /\ phase = "running" /\ cmd.name = "lineendings" /\ handle.rest = <<>>
        /\ reports' = Append(reports, Settle(counts))
        /\ outcomes' = Append(outcomes, "ok")
        /\ begun' = FALSE /\ UNCHANGED <<handle, counts, session, given, phase>>
    BY <1>9 DEF EndScan, Working, Keep
  <2>2. cmd' = cmd
    BY <2>1 DEF cmd
  <2>3. PICK s \in Seq(Byte) : handle.content = s \o handle.rest /\ Represents(counts, s)
    BY <2>1 DEF ScanInv
  <2>4. handle.content = s
    BY <2>1, <2>3, ConcatEmptySeq
  <2>5. Settle(counts) = Tally(handle.content) /\ Settle(counts) \in Counted
    <3>1. Settle(counts) = Tally(s)
      BY <2>3, CountsEnd
    <3>2. Tally(s) = [crlf |-> Tally(s).crlf, lf |-> Tally(s).lf, cr |-> Tally(s).cr]
      BY DEF Tally
    <3> QED BY <2>4, <3>1, <3>2, TallyTypes DEF Counted
  <2>6. reports' \in Seq(Counted) /\ Last(reports') = Tally(handle.content)
    BY <2>1, <2>5, LastAppended, AppendProperties DEF ScanInv
  <2> QED BY <2>1, <2>2, <2>6 DEF ScanInv
<1>10. CASE Search \/ Others
  BY <1>10, ScanQuiet DEF Search, Others, commandVars
<1>11. CASE EndSearch \/ SearchFails
  <2>1. phase = "running" /\ cmd.name # "lineendings"
    BY <1>11 DEF EndSearch, SearchFails, Searching
  <2>2. UNCHANGED <<handle, counts, reports, session, given, phase>>
    BY <1>11 DEF EndSearch, SearchFails, Keep
  <2> QED BY <2>1, <2>2, ScanQuiet
<1>12. CASE Exit
  BY <1>12, ScanQuiet DEF Exit
<1> QED BY <1>1, <1>2, <1>3, <1>4, <1>5, <1>6, <1>7, <1>8, <1>9, <1>10, <1>11, <1>12
        DEF CommandNext, Progress, Diagnosing, Finding

\* LineEndingsTrue, FR-001 and FR-011, for contents of any length, cut anywhere.
THEOREM LineEnds == CommandSpec => []LineEndingsTrue
<1>1. CommandSpec => []ScanInv
  BY ScanStarts, ScanKept, SessionTypes, PTL DEF CommandSpec
<1>2. ScanInv => LineEndingsTrue
  BY Normalizes DEF ScanInv, LineEndingsTrue
<1> QED BY <1>1, <1>2, PTL

-----------------------------------------------------------------------------
(* One job at a time: what the write commands of a session do to the       *)
(* directory.                                                              *)

\* Only the current target of a write command is being worked on.
Sole == \A j \in Job : pc[j] \in Running => Working(Converters) /\ begun /\ j = turn

\* No job is under way.
Quiet == \A j \in Job : pc[j] \notin Running

\* A finished job has said something.
Spoken == \A j \in Job : pc[j] \in {"done", "unlink"} => outcome[j] # "none"

\* The current job takes a step, or another program writes to one of its files.
JobMoves == Working(Converters) /\ begun /\ Step(turn) /\ UNCHANGED <<searchVars, commandVars>>
OtherMoves == \E p \in session.edited : Edit(p) /\ UNCHANGED commandVars

\* What a step of a job leaves alone.
LEMMA StepFrame ==
  ASSUME TypeOK, NEW j \in Job, Step(j) \/ Kill(j) \/ Restart(j)
  PROVE  /\ UNCHANGED <<original, req>>
         /\ \A k \in Job \ {j} : UNCHANGED <<pc[k], outcome[k], saved[k]>>
BY DEF Step, Validate, ReadFails, ReadSource, CheckBackup, BeginCopy, CopyRefused,
       FinishCopy, CopyFails, MakeTemp, WriteTemp, Replace, ReplaceFails, LinkDest,
       LinkFails, RemoveTemp, Kill, Restart, Finish, Goto, TypeOK

\* The directory changes only while the job at hand takes a step or another
\* program writes; after every other step nothing is under way.
LEMMA SoleStep ==
  ASSUME IInv, CommandTyped, Sole, [CommandNext]_allVars
  PROVE  /\ Sole'
         /\ \/ JobMoves
            \/ OtherMoves
            \/ UNCHANGED <<vars, commandVars>>
            \/ Quiet' /\ UNCHANGED <<dir, link, session, req, original>>
<1>. USE DEF IInv
<1>0. ASSUME Quiet' PROVE Sole'
  BY <1>0 DEF Quiet, Sole
<1>a. ASSUME Quiet, UNCHANGED <<vars, session>>
      PROVE  Quiet' /\ UNCHANGED <<dir, link, session, req, original>>
  BY <1>a DEF Quiet, vars
<1>b. ASSUME UNCHANGED <<vars, commandVars>> PROVE Sole'
  BY <1>b DEF Sole, vars, commandVars, Working, cmd, turn
<1>c. ASSUME ~Working(Converters) \/ ~begun \/ Len(outcomes) >= Len(cmd.targets) PROVE Quiet
  BY <1>c DEF Sole, Quiet, Working, turn
<1>d. ASSUME turn \in Job, Kill(turn) \/ Restart(turn), UNCHANGED session
      PROVE  Quiet' /\ UNCHANGED <<dir, link, session, req, original>>
  <2>1. UNCHANGED <<dir, link, session, req, original>>
    BY <1>d DEF Kill, Restart
  <2>2. pc'[turn] \in {"idle", "killed"} /\ \A k \in Job \ {turn} : pc'[k] = pc[k]
    BY <1>d DEF Kill, Restart, TypeOK
  <2>3. Quiet'
    BY <2>2 DEF Quiet, Sole, Running
  <2> QED BY <2>1, <2>3
<1>1. CASE UNCHANGED allVars
  BY <1>1, <1>b DEF allVars
<1>2. CASE Give
  <2>1. Quiet /\ UNCHANGED <<vars, session>>
    BY <1>2, <1>c DEF Give, Working
  <2> QED BY <2>1, <1>a, <1>0
<1>3. CASE Converting
  <2>1. CASE (eol_cmd \/ convert_cmd \/ pretty_cmd \/ reencode_cmd)
    <3>1. turn \in Job /\ ~begun /\ UNCHANGED session /\ (UNCHANGED vars \/ Restart(turn))
      BY <2>1, TurnFacts DEF eol_cmd, convert_cmd, pretty_cmd, reencode_cmd, BeginWrite
    <3> QED BY <3>1, <1>a, <1>c, <1>d, <1>0
  <2>2. CASE Write
    <3>1. JobMoves /\ turn \in Job
      BY <2>2, TurnFacts DEF Write, JobMoves
    <3>2. \A k \in Job \ {turn} : pc'[k] = pc[k]
      BY <3>1, StepFrame DEF JobMoves
    <3>3. UNCHANGED <<turn, Working(Converters), begun>>
      BY <3>1 DEF JobMoves, commandVars, turn, Working, cmd
    <3>4. Sole'
      BY <3>1, <3>2, <3>3 DEF Sole, JobMoves
    <3> QED BY <3>1, <3>4
  <2>3. CASE EndWrite
    <3>1. turn \in Job /\ pc[turn] = "done" /\ UNCHANGED <<vars, session>>
      BY <2>3, TurnFacts DEF EndWrite, Keep
    <3>2. Quiet
      BY <3>1 DEF Sole, Quiet, Running
    <3> QED BY <3>1, <3>2, <1>a, <1>0
  <2>4. CASE WriteRaises
    <3>1. turn \in Job /\ Kill(turn) /\ UNCHANGED session
      BY <2>4, TurnFacts DEF WriteRaises, Break
    <3> QED BY <3>1, <1>d, <1>0
  <2> QED BY <1>3, <2>1, <2>2, <2>3, <2>4 DEF Converting
<1>4. CASE Diagnosing
  <2>1. UNCHANGED <<vars, session>>
    BY <1>4 DEF Diagnosing, validate_cmd, stat_cmd, hash_cmd, encoding_cmd, identify_cmd,
         diff_cmd, LookRaises, OpenScan, OpenScanFails, ReadChunk, EndScan, ScanRaises, Keep, Break
  <2>2. cmd.name \in Diagnostics \cup {"diff"}
    BY <1>4 DEF Diagnosing, validate_cmd, stat_cmd, hash_cmd, encoding_cmd, identify_cmd,
         diff_cmd, LookRaises, OpenScan, OpenScanFails, ReadChunk, EndScan, ScanRaises,
         Working, Diagnostics
  <2>3. Quiet
    BY <2>2, <1>c DEF Working, Diagnostics, Converters
  <2> QED BY <2>1, <2>3, <1>a, <1>0
<1>5. CASE Search
  BY <1>5, <1>b DEF Search
<1>6. CASE EndSearch \/ SearchFails \/ SearchRaises
  <2>1. UNCHANGED <<vars, session>> /\ cmd.name = "duplicates"
    BY <1>6 DEF EndSearch, SearchFails, SearchRaises, Searching, Keep, Break
  <2>2. Quiet
    BY <2>1, <1>c DEF Working, Converters
  <2> QED BY <2>1, <2>2, <1>a, <1>0
<1>7. CASE Exit
  <2>1. UNCHANGED <<vars, session>> /\ Len(outcomes) = Targets
    BY <1>7 DEF Exit
  <2>2. Quiet
    <3>1. CASE cmd.name = "duplicates"
      BY <3>1, <1>c DEF Working, Converters
    <3>2. CASE cmd.name # "duplicates" /\ Working(Converters)
      <4>1. Len(cmd.targets) \in Nat /\ Len(outcomes) = Len(cmd.targets)
        BY <2>1, <3>2, TurnFacts, LenProperties DEF Targets
      <4> QED BY <4>1, <1>c
    <3> QED BY <3>1, <3>2, <1>c
  <2> QED BY <2>1, <2>2, <1>a, <1>0
<1>8. CASE Interrupt
  <2>1. UNCHANGED session
    BY <1>8 DEF Interrupt, Break
  <2>2. CASE cmd.name \in Converters /\ turn \in Job /\ pc[turn] \in Running
    BY <1>8, <2>1, <2>2, <1>d, <1>0 DEF Interrupt
  <2>3. CASE ~(cmd.name \in Converters /\ turn \in Job /\ pc[turn] \in Running)
    <3>1. Quiet
      BY <2>3 DEF Sole, Quiet, Working
    <3> QED BY <1>8, <2>1, <2>3, <3>1, <1>a, <1>0 DEF Interrupt
  <2> QED BY <2>2, <2>3
<1>9. CASE Others
  <2>1. OtherMoves /\ UNCHANGED pc /\ UNCHANGED commandVars
    BY <1>9 DEF Others, OtherMoves, Edit
  <2>2. Sole'
    BY <2>1 DEF Sole, commandVars, Working, cmd, turn
  <2> QED BY <2>1, <2>2
<1> QED BY <1>1, <1>2, <1>3, <1>4, <1>5, <1>6, <1>7, <1>8, <1>9
        DEF CommandNext, Progress, Finding

\* A job says something before it is done.
LEMMA SpokenStep ==
  ASSUME IInv, Spoken, [Next]_vars
  PROVE  Spoken'
<1>. USE DEF IInv
<1>1. ASSUME NEW j \in Job, Step(j) \/ Kill(j) \/ Restart(j) PROVE Spoken'
  <2>1. pc'[j] \in {"done", "unlink"} => outcome'[j] # "none"
    <3>1. CASE RemoveTemp(j)
      BY <3>1 DEF RemoveTemp, Goto, TypeOK, Spoken
    <3>2. CASE ~RemoveTemp(j)
      BY <1>1, <3>2
         DEF Step, Validate, ReadFails, ReadSource, CheckBackup, BeginCopy, CopyRefused,
             FinishCopy, CopyFails, MakeTemp, WriteTemp, Replace, ReplaceFails, LinkDest,
             LinkFails, Kill, Restart, Finish, Goto, TypeOK
    <3> QED BY <3>1, <3>2
  <2>2. \A k \in Job \ {j} : UNCHANGED <<pc[k], outcome[k]>>
    BY <1>1, StepFrame
  <2> QED BY <2>1, <2>2 DEF Spoken
<1>2. CASE \E p \in Foreign : Edit(p)
  BY <1>2 DEF Edit, Spoken
<1>3. CASE UNCHANGED vars
  BY <1>3 DEF vars, Spoken
<1> QED BY <1>1, <1>2, <1>3 DEF Next

-----------------------------------------------------------------------------
(* Backups in a session: what targets hold at first survives.              *)

\* Without --force a copy begins where there is no file, and the backup is the
\* source from when the copy ends until the source is replaced, if no other
\* program writes to them.
Copied(j) ==
  ~req[j].force /\ BakOf(j) \notin session.edited =>
    /\ pc[j] = "copy" => dir[BakOf(j)] = Absent
    /\ pc[j] = "copying" => dir[BakOf(j)] = Torn /\ j \notin orphan
    /\ Own(req[j].source) /\ req[j].backup =>
         /\ pc[j] = "copying" =>
              saved[j] = ReadsAs(req[j].source) /\ Follow(req[j].source) # BakOf(j)
         /\ pc[j] \in {"mktemp", "writing", "replace"} =>
              dir[BakOf(j)] = ReadsAs(req[j].source)

CopyInv == \A j \in Job : Copied(j)

\* A file that takes another name does not change what a path reads as.
LEMMA Elsewhere ==
  ASSUME TypeOK, LinkInv, NEW q \in Path, NEW c, Install(q, c),
         NEW p \in Path, q \notin {p, Link[p]}
  PROVE  UNCHANGED <<link[p], Follow(p), ReadsAs(p)>>
<1>1. link' = [link EXCEPT ![q] = NoPath] /\ dir' = [dir EXCEPT ![q] = c]
  BY DEF Install
<1>2. link'[p] = link[p]
  BY <1>1 DEF TypeOK
<1>3. Follow(p) \in Path /\ Follow(p) # q
  BY ReadTypes DEF Follow, LinkInv
<1>4. dir'[Follow(p)] = dir[Follow(p)]
  BY <1>1, <1>3 DEF TypeOK
<1>5. UNCHANGED Follow(p)
  BY <1>2 DEF Follow
<1> QED BY <1>2, <1>4, <1>5 DEF ReadsAs

\* The jobs' own steps.
LEMMA CopiedOwn ==
  ASSUME IInv, NEW j \in Job, Copied(j), Step(j), UNCHANGED session
  PROVE  Copied(j)'
<1>. USE DEF IInv
<1>1. UNCHANGED <<req, BakOf(j)>>
  BY StepFrame DEF BakOf
<1>2. /\ BakOf(j) \in Path /\ req[j].source \in Path /\ Follow(req[j].source) \in Path
      /\ Prepared(j)
  BY BakTypes, ReadTypes
<1> SUFFICES ASSUME ~req[j].force, BakOf(j) \notin session.edited
             PROVE  /\ pc'[j] = "copy" => dir'[BakOf(j)] = Absent
                    /\ pc'[j] = "copying" => dir'[BakOf(j)] = Torn /\ j \notin orphan'
                    /\ Own(req[j].source) /\ req[j].backup =>
                         /\ pc'[j] = "copying" =>
                              /\ saved'[j] = ReadsAs(req[j].source)'
                              /\ Follow(req[j].source)' # BakOf(j)
                         /\ pc'[j] \in {"mktemp", "writing", "replace"} =>
                              dir'[BakOf(j)] = ReadsAs(req[j].source)'
  BY <1>1 DEF Copied, Own
<1>3. CASE pc'[j] \in {"read", "check_bak", "link", "unlink", "done"}
  BY <1>3
<1>4. CASE CheckBackup(j)
  <2>1. UNCHANGED dir /\ pc'[j] \in {"done", "copy"}
        /\ (pc'[j] = "copy" => dir[BakOf(j)] = Absent)
    BY <1>4 DEF CheckBackup, Finish, Goto, TypeOK
  <2> QED BY <2>1
<1>5. CASE BeginCopy(j)
  <2>1. /\ pc'[j] = "copying" /\ UNCHANGED link
        /\ saved'[j] = ReadsAs(req[j].source) /\ j \notin orphan'
        /\ dir' = [dir EXCEPT ![BakOf(j)] = Torn]
        /\ Follow(req[j].source) # BakOf(j)
    BY <1>5 DEF BeginCopy, Goto, TypeOK
  <2>2. UNCHANGED <<Follow(req[j].source), ReadsAs(req[j].source)>> /\ dir'[BakOf(j)] = Torn
    BY <1>1, <1>2, <2>1 DEF Follow, ReadsAs, TypeOK
  <2> QED BY <2>1, <2>2
<1>6. CASE FinishCopy(j)
  <2>1. pc[j] = "copying" /\ pc'[j] = "mktemp" /\ UNCHANGED link /\ CopyLands(j)
    BY <1>6 DEF FinishCopy, Goto, TypeOK
  <2>2. dir[BakOf(j)] = Torn /\ j \notin orphan
    BY <2>1 DEF Copied
  <2>3. dir' = [dir EXCEPT ![BakOf(j)] = saved[j]]
    BY <2>1, <2>2 DEF CopyLands
  <2>4. ASSUME Own(req[j].source), req[j].backup
        PROVE  dir'[BakOf(j)] = ReadsAs(req[j].source)'
    <3>1. saved[j] = ReadsAs(req[j].source) /\ Follow(req[j].source) # BakOf(j)
      BY <2>1, <2>4 DEF Copied
    <3>2. UNCHANGED ReadsAs(req[j].source)
      BY <1>1, <1>2, <2>1, <2>3, <3>1 DEF Follow, ReadsAs, TypeOK
    <3> QED BY <1>2, <2>3, <3>1, <3>2 DEF TypeOK
  <2> QED BY <2>1, <2>4
<1>7. CASE MakeTemp(j) \/ WriteTemp(j)
  <2>1. /\ UNCHANGED <<dir, link>> /\ pc[j] \in {"mktemp", "writing"}
        /\ pc'[j] \in {"writing", "replace", "link", "done"}
    BY <1>7 DEF MakeTemp, WriteTemp, Finish, Goto, TypeOK
  <2>2. UNCHANGED ReadsAs(req[j].source)
    BY <1>1, <2>1 DEF ReadsAs, Follow
  <2> QED BY <2>1, <2>2 DEF Copied
<1>8. CASE ReadSource(j)
  <2>1. pc'[j] \in {"done", "check_bak", "mktemp"} /\ (pc'[j] = "mktemp" => ~req[j].backup)
    BY <1>8 DEF ReadSource, Finish, Goto, TypeOK
  <2> QED BY <2>1
<1>9. CASE Validate(j) \/ ReadFails(j) \/ CopyRefused(j) \/ CopyFails(j) \/ Replace(j)
             \/ ReplaceFails(j) \/ LinkDest(j) \/ LinkFails(j) \/ RemoveTemp(j)
  <2>1. pc'[j] \in {"read", "unlink", "done"}
    BY <1>9 DEF Validate, ReadFails, CopyRefused, CopyFails, Replace, ReplaceFails, LinkDest,
                LinkFails, RemoveTemp, Finish, Goto, TypeOK
  <2> QED BY <2>1, <1>3
<1> QED BY <1>4, <1>5, <1>6, <1>7, <1>8, <1>9 DEF Step

\* Other programs.
LEMMA CopiedOther ==
  ASSUME IInv, LinkInv, NEW j \in Job, Copied(j), NEW p \in session.edited, p \in Path, Edit(p),
         UNCHANGED session
  PROVE  Copied(j)'
<1>. USE DEF IInv
<1>1. PICK c : Install(p, c)
  BY DEF Edit
<1>2. UNCHANGED <<req, pc, saved, BakOf(j)>>
  BY DEF Edit, BakOf
<1>3. BakOf(j) \in Path /\ req[j].source \in Path
  BY BakTypes
<1> SUFFICES ASSUME ~req[j].force, BakOf(j) \notin session.edited PROVE Copied(j)'
  BY <1>2 DEF Copied
<1>4. dir'[BakOf(j)] = dir[BakOf(j)]
  BY <1>1, <1>3 DEF Install, TypeOK
<1>5. j \in orphan' => j \in orphan
  BY <1>1 DEF Install, CopyingTo
<1>6. Own(req[j].source) => UNCHANGED <<Follow(req[j].source), ReadsAs(req[j].source)>>
  <2>1. Own(req[j].source) => p \notin {req[j].source, Link[req[j].source]}
    BY DEF Own
  <2>2. Own(req[j].source) =>
          Follow(req[j].source)' = Follow(req[j].source)
    BY <1>1, <1>2, <1>3, <2>1, Elsewhere
  <2> QED BY <1>1, <1>2, <1>3, <2>1, Elsewhere
<1> QED BY <1>2, <1>4, <1>5, <1>6 DEF Copied, Own

LEMMA CopiedStep ==
  ASSUME IInv, LinkInv, CommandTyped, Sole, CopyInv, [CommandNext]_allVars
  PROVE  CopyInv'
<1> SUFFICES ASSUME NEW j \in Job PROVE Copied(j)'
  BY DEF CopyInv
<1>1. CASE JobMoves
  <2>1. turn \in Job /\ Step(turn) /\ UNCHANGED session
    BY <1>1, TurnFacts DEF JobMoves, commandVars
  <2>2. CASE j = turn
    BY <2>1, <2>2, CopiedOwn DEF CopyInv
  <2>3. CASE j # turn
    <3>1. pc'[j] \notin Running
      BY <2>1, <2>3, StepFrame DEF Sole, IInv
    <3> QED BY <3>1 DEF Copied, Running, Phase
  <2> QED BY <2>2, <2>3
<1>2. CASE OtherMoves
  <2>1. PICK p \in session.edited : Edit(p)
    BY <1>2 DEF OtherMoves
  <2>2. p \in Path
    BY SessionAssumption, PathAssumption DEF CommandTyped
  <2> QED BY <1>2, <2>1, <2>2, CopiedOther DEF OtherMoves, commandVars, CopyInv
<1>3. CASE UNCHANGED <<vars, commandVars>>
  BY <1>3 DEF vars, commandVars, CopyInv, Copied, BakOf, Own, ReadsAs, Follow
<1>4. CASE Quiet'
  BY <1>4 DEF Quiet, Copied, Running, Phase
<1> QED BY <1>1, <1>2, <1>3, <1>4, SoleStep

\* What one step of a job that rewrites its target does to the directory: a
\* backup is written where there was none, or the target is replaced.
LEMMA JobEffects ==
  ASSUME IInv, NEW j \in Job, Copied(j), Step(j), req[j].inPlace, ~req[j].force
  PROVE  \/ UNCHANGED <<dir, link>> /\ ~(pc'[j] = "done" /\ outcome'[j] = "ok")
         \/ /\ BakOf(j) \in session.edited \/ dir[BakOf(j)] \in {Absent, Torn}
            /\ \E c : dir' = [dir EXCEPT ![BakOf(j)] = c]
            /\ UNCHANGED link
            /\ pc'[j] \in {"copying", "mktemp", "done"}
            /\ pc'[j] = "done" => outcome'[j] # "ok"
         \/ /\ pc[j] = "replace"
            /\ content[j] \in Data
            /\ content[j] = Convert[j][base[j]] /\ base[j] \in Content
            /\ Install(req[j].source, content[j])
<1>. USE DEF IInv
<1>1. Prepared(j) /\ Dest(j) = req[j].source /\ Dest(j) \in Path /\ ~Exclusive(j)
  BY BakTypes DEF Dest, Exclusive
<1>2. CASE BeginCopy(j)
  BY <1>2 DEF BeginCopy, Goto, TypeOK, Copied
<1>3. CASE FinishCopy(j) \/ CopyFails(j)
  <2>1. pc[j] = "copying" /\ UNCHANGED link
        /\ (pc'[j] = "mktemp" \/ (pc'[j] = "done" /\ outcome'[j] = "FilePermissionDenied"))
    BY <1>3 DEF FinishCopy, CopyFails, Goto, Finish, TypeOK
  <2>2. UNCHANGED dir \/ \E c : dir' = [dir EXCEPT ![BakOf(j)] = c]
    BY <1>3 DEF FinishCopy, CopyFails, CopyLands
  <2> QED BY <2>1, <2>2 DEF Copied
<1>4. CASE Replace(j)
  <2>1. pc[j] = "replace" /\ Install(Dest(j), temp[j]) /\ temp[j] = content[j]
    BY <1>1, <1>4 DEF Replace, Prepared
  <2> QED BY <1>1, <2>1 DEF Prepared, Writing
<1>5. CASE LinkDest(j) \/ LinkFails(j) \/ RemoveTemp(j)
  BY <1>1, <1>5 DEF LinkDest, LinkFails, RemoveTemp, Prepared
<1>6. CASE ReadSource(j)
  <2>1. UNCHANGED <<dir, link>> /\ pc'[j] # "done"
    BY <1>1, <1>6, PathAssumption DEF ReadSource, Goto, TypeOK
  <2> QED BY <2>1
<1>7. CASE Validate(j) \/ ReadFails(j) \/ CheckBackup(j) \/ CopyRefused(j) \/ MakeTemp(j)
             \/ WriteTemp(j) \/ ReplaceFails(j)
  BY <1>7 DEF Validate, ReadFails, CheckBackup, CopyRefused, MakeTemp, WriteTemp,
              ReplaceFails, Finish, Goto, TypeOK
<1> QED BY <1>2, <1>3, <1>4, <1>5, <1>6, <1>7 DEF Step

\* The job at hand is asked what the write command says of its target.
LEMMA TurnAsked ==
  ASSUME CommandTyped, Working(Converters)
  PROVE  /\ cmd \in WriteCommands(session)
         /\ turn \in DOMAIN cmd.targets /\ turn \in Job
         /\ req[turn].source = cmd.targets[turn]
         /\ req[turn].inPlace = cmd.inPlace /\ req[turn].backup = cmd.backup
         /\ req[turn].force = cmd.force
         /\ BakOf(turn) = Bak[cmd.targets[turn]]
<1>1. /\ turn \in Job /\ turn \in 1 .. Len(cmd.targets) /\ cmd.targets \in Seq(Source)
      /\ given \in 1 .. Len(session.commands)
  BY TurnFacts
<1>2. turn \in DOMAIN cmd.targets
  BY <1>1, LenProperties
<1>3. given \in DOMAIN session.commands
  BY <1>1, SessionAssumption, LenProperties DEF CommandTyped
<1>4. cmd \in WriteCommands(session)
  BY <1>3 DEF WriteCommands, cmd, Working
<1>5. req[turn] = [source |-> cmd.targets[turn], output |-> cmd.output,
                   inPlace |-> cmd.inPlace, backup |-> cmd.backup, force |-> cmd.force]
  BY <1>1, <1>2, <1>4, AskedOf DEF CommandTyped
<1> QED BY <1>1, <1>2, <1>4, <1>5 DEF BakOf

\* What a target held at first is in that target, untouched, or in a backup.
Held(c, p) ==
  \/ link[p] = Link[p] /\ dir[Follow(p)] = original[p]
  \/ \E k \in DOMAIN c.targets : dir[Bak[c.targets[k]]] = original[p]

Backed(c) == c.inPlace /\ c.backup /\ ~c.force
BaksOf(c) == {Bak[c.targets[i]] : i \in DOMAIN c.targets}

HeldInv ==
  \A c \in WriteCommands(session) : Backed(c) /\ BaksOf(c) \cap session.edited = {} =>
    \A i \in DOMAIN c.targets :
      Own(c.targets[i]) /\ original[c.targets[i]] # Absent => Held(c, c.targets[i])

\* The targets of the write command are paths, and their backups are files.
LEMMA WriterFacts ==
  ASSUME CommandTyped, TypeOK, LinkInv, NEW c \in WriteCommands(session),
         NEW i \in DOMAIN c.targets
  PROVE  /\ c.targets[i] \in Path /\ Bak[c.targets[i]] \in Path
         /\ Link[Bak[c.targets[i]]] = NoPath /\ link[Bak[c.targets[i]]] = NoPath
         /\ Bak[c.targets[i]] \in Backups
<1>1. PICK n \in DOMAIN session.commands : c = session.commands[n]
  BY DEF WriteCommands
<1>2. n \in 1 .. Len(session.commands)
  BY <1>1, SessionAssumption, LenProperties DEF CommandTyped
<1>3. c.targets \in Seq(Source)
  BY <1>1, <1>2, CommandFacts DEF CommandTyped
<1>4. c.targets[i] \in Source
  BY <1>3, ElementOfSeq
<1>5. c.targets[i] \in Path /\ Bak[c.targets[i]] \in Path /\ Bak[c.targets[i]] \in Backups
  BY <1>4, PathAssumption, BakAssumption DEF Backups
<1>6. Link[Bak[c.targets[i]]] = NoPath
  BY <1>5, LinkAssumption
<1> QED BY <1>5, <1>6 DEF LinkInv

\* Nothing is lost when the job at hand takes a step.
LEMMA HeldJob ==
  ASSUME IInv, LinkInv, CommandTyped, CopyInv, JobMoves,
         NEW c \in WriteCommands(session), Backed(c), BaksOf(c) \cap session.edited = {},
         NEW i \in DOMAIN c.targets, Own(c.targets[i]), original[c.targets[i]] # Absent,
         Held(c, c.targets[i])
  PROVE  Held(c, c.targets[i])'
<1>. USE DEF IInv
<1> DEFINE p == c.targets[i]
           j == turn
           t == c.targets[j]
<1>1. /\ cmd = c /\ j \in Job /\ j \in DOMAIN c.targets
      /\ req[j].source = t /\ req[j].inPlace /\ req[j].backup /\ ~req[j].force
      /\ BakOf(j) = Bak[t] /\ Step(j)
  <2>1. cmd = c
    BY TurnAsked, OneWriter DEF JobMoves, CommandTyped
  <2> QED BY <2>1, TurnAsked DEF JobMoves, Backed
<1>2. /\ p \in Path /\ t \in Path /\ Bak[t] \in Path
      /\ Link[Bak[t]] = NoPath /\ link[Bak[t]] = NoPath
      /\ \A k \in DOMAIN c.targets : Bak[c.targets[k]] \in Path
  BY <1>1, WriterFacts
<1>3. Bak[t] \notin session.edited
  BY <1>1 DEF BaksOf
<1>4. UNCHANGED original
  BY <1>1, StepFrame
<1>5. original[p] \in Data /\ original[p] \notin {Absent, Torn}
  BY <1>2, DataAssumption DEF TypeOK
<1>6. Follow(p) \in Path
  BY <1>2, ReadTypes
<1>7. CASE UNCHANGED <<dir, link>>
  BY <1>4, <1>7 DEF Held, Follow
<1>8. CASE /\ dir[Bak[t]] \in {Absent, Torn}
           /\ \E d : dir' = [dir EXCEPT ![Bak[t]] = d]
           /\ UNCHANGED link
  <2>1. \A q \in Path : dir[q] = original[p] => dir'[q] = original[p]
    BY <1>2, <1>5, <1>8 DEF TypeOK
  <2>2. UNCHANGED Follow(p)
    BY <1>8 DEF Follow
  <2> QED BY <1>2, <1>4, <1>6, <1>8, <2>1, <2>2 DEF Held
<1>9. CASE pc[j] = "replace" /\ Install(t, content[j])
  <2>1. Own(t) => dir[Bak[t]] = ReadsAs(t)
    BY <1>1, <1>3, <1>9 DEF CopyInv, Copied
  <2>2. Bak[t] # t /\ dir' = [dir EXCEPT ![t] = content[j]]
        /\ link' = [link EXCEPT ![t] = NoPath]
    <3>1. t \in Source
      BY <1>1 DEF TypeOK, RequestType
    <3> QED BY <1>9, <3>1, BakAssumption DEF Install
  <2>3. dir'[Bak[t]] = dir[Bak[t]]
    BY <1>2, <2>2 DEF TypeOK
  <2>4. ASSUME Own(t), ReadsAs(t) = original[p] PROVE Held(c, p)'
    <3>1. dir'[Bak[t]] = original'[p]
      BY <1>4, <2>1, <2>3, <2>4
    <3> QED BY <1>1, <3>1 DEF Held
  <2>5. CASE link[p] = Link[p] /\ dir[Follow(p)] = original[p]
    <3>1. CASE t \notin {p, Link[p]}
      BY <1>2, <1>4, <1>9, <2>5, <3>1, Elsewhere DEF Held, ReadsAs
    <3>2. CASE t = p
      BY <2>4, <2>5, <3>2 DEF ReadsAs
    <3>3. CASE t = Link[p]
      <4>1. Link[t] = NoPath /\ link[t] = NoPath
        BY <1>2, <2>5, <3>3, LinkAssumption, PathAssumption DEF LinkInv
      <4>2. Own(t)
        <5>1. NoPath \notin session.edited
          BY SessionAssumption, PathAssumption DEF CommandTyped
        <5> QED BY <3>3, <4>1, <5>1 DEF Own
      <4>3. ReadsAs(t) = original[p]
        <5>1. Follow(p) = t /\ Follow(t) = t
          BY <1>2, <2>5, <3>3, <4>1, PathAssumption DEF Follow
        <5> QED BY <2>5, <5>1 DEF ReadsAs
      <4> QED BY <2>4, <4>2, <4>3
    <3> QED BY <3>1, <3>2, <3>3
  <2>6. CASE \E k \in DOMAIN c.targets : dir[Bak[c.targets[k]]] = original[p]
    <3>1. PICK k \in DOMAIN c.targets : dir[Bak[c.targets[k]]] = original[p]
      BY <2>6
    <3> DEFINE b == Bak[c.targets[k]]
    <3>2. b \in Path /\ Link[b] = NoPath /\ link[b] = NoPath /\ b \notin session.edited
      BY WriterFacts DEF BaksOf
    <3>3. CASE b # t
      <4>1. dir'[b] = original'[p]
        BY <1>4, <2>2, <3>1, <3>2, <3>3 DEF TypeOK
      <4> QED BY <4>1 DEF Held
    <3>4. CASE b = t
      <4>1. Own(t)
        <5>1. NoPath \notin session.edited
          BY SessionAssumption, PathAssumption DEF CommandTyped
        <5> QED BY <3>2, <3>4, <5>1 DEF Own
      <4>2. ReadsAs(t) = original[p]
        BY <3>1, <3>2, <3>4 DEF ReadsAs, Follow
      <4> QED BY <2>4, <4>1, <4>2
    <3> QED BY <3>3, <3>4
  <2> QED BY <2>5, <2>6 DEF Held
<1>10. \/ UNCHANGED <<dir, link>>
       \/ /\ dir[Bak[t]] \in {Absent, Torn}
          /\ \E d : dir' = [dir EXCEPT ![Bak[t]] = d]
          /\ UNCHANGED link
       \/ pc[j] = "replace" /\ Install(t, content[j])
  BY <1>1, <1>3, JobEffects DEF CopyInv
<1> QED BY <1>7, <1>8, <1>9, <1>10

\* Another program that writes to none of them loses nothing either.
LEMMA HeldOther ==
  ASSUME IInv, LinkInv, CommandTyped, NEW q \in session.edited, q \in Path, Edit(q),
         NEW c \in WriteCommands(session), BaksOf(c) \cap session.edited = {},
         NEW i \in DOMAIN c.targets, Own(c.targets[i]), Held(c, c.targets[i])
  PROVE  Held(c, c.targets[i])'
<1>. USE DEF IInv
<1> DEFINE p == c.targets[i]
<1>1. PICK d : Install(q, d)
  BY DEF Edit
<1>2. UNCHANGED original
  BY DEF Edit
<1>3. p \in Path /\ q \notin {p, Link[p]}
  BY WriterFacts DEF Own
<1>4. UNCHANGED <<link[p], Follow(p), ReadsAs(p)>>
  BY <1>1, <1>3, Elsewhere
<1>5. ASSUME NEW k \in DOMAIN c.targets PROVE dir'[Bak[c.targets[k]]] = dir[Bak[c.targets[k]]]
  <2>1. Bak[c.targets[k]] \in Path /\ Bak[c.targets[k]] # q
    BY WriterFacts DEF BaksOf
  <2> QED BY <1>1, <2>1 DEF Install, TypeOK
<1> QED BY <1>2, <1>4, <1>5 DEF Held, ReadsAs

LEMMA HeldStep ==
  ASSUME IInv, LinkInv, CommandTyped, Sole, CopyInv, HeldInv, [CommandNext]_allVars
  PROVE  HeldInv'
<1>0. UNCHANGED session
  BY SoleStep DEF JobMoves, OtherMoves, commandVars
<1>1. UNCHANGED original
  <2>1. CASE JobMoves
    BY <2>1, TurnFacts, StepFrame DEF JobMoves, IInv
  <2> QED BY <2>1, SoleStep DEF OtherMoves, Edit, vars
<1> SUFFICES ASSUME NEW c \in WriteCommands(session), Backed(c),
                    BaksOf(c) \cap session.edited = {}, NEW i \in DOMAIN c.targets,
                    Own(c.targets[i]), original[c.targets[i]] # Absent
             PROVE  Held(c, c.targets[i])'
  BY <1>0, <1>1 DEF HeldInv, Own
<1>2. Held(c, c.targets[i])
  BY DEF HeldInv
<1>3. CASE JobMoves
  BY <1>2, <1>3, HeldJob
<1>4. CASE OtherMoves
  <2>1. PICK q \in session.edited : Edit(q)
    BY <1>4 DEF OtherMoves
  <2>2. q \in Path
    BY SessionAssumption, PathAssumption DEF CommandTyped
  <2> QED BY <1>2, <2>1, <2>2, HeldOther
<1>5. CASE UNCHANGED <<dir, link>>
  BY <1>1, <1>2, <1>5 DEF Held, Follow
<1> QED BY <1>3, <1>4, <1>5, SoleStep DEF vars

\* At first nothing is under way, and every file is what it is.
LEMMA SoleStarts == CommandInit => Sole /\ Spoken /\ CopyInv /\ HeldInv
<1> SUFFICES ASSUME CommandInit PROVE Sole /\ Spoken /\ CopyInv /\ HeldInv
  OBVIOUS
<1>1. \A j \in Job : pc[j] = "idle"
  BY DEF CommandInit
<1>2. Sole /\ Spoken /\ CopyInv
  BY <1>1 DEF Sole, Spoken, CopyInv, Copied, Running
<1>3. ASSUME NEW c \in WriteCommands(session), NEW i \in DOMAIN c.targets PROVE Held(c, c.targets[i])
  <2>1. c.targets[i] \in Path
    BY CommandInitTypes, WriterFacts DEF IInv, ApartInv
  <2> QED BY <2>1 DEF CommandInit, Held, ReadsAs
<1> QED BY <1>2, <1>3 DEF HeldInv

LEMMA SessionHeld == CommandSpec => [](Sole /\ Spoken /\ CopyInv /\ HeldInv)
<1>1. IInv /\ ApartInv /\ CommandTyped /\ Sole /\ Spoken /\ CopyInv /\ HeldInv
        /\ [CommandNext]_allVars => (Sole /\ Spoken /\ CopyInv /\ HeldInv)'
  BY SoleStep, CommandStep, SpokenStep, CopiedStep, HeldStep DEF ApartInv
<1> QED BY <1>1, SoleStarts, SessionTypes, PTL DEF CommandSpec

\* FirstContentKept, FR-016, for all instances: whatever targets a batch has,
\* and however often it fails, is broken off or given again, the first content
\* of each is still in a target or a backup.
THEOREM SessionKeeps == CommandSpec => []FirstContentKept
<1>1. IInv /\ LinkInv /\ CommandTyped /\ HeldInv => FirstContentKept
  <2> SUFFICES ASSUME IInv, LinkInv, CommandTyped, HeldInv,
                      NEW c \in WriteCommands(session), Backed(c),
                      BaksOf(c) \cap session.edited = {},
                      NEW i \in DOMAIN c.targets, Own(c.targets[i]),
                      original[c.targets[i]] # Absent
               PROVE  \E q \in {c.targets[k] : k \in DOMAIN c.targets} \cup BaksOf(c) :
                        ReadsAs(q) = original[c.targets[i]]
    <3>1. \A c \in WriteCommands(session) :
            BaksOf(c) = {Bak[t] : t \in {c.targets[k] : k \in DOMAIN c.targets}}
      BY DEF BaksOf
    <3> QED BY <3>1 DEF FirstContentKept, Backed
  <2>1. Held(c, c.targets[i])
    BY DEF HeldInv
  <2>2. CASE dir[Follow(c.targets[i])] = original[c.targets[i]]
    BY <2>2 DEF ReadsAs
  <2>3. CASE \E k \in DOMAIN c.targets : dir[Bak[c.targets[k]]] = original[c.targets[i]]
    <3>1. PICK k \in DOMAIN c.targets : dir[Bak[c.targets[k]]] = original[c.targets[i]]
      BY <2>3
    <3>2. ReadsAs(Bak[c.targets[k]]) = original[c.targets[i]]
      BY <3>1, WriterFacts DEF ReadsAs, Follow, IInv
    <3> QED BY <3>2 DEF BaksOf
  <2> QED BY <2>1, <2>2, <2>3 DEF Held
<1> QED BY <1>1, SessionHeld, SessionTypes, PTL DEF ApartInv

-----------------------------------------------------------------------------
(* The outcomes of a command and its exit code.                            *)

Said == Outcome \ {"none"}

\* A command that is running was accepted; its outcomes are real ones and no
\* more than its targets; a report has all of them and the code they make.
OutcomeInv ==
  /\ \A i \in DOMAIN outcomes : outcomes[i] \in Said
  /\ phase = "running" => ~Rejects(cmd) /\ Len(outcomes) <= Targets
  /\ Reported =>
       /\ Len(outcomes) = Targets
       /\ exitCode = AggregateExit({ExitOf(outcomes[i]) : i \in DOMAIN outcomes})

\* The command at hand.
LEMMA CmdFacts ==
  ASSUME CommandTyped, given # 0
  PROVE  /\ cmd \in Command /\ cmd.targets \in Seq(Source) /\ Len(cmd.targets) \in Nat
         /\ DOMAIN cmd.targets = 1 .. Len(cmd.targets)
         /\ 1 .. Len(cmd.targets) \subseteq Job
         /\ given \in DOMAIN session.commands
         /\ Targets \in Nat
         /\ Len(outcomes) \in Nat /\ DOMAIN outcomes = 1 .. Len(outcomes)
<1>1. given \in 1 .. Len(session.commands) /\ given \in DOMAIN session.commands
  <2>1. Len(session.commands) \in Nat /\ DOMAIN session.commands = 1 .. Len(session.commands)
    BY SessionAssumption, LenProperties DEF CommandTyped
  <2> QED BY <2>1 DEF CommandTyped
<1>2. Len(outcomes) \in Nat /\ DOMAIN outcomes = 1 .. Len(outcomes)
  BY LenProperties DEF CommandTyped
<1>3. /\ cmd \in Command /\ cmd.targets \in Seq(Source) /\ Len(cmd.targets) \in Nat
      /\ DOMAIN cmd.targets = 1 .. Len(cmd.targets)
      /\ 1 .. Len(cmd.targets) \subseteq Job
  BY <1>1, CommandFacts DEF CommandTyped, cmd
<1> QED BY <1>1, <1>2, <1>3 DEF Targets

\* A command that was accepted has a target.
LEMMA SomeTarget ==
  ASSUME CommandTyped, given # 0, ~Rejects(cmd)
  PROVE  Targets \in Nat \ {0}
<1>1. cmd \in Command /\ cmd.targets \in Seq(Source) /\ Len(cmd.targets) \in Nat
      /\ given \in DOMAIN session.commands
  BY CmdFacts
<1>2. CASE cmd.name = "duplicates"
  BY <1>2 DEF Targets
<1>3. CASE cmd.name \in Batchable
  <2>1. cmd.targets # <<>> /\ cmd.name # "duplicates"
    BY <1>3 DEF Rejects, Batchable, Diagnostics
  <2>2. Len(cmd.targets) # 0
    BY <1>1, <2>1, EmptySeq
  <2> QED BY <1>1, <2>1, <2>2 DEF Targets
<1>4. CASE cmd.name \notin Batchable \cup {"duplicates"}
  <2>1. Len(cmd.targets) = IF cmd.name = "diff" THEN 2 ELSE 1
    BY <1>1, <1>4, SessionAssumption DEF CommandTyped, cmd
  <2> QED BY <1>4, <2>1 DEF Targets
<1> QED BY <1>2, <1>3, <1>4

LEMMA OutcomeKeep ==
  ASSUME CommandTyped, OutcomeInv, phase = "running", Len(outcomes) < Targets,
         NEW o \in Said, Keep(o)
  PROVE  OutcomeInv'
<1>1. given # 0 /\ outcomes \in Seq(Outcome) /\ o \in Outcome
  BY DEF CommandTyped, Outcome, Said
<1>2. Targets \in Nat /\ Len(outcomes) \in Nat /\ DOMAIN outcomes = 1 .. Len(outcomes)
  BY <1>1, CmdFacts
<1>3. /\ Len(outcomes') = Len(outcomes) + 1
      /\ DOMAIN outcomes' = 1 .. Len(outcomes) + 1
      /\ outcomes'[Len(outcomes) + 1] = o
      /\ \A i \in 1 .. Len(outcomes) : outcomes'[i] = outcomes[i]
  BY <1>1, AppendProperties, LenProperties DEF Keep
<1>4. \A i \in DOMAIN outcomes' : outcomes'[i] \in Said
  <2>1. \A i \in 1 .. Len(outcomes) : outcomes'[i] \in Said
    BY <1>2, <1>3 DEF OutcomeInv
  <2>2. \A i \in DOMAIN outcomes' : i \in 1 .. Len(outcomes) \/ i = Len(outcomes) + 1
    BY <1>2, <1>3
  <2> QED BY <1>3, <2>1, <2>2
<1>5. UNCHANGED <<cmd, Targets, phase>>
  BY DEF Keep, cmd, Targets
<1>6. Rejects(cmd)' <=> Rejects(cmd)
  BY <1>5 DEF Rejects
<1>7. Len(outcomes') <= Targets'
  BY <1>2, <1>3, <1>5
<1> QED BY <1>4, <1>5, <1>6, <1>7 DEF OutcomeInv, Reported, Ended

LEMMA OutcomeBreak ==
  ASSUME OutcomeInv, NEW code \in {"traceback", "killed"}, Break(code)
  PROVE  OutcomeInv'
BY DEF OutcomeInv, Break, Reported, Ended

LEMMA OutcomeStill ==
  ASSUME OutcomeInv, UNCHANGED <<session, given, phase, outcomes, exitCode>>
  PROVE  OutcomeInv'
<1>1. UNCHANGED <<cmd, Targets>>
  BY DEF cmd, Targets
<1> QED BY <1>1 DEF OutcomeInv, Reported, Ended, Rejects

\* Looking at a path gives an outcome, which says something.
LEMMA LookSaid ==
  ASSUME NEW p, NEW o
  PROVE  /\ o \in Look(p) => o \in Said
         /\ o \in StatFile(p) => o \in Said
         /\ o \in Parse(p, "invalid") => o \in Said
         /\ o \in Parse(p, "InvalidContent") => o \in Said
BY DEF Look, StatFile, Parse, ReadError, Said, Outcome, Error

LEMMA OutcomeStep ==
  ASSUME IInv, CommandTyped, Spoken, OutcomeInv, [CommandNext]_allVars
  PROVE  OutcomeInv'
<1>a. ASSUME NEW names, Working(names), "duplicates" \notin names
      PROVE  phase = "running" /\ Len(outcomes) < Targets
  <2>1. given # 0 /\ phase = "running" /\ cmd.name # "duplicates" /\ turn <= Len(cmd.targets)
    BY <1>a DEF Working, CommandTyped
  <2> QED BY <2>1, CmdFacts DEF Targets, turn
<1>1. CASE UNCHANGED allVars
  BY <1>1, OutcomeStill DEF allVars, commandVars
<1>2. CASE Give
  <2>1. outcomes' = <<>> /\ given' = given + 1 /\ given \in Nat /\ UNCHANGED session
    BY <1>2 DEF Give, CommandTyped
  <2>2. cmd' = session.commands[given']
    BY <2>1 DEF cmd
  <2>3. given' # 0 /\ CommandTyped'
    BY <1>2, <2>1, CommandTypes DEF CommandNext
  <2>4. Targets' \in Nat /\ Len(outcomes') = 0
    <3>1. CASE cmd'.name = "duplicates"
      BY <2>1, <3>1 DEF Targets
    <3>2. CASE cmd'.name # "duplicates"
      <4>1. given' \in 1 .. Len(session.commands)
        BY <2>1, <2>3 DEF CommandTyped
      <4>2. Len(cmd'.targets) \in Nat
        BY <4>1, <2>2, CommandFacts DEF CommandTyped
      <4> QED BY <2>1, <3>2, <4>2 DEF Targets
    <3> QED BY <3>1, <3>2
  <2>5. CASE Rejects(session.commands[given'])
    <3>1. phase' = "prompt" /\ Rejects(cmd)'
      BY <1>2, <2>2, <2>5 DEF Give, Rejects
    <3> QED BY <2>1, <3>1 DEF OutcomeInv, Reported
  <2>6. CASE ~Rejects(session.commands[given'])
    <3>1. phase' = "running" /\ ~Rejects(cmd)'
      BY <1>2, <2>2, <2>6 DEF Give, Rejects
    <3> QED BY <2>1, <2>4, <3>1 DEF OutcomeInv, Reported, Ended
  <2> QED BY <2>5, <2>6
<1>3. CASE Converting
  <2>1. CASE (eol_cmd \/ convert_cmd \/ pretty_cmd \/ reencode_cmd)
    BY <2>1, OutcomeStill DEF eol_cmd, convert_cmd, pretty_cmd, reencode_cmd, BeginWrite
  <2>2. CASE Write
    BY <2>2, OutcomeStill DEF Write, commandVars
  <2>3. CASE EndWrite
    <3>1. turn \in Job /\ pc[turn] = "done" /\ Keep(outcome[turn])
      BY <2>3, TurnFacts DEF EndWrite
    <3>2. outcome[turn] \in Said
      BY <3>1 DEF Spoken, IInv, TypeOK, Said, Outcome
    <3> QED BY <2>3, <3>1, <3>2, <1>a, OutcomeKeep DEF EndWrite, Converters
  <2>4. CASE WriteRaises
    BY <2>4, OutcomeBreak DEF WriteRaises
  <2> QED BY <1>3, <2>1, <2>2, <2>3, <2>4 DEF Converting
<1>4. CASE Diagnosing
  <2>1. CASE validate_cmd
    <3>1. PICK o : o \in Parse(target, "invalid") /\ Keep(o)
      BY <2>1 DEF validate_cmd
    <3> QED BY <2>1, <3>1, <1>a, LookSaid, OutcomeKeep DEF validate_cmd
  <2>2. CASE stat_cmd
    <3>1. PICK o : o \in StatFile(target) /\ Keep(o)
      BY <2>2 DEF stat_cmd
    <3> QED BY <2>2, <3>1, <1>a, LookSaid, OutcomeKeep DEF stat_cmd
  <2>3. CASE hash_cmd
    <3>1. PICK o : o \in Look(target) /\ Keep(o)
      BY <2>3 DEF hash_cmd
    <3> QED BY <2>3, <3>1, <1>a, LookSaid, OutcomeKeep DEF hash_cmd
  <2>4. CASE encoding_cmd
    <3>1. PICK o : o \in Look(target) /\ Keep(o)
      BY <2>4 DEF encoding_cmd
    <3> QED BY <2>4, <3>1, <1>a, LookSaid, OutcomeKeep DEF encoding_cmd
  <2>5. CASE identify_cmd
    <3>1. PICK o \in Look(target) :
            Keep(o) \/ UNCHANGED <<session, given, phase, outcomes, exitCode>>
      BY <2>5 DEF identify_cmd
    <3> QED BY <2>5, <3>1, <1>a, LookSaid, OutcomeKeep, OutcomeStill DEF identify_cmd
  <2>6. CASE diff_cmd
    <3>1. PICK o \in Parse(target, "InvalidContent") :
            IF o = "ok" THEN Keep(o)
            ELSE /\ outcomes' = [i \in 1 .. Len(cmd.targets) |-> o]
                 /\ UNCHANGED <<session, given, phase, exitCode>>
      BY <2>6 DEF diff_cmd
    <3>2. o \in Said /\ phase = "running" /\ Len(outcomes) < Targets
          /\ Targets = Len(cmd.targets) /\ Len(cmd.targets) \in Nat
      BY <2>6, <1>a, LookSaid, TurnFacts, LenProperties DEF diff_cmd, Targets, Working
    <3>3. CASE o = "ok"
      BY <3>1, <3>2, <3>3, OutcomeKeep
    <3>4. CASE o # "ok"
      <4>1. /\ DOMAIN outcomes' = 1 .. Len(cmd.targets) /\ outcomes' \in Seq(Said)
            /\ \A i \in DOMAIN outcomes' : outcomes'[i] \in Said
        BY <3>1, <3>2, <3>4
      <4>2. Len(outcomes') = Len(cmd.targets)
        BY <3>2, <4>1, LenProperties
      <4>3. UNCHANGED <<cmd, Targets, phase>>
        BY <3>1, <3>4 DEF cmd, Targets
      <4>4. Rejects(cmd)' <=> Rejects(cmd)
        BY <4>3 DEF Rejects
      <4> QED BY <3>2, <4>1, <4>2, <4>3, <4>4 DEF OutcomeInv, Reported, Ended
    <3> QED BY <3>3, <3>4
  <2>7. CASE LookRaises \/ ScanRaises
    BY <2>7, OutcomeBreak DEF LookRaises, ScanRaises
  <2>8. CASE OpenScan \/ ReadChunk
    BY <2>8, OutcomeStill DEF OpenScan, ReadChunk
  <2>9. CASE OpenScanFails
    <3>1. PICK o : o \in Look(target) /\ Keep(o)
      BY <2>9 DEF OpenScanFails
    <3> QED BY <2>9, <3>1, <1>a, LookSaid, OutcomeKeep DEF OpenScanFails
  <2>10. CASE EndScan
    <3>1. Keep("ok") /\ "ok" \in Said
      BY <2>10 DEF EndScan, Said, Outcome
    <3> QED BY <2>10, <3>1, <1>a, OutcomeKeep DEF EndScan
  <2> QED BY <1>4, <2>1, <2>2, <2>3, <2>4, <2>5, <2>6, <2>7, <2>8, <2>9, <2>10 DEF Diagnosing
<1>5. CASE Search
  BY <1>5, OutcomeStill DEF Search, commandVars
<1>6. CASE EndSearch \/ SearchFails \/ SearchRaises
  <2>1. phase = "running" /\ outcomes = <<>> /\ cmd.name = "duplicates"
    BY <1>6 DEF EndSearch, SearchFails, SearchRaises, Searching
  <2>2. Len(outcomes) < Targets
    BY <2>1 DEF Targets
  <2>3. CASE SearchRaises
    BY <2>3, OutcomeBreak DEF SearchRaises
  <2>4. CASE EndSearch \/ SearchFails
    <3>1. PICK o \in Said : Keep(o)
      BY <2>4 DEF EndSearch, SearchFails, Said, Outcome, Error
    <3> QED BY <2>1, <2>2, <3>1, OutcomeKeep
  <2> QED BY <1>6, <2>3, <2>4
<1>7. CASE Exit
  <2>1. UNCHANGED <<cmd, Targets, outcomes>> /\ phase' = "prompt"
    BY <1>7 DEF Exit, cmd, Targets
  <2> QED BY <1>7, <2>1 DEF Exit, OutcomeInv
<1>8. CASE Interrupt
  BY <1>8, OutcomeBreak DEF Interrupt
<1>9. CASE Others
  BY <1>9, OutcomeStill DEF Others, commandVars
<1> QED BY <1>1, <1>2, <1>3, <1>4, <1>5, <1>6, <1>7, <1>8, <1>9
        DEF CommandNext, Progress, Finding

\* Only success has the code of success.
LEMMA OkOnly ==
  ASSUME NEW o \in Said, ExitOf(o) = "OK"
  PROVE  o = "ok"
BY DEF Said, Outcome, Error, ExitOf

-----------------------------------------------------------------------------
(* An `eol` in place leaves its targets in the asked style.                *)

InPlaceEol == given # 0 /\ cmd.name = "eol" /\ cmd.inPlace /\ ~cmd.force

\* What a path reads as is complete, and has only the ends of lines it should.
Fine(p) == ReadsAs(p) \in Data /\ Normalize(ReadsAs(p), "lf") = ReadsAs(p)

\* A target that was, or is about to be, reported as done.
Due(i) ==
  \/ i \in DOMAIN outcomes /\ outcomes[i] = "ok"
  \/ phase = "running" /\ begun /\ i = turn /\ pc[i] = "done" /\ outcome[i] = "ok"

FineInv ==
  InPlaceEol =>
    \A i \in DOMAIN cmd.targets : Due(i) /\ Own(cmd.targets[i]) => Fine(cmd.targets[i])

\* Installing such a content makes no path worse.
LEMMA Mends ==
  ASSUME TypeOK, LinkInv, NEW t \in Path, NEW c \in Data, Normalize(c, "lf") = c,
         Install(t, c), NEW p \in Path, Fine(p) \/ p = t
  PROVE  Fine(p)'
<1>1. dir' = [dir EXCEPT ![t] = c] /\ link' = [link EXCEPT ![t] = NoPath]
  BY DEF Install
<1>2. CASE p = t
  <2>1. Follow(p)' = t /\ dir'[t] = c
    BY <1>1, <1>2 DEF Follow, TypeOK
  <2> QED BY <2>1 DEF Fine, ReadsAs
<1>3. CASE p # t
  <2>1. UNCHANGED Follow(p) /\ Follow(p) \in Path
    BY <1>1, <1>3, ReadTypes DEF Follow, TypeOK
  <2>2. ReadsAs(p)' \in {ReadsAs(p), c}
    BY <1>1, <2>1 DEF ReadsAs, TypeOK
  <2> QED BY <1>3, <2>2 DEF Fine
<1> QED BY <1>2, <1>3

\* What an `eol` makes of any content is in the asked style.
LEMMA EolContent ==
  ASSUME CommandTyped, given # 0, cmd.name = "eol", NEW j \in DOMAIN cmd.targets,
         NEW d \in Content, Convert[j][d] \in Data
  PROVE  Normalize(Convert[j][d], "lf") = Convert[j][d]
<1>1. session \in Session /\ given \in DOMAIN session.commands
  BY CmdFacts DEF CommandTyped
<1>2. PICK e \in Data : Convert[j][d] = Normalize(e, "lf")
  <2>1. Convert[j][d] # Invalid
    BY DataAssumption
  <2>2. \E e \in IF d = Torn THEN Data ELSE {d} : Convert[j][d] = Normalize(e, "lf")
    BY <1>1, <2>1, EolAssumption DEF cmd
  <2> QED BY <2>2 DEF Content
<1>3. e \in Seq(Byte) /\ "lf" \in Style
  BY <1>2, ByteAssumption DEF Style
<1>4. NormalizesTo(e, "lf")
  BY <1>3, Normalizes
<1>5. Normalize(Normalize(e, "lf"), "lf") = Normalize(e, "lf")
  BY <1>3, <1>4 DEF NormalizesTo
<1> QED BY <1>2, <1>5

\* The job at hand.
LEMMA FineJob ==
  ASSUME IInv, LinkInv, CommandTyped, CopyInv, FineInv, JobMoves, InPlaceEol
  PROVE  FineInv'
<1>. USE DEF IInv
<1> DEFINE j == turn
<1>1. /\ j \in Job /\ j \in DOMAIN cmd.targets /\ Step(j)
      /\ req[j].source = cmd.targets[j] /\ req[j].inPlace /\ ~req[j].force
  BY TurnAsked DEF JobMoves, InPlaceEol
<1>2. UNCHANGED <<session, given, phase, begun, outcomes, cmd, turn>>
  BY DEF JobMoves, commandVars, cmd, turn
<1>3. ASSUME NEW i \in DOMAIN cmd.targets
      PROVE  cmd.targets[i] \in Path
  <2>1. cmd.targets \in Seq(Source)
    BY CmdFacts DEF InPlaceEol
  <2> QED BY <2>1, ElementOfSeq, PathAssumption
<1> SUFFICES ASSUME NEW i \in DOMAIN cmd.targets, Due(i)',
                    NEW p \in {cmd.targets[i]}, Own(p)
             PROVE  Fine(p)'
  BY <1>2 DEF FineInv, InPlaceEol, Own, Fine, ReadsAs, Follow
<1>4. Due(i) \/ (i = j /\ pc'[j] = "done" /\ outcome'[j] = "ok")
  BY <1>2 DEF Due
<1>5. Due(i) => Fine(p)
  BY DEF FineInv
<1>6. p \in Path /\ Follow(p) \in Path /\ Follow(p) \notin session.edited
  <2>1. Follow(p) \in {p, Link[p]}
    BY <1>3 DEF Follow, LinkInv
  <2> QED BY <1>3, <2>1, ReadTypes DEF Own
<1>7. CASE UNCHANGED <<dir, link>> /\ ~(pc'[j] = "done" /\ outcome'[j] = "ok")
  BY <1>4, <1>5, <1>7 DEF Fine, ReadsAs, Follow
<1>8. CASE /\ BakOf(j) \in session.edited \/ dir[BakOf(j)] \in {Absent, Torn}
           /\ \E c : dir' = [dir EXCEPT ![BakOf(j)] = c]
           /\ UNCHANGED link
           /\ ~(pc'[j] = "done" /\ outcome'[j] = "ok")
  <2>1. Fine(p) /\ dir[Follow(p)] \in Data
    BY <1>4, <1>5, <1>8 DEF Fine, ReadsAs
  <2>2. Follow(p) # BakOf(j)
    BY <1>6, <1>8, <2>1, DataAssumption
  <2>3. UNCHANGED Follow(p) /\ dir'[Follow(p)] = dir[Follow(p)]
    BY <1>6, <1>8, <2>2 DEF Follow, TypeOK
  <2> QED BY <2>1, <2>3 DEF Fine, ReadsAs
<1>9. CASE /\ content[j] \in Data
           /\ content[j] = Convert[j][base[j]] /\ base[j] \in Content
           /\ Install(req[j].source, content[j])
  <2>1. Normalize(content[j], "lf") = content[j]
    BY <1>1, <1>9, EolContent DEF InPlaceEol
  <2>2. Fine(p) \/ p = cmd.targets[j]
    BY <1>4, <1>5
  <2> QED BY <1>1, <1>3, <1>6, <1>9, <2>1, <2>2, Mends
<1> QED BY <1>1, <1>7, <1>8, <1>9, JobEffects DEF CopyInv

\* Another program.
LEMMA FineOther ==
  ASSUME IInv, LinkInv, CommandTyped, FineInv, OtherMoves
  PROVE  FineInv'
<1>. USE DEF IInv
<1>1. PICK q \in session.edited : Edit(q)
  BY DEF OtherMoves
<1>2. q \in Path /\ UNCHANGED <<pc, outcome>> /\ \E c : Install(q, c)
  BY <1>1, SessionAssumption, PathAssumption DEF CommandTyped, Edit
<1>3. UNCHANGED <<session, given, phase, begun, outcomes, cmd, turn>>
  BY DEF OtherMoves, commandVars, cmd, turn
<1> SUFFICES ASSUME InPlaceEol, NEW i \in DOMAIN cmd.targets, Due(i),
                    NEW p \in {cmd.targets[i]}, Own(p)
             PROVE  Fine(p)'
  BY <1>2, <1>3 DEF FineInv, InPlaceEol, Own, Due, Fine, ReadsAs, Follow
<1>4. p \in Path
  <2>1. cmd.targets \in Seq(Source)
    BY CmdFacts DEF InPlaceEol
  <2> QED BY <2>1, ElementOfSeq, PathAssumption
<1>5. q \notin {p, Link[p]}
  BY DEF Own
<1>6. UNCHANGED ReadsAs(p)
  BY <1>2, <1>4, <1>5, Elsewhere
<1> QED BY <1>3, <1>6 DEF FineInv, Fine

LEMMA FineStep ==
  ASSUME IInv, LinkInv, CommandTyped, Sole, CopyInv, FineInv, [CommandNext]_allVars
  PROVE  FineInv'
<1>a. ASSUME UNCHANGED <<dir, link, session, given>>, \A i : Due(i)' => Due(i)
      PROVE  FineInv'
  BY <1>a DEF FineInv, InPlaceEol, cmd, Own, Fine, ReadsAs, Follow
<1>b. ASSUME UNCHANGED <<dir, link, session, given, outcomes>>, begun' = FALSE
      PROVE  FineInv'
  BY <1>a, <1>b DEF Due
<1>c. ASSUME UNCHANGED <<session, given>>, given = 0 \/ cmd.name # "eol"
      PROVE  FineInv'
  BY <1>c DEF FineInv, InPlaceEol, cmd
<1>1. CASE UNCHANGED allVars
  BY <1>1, <1>a DEF allVars, vars, commandVars, Due, turn
<1>2. CASE Give
  <2>1. outcomes' = <<>> /\ begun' = FALSE
    BY <1>2 DEF Give
  <2>2. \A i : ~Due(i)'
    BY <2>1 DEF Due
  <2> QED BY <2>2 DEF FineInv
<1>3. CASE Converting
  <2>1. CASE (eol_cmd \/ convert_cmd \/ pretty_cmd \/ reencode_cmd)
    <3>1. turn \in Job /\ ~begun /\ UNCHANGED <<session, given, phase, outcomes>>
          /\ (UNCHANGED vars \/ Restart(turn)) /\ (pc[turn] = "idle" \/ Restart(turn))
      BY <2>1, TurnFacts DEF eol_cmd, convert_cmd, pretty_cmd, reencode_cmd, BeginWrite
    <3>2. UNCHANGED <<dir, link, turn>> /\ pc'[turn] = "idle"
      BY <3>1 DEF Restart, vars, turn, IInv, TypeOK
    <3>3. \A i : Due(i)' => Due(i)
      BY <3>1, <3>2 DEF Due
    <3> QED BY <3>1, <3>2, <3>3, <1>a
  <2>2. CASE Write
    <3>1. JobMoves
      BY <2>2 DEF Write, JobMoves
    <3>2. CASE InPlaceEol
      BY <3>1, <3>2, FineJob
    <3>3. CASE ~InPlaceEol
      <4>1. ~InPlaceEol'
        BY <3>1, <3>3 DEF JobMoves, commandVars, InPlaceEol, cmd
      <4> QED BY <4>1 DEF FineInv
    <3> QED BY <3>2, <3>3
  <2>3. CASE EndWrite
    <3>1. /\ phase = "running" /\ begun /\ pc[turn] = "done"
          /\ outcomes' = Append(outcomes, outcome[turn]) /\ begun' = FALSE
          /\ UNCHANGED <<vars, session, given>> /\ given # 0
      BY <2>3 DEF EndWrite, Keep, Working, CommandTyped
    <3>2. /\ Len(outcomes) \in Nat /\ DOMAIN outcomes = 1 .. Len(outcomes)
          /\ outcomes \in Seq(Outcome)
      BY <3>1, CmdFacts DEF CommandTyped, Outcome
    <3>3. DOMAIN outcomes' = 1 .. turn /\ turn = Len(outcomes) + 1
      BY <3>1, <3>2 DEF turn
    <3>4. \A i \in 1 .. turn : outcomes'[i] = IF i = turn THEN outcome[turn] ELSE outcomes[i]
      BY <3>1, <3>2, <3>3
    <3>5. \A i : Due(i)' => Due(i)
      <4> SUFFICES ASSUME NEW i, Due(i)' PROVE Due(i)
        OBVIOUS
      <4>1. i \in 1 .. turn /\ outcomes'[i] = "ok"
        BY <3>1, <3>3 DEF Due
      <4>2. CASE i = turn
        BY <3>1, <3>4, <4>1, <4>2 DEF Due
      <4>3. CASE i # turn
        <5>1. i \in 1 .. Len(outcomes) /\ outcomes[i] = "ok"
          BY <3>2, <3>3, <3>4, <4>1, <4>3
        <5> QED BY <3>2, <5>1 DEF Due
      <4> QED BY <4>2, <4>3
    <3> QED BY <3>1, <3>5, <1>a DEF vars
  <2>4. CASE WriteRaises
    <3>1. UNCHANGED <<dir, link>>
      BY <2>4 DEF WriteRaises, Kill
    <3> QED BY <2>4, <3>1, <1>b DEF WriteRaises, Break
  <2> QED BY <1>3, <2>1, <2>2, <2>3, <2>4 DEF Converting
<1>4. CASE Diagnosing
  <2>1. UNCHANGED <<session, given>>
    BY <1>4 DEF Diagnosing, validate_cmd, stat_cmd, hash_cmd, encoding_cmd, identify_cmd,
         diff_cmd, LookRaises, OpenScan, OpenScanFails, ReadChunk, EndScan, ScanRaises, Keep, Break
  <2>2. cmd.name # "eol"
    BY <1>4 DEF Diagnosing, validate_cmd, stat_cmd, hash_cmd, encoding_cmd, identify_cmd,
         diff_cmd, LookRaises, OpenScan, OpenScanFails, ReadChunk, EndScan, ScanRaises,
         Working, Diagnostics
  <2> QED BY <2>1, <2>2, <1>c
<1>5. CASE Finding
  BY <1>5, <1>c DEF Finding, Search, EndSearch, SearchFails, SearchRaises, Searching, Keep,
                    Break, commandVars
<1>6. CASE Exit
  <2>1. /\ UNCHANGED <<vars, session, given, begun, outcomes>> /\ phase' = "prompt"
    BY <1>6 DEF Exit
  <2> QED BY <2>1, <1>a DEF Due, vars
<1>7. CASE Interrupt
  <2>1. UNCHANGED <<dir, link>>
    BY <1>7 DEF Interrupt, Kill, vars
  <2> QED BY <1>7, <2>1, <1>b DEF Interrupt, Break
<1>8. CASE Others
  <2>1. OtherMoves
    BY <1>8 DEF Others, OtherMoves
  <2> QED BY <2>1, FineOther
<1> QED BY <1>1, <1>2, <1>3, <1>4, <1>5, <1>6, <1>7, <1>8 DEF CommandNext, Progress

LEMMA OutcomeStarts == CommandInit => OutcomeInv /\ FineInv
<1> SUFFICES ASSUME CommandInit PROVE OutcomeInv /\ FineInv
  OBVIOUS
<1>1. outcomes = <<>> /\ phase = "prompt" /\ given = 0
  BY DEF CommandInit
<1> QED BY <1>1 DEF OutcomeInv, FineInv, InPlaceEol, Reported, Ended

\* A report is that of all targets.
LEMMA ReportTold ==
  ASSUME CommandTyped, OutcomeInv, FineInv
  PROVE  BatchTold
<1> SUFFICES ASSUME Reported PROVE BatchTold
  BY DEF BatchTold
<1>1. /\ given # 0 /\ ~Rejects(cmd)
      /\ Len(outcomes) = Targets
      /\ exitCode = AggregateExit({ExitOf(outcomes[i]) : i \in DOMAIN outcomes})
  BY DEF OutcomeInv, Reported, Ended, CommandTyped
<1>2. Targets \in Nat \ {0} /\ DOMAIN outcomes = 1 .. Targets
  BY <1>1, SomeTarget, CmdFacts
<1> DEFINE codes == [i \in DOMAIN outcomes |-> ExitOf(outcomes[i])]
<1>3. Summarises(exitCode, codes)
  <2>1. DOMAIN codes = 1 .. Targets
    BY <1>2
  <2>2. {codes[i] : i \in DOMAIN codes} = {ExitOf(outcomes[i]) : i \in DOMAIN outcomes}
    OBVIOUS
  <2>3. Summarises(AggregateExit({codes[i] : i \in DOMAIN codes}), codes)
    <3> HIDE DEF codes
    <3> QED BY <1>2, <2>1, AggregateSummarises
  <2> QED BY <1>1, <2>2, <2>3
<1>4. ASSUME exitCode = "OK", cmd.name = "eol", cmd.inPlace, ~cmd.force,
             NEW i \in DOMAIN cmd.targets, Own(cmd.targets[i])
      PROVE  Fine(cmd.targets[i])
  <2>1. i \in DOMAIN outcomes
    BY <1>1, <1>2, <1>4, CmdFacts DEF Targets
  <2>2. codes[i] = "OK"
    <3>1. {k \in DOMAIN codes : codes[k] = "OK"} = DOMAIN codes
      BY <1>3, <1>4 DEF Summarises
    <3> QED BY <2>1, <3>1
  <2>3. outcomes[i] \in Said /\ ExitOf(outcomes[i]) = "OK"
    BY <2>1, <2>2 DEF OutcomeInv
  <2>4. outcomes[i] = "ok"
    BY <2>3, OkOnly
  <2> QED BY <1>1, <1>4, <2>1, <2>4 DEF FineInv, InPlaceEol, Due
<1> QED BY <1>1, <1>3, <1>4 DEF BatchTold, Fine

\* BatchTold, FR-020 and FR-011, for all instances: however many targets a
\* command has, and whatever becomes of them, its report has an outcome for
\* each and the exit code sums them up; and an `eol` that reports success has
\* left all of its targets in the asked style, the ones included that share a
\* file or are the backup of another.
THEOREM SessionTold == CommandSpec => []BatchTold
<1>1. IInv /\ ApartInv /\ CommandTyped /\ Sole /\ Spoken /\ CopyInv /\ OutcomeInv /\ FineInv
        /\ [CommandNext]_allVars => (OutcomeInv /\ FineInv)'
  BY OutcomeStep, FineStep DEF ApartInv
<1>2. CommandSpec => [](OutcomeInv /\ FineInv)
  BY <1>1, OutcomeStarts, SessionHeld, SessionTypes, PTL DEF CommandSpec
<1>3. CommandTyped /\ OutcomeInv /\ FineInv => BatchTold
  BY ReportTold
<1> QED BY <1>2, <1>3, SessionTypes, PTL
=============================================================================
