---------------------------- MODULE GuardedWrite ----------------------------
(***************************************************************************)
(* The guarded write commands of `opskit file` (eol, convert, pretty,      *)
(* reencode): file/api.py routes them through file/atomic.py.              *)
(*                                                                         *)
(* A job is one command an operator runs; every job is a process of its    *)
(* own, so their steps interleave at the granularity of the system calls   *)
(* that atomic.py makes.  A job may be killed between any two of them and  *)
(* run again, and other programs may edit the paths of Foreign.            *)
(*                                                                         *)
(* The directory is a map from path to content.  A path may start out as a *)
(* symbolic link to a regular path.  Content is abstract: what the command *)
(* writes is Convert[j][what it read].  Torn is a file that somebody has   *)
(* written in part.                                                        *)
(***************************************************************************)
EXTENDS Naturals

CONSTANTS
  Path,        \* the paths of one directory
  Link,        \* Link[p]: where p points if it starts out as a symbolic link
  Source,      \* the paths a command may be pointed at
  Bak,         \* Bak[p]: the path of p with ".bak" appended
  Job,         \* the commands
  Request,     \* what a command can be asked: source, output, flags
  Data,        \* contents a complete file can have
  Initial,     \* contents that files have before any command runs
  Convert,     \* Convert[j][c]: what command j makes of content c
  Foreign,     \* paths that other programs edit while opskit runs
  MaxRuns,     \* MaxRuns[j]: how often command j may be run (bound)
  MaxEdits,    \* how many foreign edits happen (bound)
  Torn, Absent, Invalid, NoPath, NoData

Content == Data \cup {Torn}
Backups == {Bak[p] : p \in Source}

RequestType ==
  [source : Source, output : Path \cup {NoPath},
   inPlace : BOOLEAN, backup : BOOLEAN, force : BOOLEAN]

ASSUME PathAssumption ==
  /\ Source \subseteq Path
  /\ Foreign \subseteq Path
  /\ NoPath \notin Path

\* The links of the directory point at regular paths; no backup is a link.
ASSUME LinkAssumption ==
  /\ Link \in [Path -> Path \cup {NoPath}]
  /\ \A p \in Path : Link[p] # NoPath => p \notin Backups /\ Link[Link[p]] = NoPath

ASSUME BakAssumption ==
  /\ Bak \in [Source -> Path]
  /\ \A p \in Source : Bak[p] # p
  /\ \A p, q \in Source : Bak[p] = Bak[q] => p = q

ASSUME DataAssumption ==
  /\ Torn \notin Data /\ Absent \notin Data /\ Invalid \notin Data
  /\ NoData \notin Data /\ Torn # Absent /\ Torn # NoData

ASSUME InitialAssumption == Initial \subseteq Data

ASSUME RequestAssumption == Request \subseteq RequestType

ASSUME ConvertAssumption == Convert \in [Job -> [Content -> Data \cup {Invalid}]]

ASSUME BoundAssumption == MaxRuns \in [Job -> Nat] /\ MaxEdits \in Nat

Error == {"UsageError", "FileNotFoundOnDisk", "FilePermissionDenied", "FileError",
          "InvalidContent", "ClobberRefused"}
Phase == {"idle", "read", "check_bak", "copy", "copying", "mktemp", "writing",
          "replace", "link", "unlink", "done", "killed"}
Running == Phase \ {"idle", "done", "killed"}

VARIABLES
  dir,        \* what each regular path holds
  link,       \* where each symbolic link points
  original,   \* history: what each path read as at the start
  req,        \* what each command was asked to do
  pc,         \* where each command is
  base,       \* the content a command read
  content,    \* the bytes a command is going to write
  temp,       \* the temporary file of a command
  saved,      \* the source bytes shutil.copy2 is copying
  orphan,     \* commands whose open backup file lost its name
  outcome,    \* what a command reported
  runs, edits

vars == <<dir, link, original, req, pc, base, content, temp, saved, orphan,
          outcome, runs, edits>>

-----------------------------------------------------------------------------
(* The directory.                                                          *)

Follow(p) == IF link[p] = NoPath THEN p ELSE link[p]

ReadsAs(p) == dir[Follow(p)]

Present(p) == dir[p] # Absent \/ link[p] # NoPath

Dest(j) == IF req[j].inPlace THEN req[j].source ELSE req[j].output

BakOf(j) == Bak[req[j].source]

\* Commands that hold path p open as the destination of a backup copy.
CopyingTo(p) == {j \in Job : pc[j] = "copying" /\ BakOf(j) = p}

\* A complete file takes the name p: rename() and link() put it there in one
\* step, and whoever has the old file open goes on writing to a nameless one.
Install(p, c) ==
  /\ dir' = [dir EXCEPT ![p] = c]
  /\ link' = [link EXCEPT ![p] = NoPath]
  /\ orphan' = orphan \cup CopyingTo(p)

Finish(j, report) ==
  /\ pc' = [pc EXCEPT ![j] = "done"]
  /\ outcome' = [outcome EXCEPT ![j] = report]

Goto(j, phase) ==
  /\ pc' = [pc EXCEPT ![j] = phase]
  /\ UNCHANGED outcome

-----------------------------------------------------------------------------
Init ==
  /\ dir \in [Path -> Initial \cup {Absent}]
  /\ \A p \in Path : Link[p] # NoPath => dir[p] = Absent
  /\ link = Link
  /\ original = [p \in Path |-> ReadsAs(p)]
  /\ req \in [Job -> Request]
  /\ pc = [j \in Job |-> "idle"]
  /\ base = [j \in Job |-> NoData]
  /\ content = [j \in Job |-> NoData]
  /\ temp = [j \in Job |-> Absent]
  /\ saved = [j \in Job |-> NoData]
  /\ orphan = {}
  /\ outcome = [j \in Job |-> "none"]
  /\ runs = [j \in Job |-> 0]
  /\ edits = 0

(***************************************************************************)
(* _validate_write_destination: --output with --in-place, --backup without *)
(* --in-place, and an --output that resolves to the source are rejected    *)
(* before any file is read, as are options the command itself rejects (an  *)
(* unknown line ending, a target format equal to the declared one).        *)
(***************************************************************************)
\* Mutant: compares the paths as written, not what they resolve to.
BadDestinationUnresolved(j) ==
  \/ req[j].inPlace /\ req[j].output # NoPath
  \/ req[j].backup /\ ~req[j].inPlace
  \/ req[j].output = req[j].source

BadDestination(j) ==
  \/ req[j].inPlace /\ req[j].output # NoPath
  \/ req[j].backup /\ ~req[j].inPlace
  \/ req[j].output # NoPath /\ Follow(req[j].output) = Follow(req[j].source)

Validate(j) ==
  /\ pc[j] = "idle"
  /\ runs[j] < MaxRuns[j]
  /\ runs' = [runs EXCEPT ![j] = @ + 1]
  /\ \/ Finish(j, "UsageError")
     \/ ~BadDestination(j) /\ Goto(j, "read")
  /\ UNCHANGED <<dir, link, original, req, base, content, temp, saved, orphan,
                 edits>>

(***************************************************************************)
(* read_bytes and the conversion.  What comes next depends on the flags:   *)
(* _write_guarded goes to write_in_place, to write_new_file, or hands the  *)
(* bytes back for standard output.                                         *)
(***************************************************************************)
ReadFails(j) ==
  /\ pc[j] = "read"
  /\ \/ ReadsAs(req[j].source) = Absent /\ Finish(j, "FileNotFoundOnDisk")
     \/ /\ ReadsAs(req[j].source) # Absent
        /\ \E e \in {"FilePermissionDenied", "FileError"} : Finish(j, e)
     \/ /\ ReadsAs(req[j].source) # Absent
        /\ Convert[j][ReadsAs(req[j].source)] = Invalid
        /\ \E e \in {"InvalidContent", "UsageError"} : Finish(j, e)
  /\ UNCHANGED <<dir, link, original, req, base, content, temp, saved, orphan,
                 runs, edits>>

\* Mutant: goes on with content that does not convert.
ReadSourceUnchecked(j) ==
  /\ pc[j] = "read"
  /\ ReadsAs(req[j].source) # Absent
  /\ base' = [base EXCEPT ![j] = ReadsAs(req[j].source)]
  /\ content' = [content EXCEPT ![j] = Convert[j][ReadsAs(req[j].source)]]
  /\ IF Dest(j) = NoPath THEN Finish(j, "ok")
     ELSE Goto(j, IF req[j].backup THEN "check_bak" ELSE "mktemp")
  /\ UNCHANGED <<dir, link, original, req, temp, saved, orphan, runs, edits>>

ReadSource(j) ==
  /\ pc[j] = "read"
  /\ ReadsAs(req[j].source) # Absent
  /\ Convert[j][ReadsAs(req[j].source)] # Invalid
  /\ base' = [base EXCEPT ![j] = ReadsAs(req[j].source)]
  /\ content' = [content EXCEPT ![j] = Convert[j][ReadsAs(req[j].source)]]
  /\ IF Dest(j) = NoPath THEN Finish(j, "ok")
     ELSE Goto(j, IF req[j].backup THEN "check_bak" ELSE "mktemp")
  /\ UNCHANGED <<dir, link, original, req, temp, saved, orphan, runs, edits>>

-----------------------------------------------------------------------------
(* write_in_place: the backup.                                             *)

\* Mutant: an existing backup is not looked for.
CheckBackupSkipped(j) ==
  /\ pc[j] = "check_bak"
  /\ Goto(j, "copy")
  /\ UNCHANGED <<dir, link, original, req, base, content, temp, saved, orphan,
                 runs, edits>>

\* bak.exists() and not force
CheckBackup(j) ==
  /\ pc[j] = "check_bak"
  /\ IF dir[BakOf(j)] # Absent /\ ~req[j].force
       THEN Finish(j, "ClobberRefused")
       ELSE Goto(j, "copy")
  /\ UNCHANGED <<dir, link, original, req, base, content, temp, saved, orphan,
                 runs, edits>>

\* shutil.copy2 opens the source, then truncates or creates the backup.
BeginCopy(j) ==
  /\ pc[j] = "copy"
  /\ ReadsAs(req[j].source) # Absent
  /\ Follow(req[j].source) # BakOf(j)          \* SameFileError
  /\ saved' = [saved EXCEPT ![j] = ReadsAs(req[j].source)]
  /\ dir' = [dir EXCEPT ![BakOf(j)] = Torn]
  /\ orphan' = orphan \ {j}
  /\ Goto(j, "copying")
  /\ UNCHANGED <<link, original, req, base, content, temp, runs, edits>>

\* Either file cannot be opened: nothing has changed yet.
CopyRefused(j) ==
  /\ pc[j] = "copy"
  /\ Finish(j, "FilePermissionDenied")
  /\ UNCHANGED <<dir, link, original, req, base, content, temp, saved, orphan,
                 runs, edits>>

\* The bytes arrive in the file that was opened.  If another copy wrote to
\* the same file in the meantime, the result may be a mix of both.
CopyLands(j) ==
  IF j \in orphan
    THEN UNCHANGED dir
    ELSE \E c \in {saved[j]} \cup (IF dir[BakOf(j)] # Torn THEN {Torn} ELSE {}) :
           dir' = [dir EXCEPT ![BakOf(j)] = c]

FinishCopy(j) ==
  /\ pc[j] = "copying"
  /\ CopyLands(j)
  /\ Goto(j, "mktemp")
  /\ UNCHANGED <<link, original, req, base, content, temp, saved, orphan, runs,
                 edits>>

\* Mutant: a failed copy is swallowed.
CopyFailsSwallowed(j) ==
  /\ pc[j] = "copying"
  /\ CopyLands(j) \/ UNCHANGED dir
  /\ Goto(j, "mktemp")
  /\ UNCHANGED <<link, original, req, base, content, temp, saved, orphan, runs,
                 edits>>

\* The copy stops half way, or the metadata cannot be set after the bytes.
CopyFails(j) ==
  /\ pc[j] = "copying"
  /\ CopyLands(j) \/ UNCHANGED dir
  /\ Finish(j, "FilePermissionDenied")
  /\ UNCHANGED <<link, original, req, base, content, temp, saved, orphan, runs,
                 edits>>

-----------------------------------------------------------------------------
(* _write_temp, then os.replace or os.link.                                *)

\* Mutant: the destination itself is opened for writing.
MakeTempInPlace(j) ==
  /\ pc[j] = "mktemp"
  /\ temp' = [temp EXCEPT ![j] = Torn]
  /\ dir' = [dir EXCEPT ![Dest(j)] = Torn]
  /\ Goto(j, "writing")
  /\ UNCHANGED <<link, original, req, base, content, saved, orphan, runs, edits>>

MakeTemp(j) ==
  /\ pc[j] = "mktemp"
  /\ \/ temp' = [temp EXCEPT ![j] = Torn] /\ Goto(j, "writing")
     \/ UNCHANGED temp /\ Finish(j, "FilePermissionDenied")
  /\ UNCHANGED <<dir, link, original, req, base, content, saved, orphan, runs,
                 edits>>

\* write_new_file without force creates exclusively; all else replaces.
Exclusive(j) == ~req[j].inPlace /\ ~req[j].force

WriteTemp(j) ==
  /\ pc[j] = "writing"
  /\ \/ /\ temp' = [temp EXCEPT ![j] = content[j]]
        /\ Goto(j, IF Exclusive(j) THEN "link" ELSE "replace")
     \/ /\ temp' = [temp EXCEPT ![j] = Absent]
        /\ Finish(j, "FilePermissionDenied")
  /\ UNCHANGED <<dir, link, original, req, base, content, saved, orphan, runs,
                 edits>>

\* _atomic_replace
Replace(j) ==
  /\ pc[j] = "replace"
  /\ Install(Dest(j), temp[j])
  /\ temp' = [temp EXCEPT ![j] = Absent]
  /\ Finish(j, "ok")
  /\ UNCHANGED <<original, req, base, content, saved, runs, edits>>

\* Mutant: the temporary file stays behind.
ReplaceFailsLittering(j) ==
  /\ pc[j] = "replace"
  /\ Finish(j, "FilePermissionDenied")
  /\ UNCHANGED <<dir, link, original, req, base, content, temp, saved, orphan,
                 runs, edits>>

\* Mutant: the error of rename() is lost.
ReplaceFailsSilently(j) ==
  /\ pc[j] = "replace"
  /\ temp' = [temp EXCEPT ![j] = Absent]
  /\ Finish(j, "ok")
  /\ UNCHANGED <<dir, link, original, req, base, content, saved, orphan, runs,
                 edits>>

ReplaceFails(j) ==
  /\ pc[j] = "replace"
  /\ temp' = [temp EXCEPT ![j] = Absent]
  /\ Finish(j, "FilePermissionDenied")
  /\ UNCHANGED <<dir, link, original, req, base, content, saved, orphan, runs,
                 edits>>

\* Mutant: the name is taken whether or not it is free.
LinkDestClobbers(j) ==
  /\ pc[j] = "link"
  /\ Install(Dest(j), temp[j])
  /\ outcome' = [outcome EXCEPT ![j] = "ok"]
  /\ pc' = [pc EXCEPT ![j] = "unlink"]
  /\ UNCHANGED <<original, req, base, content, temp, saved, runs, edits>>

\* _create_exclusive: link() fails if the name is taken, even by a dangling
\* symbolic link.
LinkDest(j) ==
  /\ pc[j] = "link"
  /\ ~Present(Dest(j))
  /\ Install(Dest(j), temp[j])
  /\ outcome' = [outcome EXCEPT ![j] = "ok"]
  /\ pc' = [pc EXCEPT ![j] = "unlink"]
  /\ UNCHANGED <<original, req, base, content, temp, saved, runs, edits>>

\* Mutant: a taken name is tried again for ever.
LinkFailsRetries(j) ==
  /\ pc[j] = "link"
  /\ Goto(j, "mktemp")
  /\ UNCHANGED <<dir, link, original, req, base, content, temp, saved, orphan,
                 runs, edits>>

LinkFails(j) ==
  /\ pc[j] = "link"
  /\ outcome' = [outcome EXCEPT ![j] = IF Present(Dest(j)) THEN "ClobberRefused"
                                       ELSE "FilePermissionDenied"]
  /\ pc' = [pc EXCEPT ![j] = "unlink"]
  /\ UNCHANGED <<dir, link, original, req, base, content, temp, saved, orphan,
                 runs, edits>>

\* the finally clause of _create_exclusive
RemoveTemp(j) ==
  /\ pc[j] = "unlink"
  /\ temp' = [temp EXCEPT ![j] = Absent]
  /\ Goto(j, "done")
  /\ UNCHANGED <<dir, link, original, req, base, content, saved, orphan, runs,
                 edits>>

-----------------------------------------------------------------------------
(* What happens to a command, and around it.                               *)

\* The process dies, or Ctrl-C unwinds it: only _create_exclusive cleans up
\* its temporary file on the way out, everything else stays as it is.
Kill(j) ==
  /\ pc[j] \in Running
  /\ pc' = [pc EXCEPT ![j] = "killed"]
  /\ outcome' = [outcome EXCEPT ![j] = "none"]
  /\ \/ UNCHANGED temp
     \/ pc[j] \in {"link", "unlink"} /\ temp' = [temp EXCEPT ![j] = Absent]
  /\ UNCHANGED <<dir, link, original, req, base, content, saved, orphan, runs,
                 edits>>

\* The operator runs the same command again; mkstemp picks a fresh name, so a
\* temporary file left by the last run no longer matters to it.
Restart(j) ==
  /\ pc[j] \in {"done", "killed"}
  /\ runs[j] < MaxRuns[j]
  /\ pc' = [pc EXCEPT ![j] = "idle"]
  /\ outcome' = [outcome EXCEPT ![j] = "none"]
  /\ temp' = [temp EXCEPT ![j] = Absent]
  /\ base' = [base EXCEPT ![j] = NoData]
  /\ content' = [content EXCEPT ![j] = NoData]
  /\ saved' = [saved EXCEPT ![j] = NoData]
  /\ UNCHANGED <<dir, link, original, req, orphan, runs, edits>>

\* Another program saves, creates or deletes a file.
Edit(p) ==
  /\ edits < MaxEdits
  /\ edits' = edits + 1
  /\ \E c \in Data \cup {Absent} : Install(p, c)
  /\ UNCHANGED <<original, req, pc, base, content, temp, saved, outcome, runs>>

Step(j) ==
  \/ Validate(j)     \/ ReadFails(j)    \/ ReadSource(j) \/ CheckBackup(j)
  \/ BeginCopy(j)    \/ CopyRefused(j)  \/ FinishCopy(j) \/ CopyFails(j)
  \/ MakeTemp(j)     \/ WriteTemp(j)    \/ Replace(j)    \/ ReplaceFails(j)
  \/ LinkDest(j)     \/ LinkFails(j)    \/ RemoveTemp(j)

Next ==
  \/ \E j \in Job : Step(j) \/ Kill(j) \/ Restart(j)
  \/ \E p \in Foreign : Edit(p)

Spec == Init /\ [][Next]_vars

\* A process that is not killed keeps running; nobody has to restart it.
FairSpec == Spec /\ \A j \in Job : WF_vars(Step(j))

-----------------------------------------------------------------------------
(* Correctness.                                                            *)

\* Every variable has its type.
TypeOK ==
  /\ dir \in [Path -> Content \cup {Absent}]
  /\ link \in [Path -> Path \cup {NoPath}]
  /\ original \in [Path -> Data \cup {Absent}]
  /\ req \in [Job -> RequestType]
  /\ pc \in [Job -> Phase]
  /\ base \in [Job -> Content \cup {NoData}]
  /\ content \in [Job -> Data \cup {NoData}]
  /\ temp \in [Job -> Content \cup {Absent}]
  /\ saved \in [Job -> Content \cup {NoData}]
  /\ orphan \subseteq Job
  /\ outcome \in [Job -> Error \cup {"none", "ok"}]
  /\ runs \in [Job -> Nat]
  /\ edits \in 0 .. MaxEdits

\* FR-016: whatever the commands do to each other, and wherever one of them is
\* killed, no file is ever seen written in part, except a backup.
NeverTorn == \A p \in Path \ Backups : dir[p] # Torn

\* A temporary file never outlives a command that reported something, whether
\* success, refusal or failure.
NoLitter == \A j \in Job : pc[j] = "done" => temp[j] = Absent

\* What is visible in a directory is whole, and nothing is left over.
FilesWhole == NeverTorn /\ NoLitter

\* Nobody but command j writes to a path that j reads or writes.
Writes(j) == {Dest(j)} \cup (IF req[j].backup THEN {BakOf(j)} ELSE {})
Uses(j) == {req[j].source, Link[req[j].source], BakOf(j), Dest(j)} \ {NoPath}
Alone(j) ==
  /\ Uses(j) \cap Foreign = {}
  /\ \A k \in Job \ {j} : Uses(j) \cap Writes(k) = {}

\* With --backup and without --force, the bytes the source had at first are
\* still there in full, in the source or in its backup: through failures,
\* kills and any number of further runs of the same command.
Recoverable ==
  \A j \in Job :
    Alone(j) /\ req[j].backup /\ ~req[j].force
      => original[req[j].source] \in {ReadsAs(req[j].source), dir[BakOf(j)]}

\* What a command reports is so.  On success the destination holds the
\* conversion of what was read, and a backup holds what was read.  On a
\* failure or refusal after reading the source is what was read.
ReportHolds ==
  \A j \in Job : Alone(j) /\ pc[j] = "done" /\ base[j] # NoData =>
    IF outcome[j] = "ok" /\ Dest(j) # NoPath
      THEN /\ ReadsAs(Dest(j)) = content[j]
           /\ content[j] = Convert[j][base[j]]
           /\ req[j].backup => dir[BakOf(j)] = base[j]
           /\ ~req[j].inPlace => ReadsAs(req[j].source) = base[j]
      ELSE ReadsAs(req[j].source) = base[j]

\* FR-015: no step of a command without --in-place changes what its source
\* reads as, through any symbolic link and however other commands interleave.
SourceUntouched ==
  [][\A j \in Job : pc'[j] # pc[j] /\ ~req[j].inPlace
       => ReadsAs(req[j].source)' = ReadsAs(req[j].source)]_vars

\* FR-016: an --output without --force never replaces anything.
OutputExclusive ==
  [][\A j \in Job : pc'[j] # pc[j] /\ Exclusive(j) /\ Dest(j) # NoPath
       => (Present(Dest(j)) => UNCHANGED <<dir[Dest(j)], link[Dest(j)]>>)]_vars

\* A command changes nothing that it was not told to change.
OnlyAsTold == SourceUntouched /\ OutputExclusive

\* specs/007-file-operations/spec.md:275 and FR-016: a backup that exists is
\* not overwritten without --force.
BackupExclusive ==
  [][\A j \in Job : pc'[j] # pc[j] /\ req[j].backup /\ ~req[j].force
       /\ pc[j] # "copying" /\ dir[BakOf(j)] # Absent
         => dir'[BakOf(j)] = dir[BakOf(j)]]_vars

\* All of this is an atomic update: with temporary files, backups and the
\* many system calls hidden, every behaviour is one of AtomicUpdate.
Abstract ==
  INSTANCE AtomicUpdate WITH
    Hidden <- Backups,
    file   <- [p \in Path \ Backups |-> dir[p]],
    dest   <- [j \in Job |-> Dest(j)],
    source <- [j \in Job |-> req[j].source],
    excl   <- [j \in Job |-> Exclusive(j)],
    seen   <- base,
    told   <- [j \in Job |-> IF pc[j] = "killed" THEN "lost" ELSE outcome[j]]

Implements == Abstract!Spec

\* A command that is not killed comes to an end.
Terminates == \A j \in Job : (pc[j] = "read") ~> (pc[j] \in {"done", "killed"})
=============================================================================
