----------------------------- MODULE FileCommand -----------------------------
(***************************************************************************)
(* The commands of `opskit file` (file/cli.py) as an operator gives them,  *)
(* one after the other, while other programs write to the same directory.  *)
(*                                                                         *)
(* A command takes its targets in turn.  The write commands hand each of   *)
(* them to module GuardedWrite: job i of that module is target i, and the  *)
(* jobs run one at a time.  `lineendings` reads its targets in chunks      *)
(* (module LineEndings), `duplicates` searches the directory (module       *)
(* Duplicates), the others look at a target once or twice.  An OpskitError *)
(* is the outcome of its target; any other exception ends the command, and *)
(* so does Ctrl-C.  The outcomes make the exit code (module ExitCodes).    *)
(***************************************************************************)
EXTENDS Duplicates, LineEndings, ExitCodes

CONSTANTS
  Session,     \* what an operator does: a directory and commands, see below
  MaxChunk     \* the largest chunk read at once (bound)

Diagnostics == {"validate", "lineendings", "stat", "identify", "hash", "encoding"}
Converters == {"eol", "convert", "pretty", "reencode"}
Batchable == Diagnostics \cup {"eol"}

\* option: the command's own option is there and known: --to, and the --algo of
\* hash or the --format of diff.
Command ==
  [name : Diagnostics \cup Converters \cup {"diff", "duplicates"},
   targets : Seq(Source), option : BOOLEAN,
   output : Path \cup {NoPath}, inPlace : BOOLEAN, backup : BOOLEAN, force : BOOLEAN]

ASSUME JobAssumption == Job \subseteq Nat /\ MaxChunk \in Nat \ {0}

ASSUME SourceAssumption == Source # {}

\* A file is a sequence of bytes.
ASSUME ByteAssumption == Data \subseteq Seq(Byte)

\* A session gives one write command at most, which may be given again.
ASSUME SessionAssumption ==
  \A s \in Session :
    /\ s.files \in [Path -> Data \cup {Absent}]
    /\ \A p \in Path : Link[p] # NoPath => s.files[p] = Absent
    /\ s.edited \subseteq Foreign
    /\ s.commands \in Seq(Command)
    /\ \A i \in DOMAIN s.commands :
         /\ DOMAIN s.commands[i].targets \subseteq Job
         /\ s.commands[i].name \notin Batchable \cup {"duplicates"} =>
              Len(s.commands[i].targets) = IF s.commands[i].name = "diff" THEN 2 ELSE 1
    /\ Cardinality({s.commands[i] : i \in {k \in DOMAIN s.commands :
                                             s.commands[k].name \in Converters}}) <= 1

\* An `eol` asks for LF in every session.  It refuses a content or makes LF of
\* its line ends; what it reads of a file written in part is some content.
ASSUME EolAssumption ==
  \A s \in Session : \A i \in DOMAIN s.commands : s.commands[i].name = "eol" =>
    \A j \in DOMAIN s.commands[i].targets : \A c \in Content :
      \/ Convert[j][c] = Invalid
      \/ \E d \in IF c = Torn THEN Data ELSE {c} : Convert[j][c] = Normalize(d, "lf")

VARIABLES
  session,
  given,       \* commands given so far
  phase,       \* "prompt" or "running"
  begun,       \* the current target is being worked on
  looked,      \* looks that have been taken at the current target
  handle,      \* the file that is read in chunks: its content, and what is left
  counts,
  reports,     \* lineendings: what it counted in each file it read
  outcomes,    \* target by target
  exitCode

commandVars == <<session, given, phase, begun, looked, handle, counts, reports,
                 outcomes, exitCode>>
allVars == <<vars, searchVars, commandVars>>

NoHandle == [content |-> <<>>, rest |-> <<>>]

cmd == session.commands[given]
turn == Len(outcomes) + 1
target == cmd.targets[turn]

WriteCommands(s) ==
  {s.commands[i] : i \in {k \in DOMAIN s.commands : s.commands[k].name \in Converters}}

\* What job j is asked: its target, with the flags of the write command.
Asked(s, j) ==
  IF \E c \in WriteCommands(s) : j \in DOMAIN c.targets
    THEN LET c == CHOOSE c \in WriteCommands(s) : TRUE IN
           [source |-> c.targets[j], output |-> c.output, inPlace |-> c.inPlace,
            backup |-> c.backup, force |-> c.force]
    ELSE [source |-> CHOOSE p \in Source : TRUE, output |-> NoPath,
          inPlace |-> FALSE, backup |-> FALSE, force |-> FALSE]

CommandInit ==
  /\ session \in Session
  /\ dir = session.files
  /\ link = Link
  /\ original = [p \in Path |-> ReadsAs(p)]
  /\ req = [j \in Job |-> Asked(session, j)]
  /\ pc = [j \in Job |-> "idle"]
  /\ base = [j \in Job |-> NoData] /\ content = [j \in Job |-> NoData]
  /\ temp = [j \in Job |-> Absent] /\ saved = [j \in Job |-> NoData]
  /\ orphan = {} /\ outcome = [j \in Job |-> "none"]
  /\ runs = [j \in Job |-> 0] /\ edits = 0
  /\ SearchInit
  /\ given = 0 /\ phase = "prompt" /\ begun = FALSE /\ looked = 0
  /\ handle = NoHandle /\ counts = Zero /\ reports = <<>>
  /\ outcomes = <<>> /\ exitCode = "none"

-----------------------------------------------------------------------------
(* A command is given; its options are checked before any file is touched. *)

BadFlags(c) ==
  \/ c.output # NoPath /\ c.inPlace
  \/ c.backup /\ ~c.inPlace

\* _check_eol_flags
EolRejects(c) == ~c.option \/ BadFlags(c) \/ (c.output # NoPath /\ Len(c.targets) > 1)

ConvertRejects(c) == ~c.option \/ BadFlags(c)
PrettyRejects(c) == BadFlags(c)
ReencodeRejects(c) == ~c.option \/ BadFlags(c)

Rejects(c) ==
  \/ c.name \in Batchable /\ c.targets = <<>>
  \/ c.name = "eol" /\ EolRejects(c)
  \/ c.name = "convert" /\ ConvertRejects(c)
  \/ c.name = "reencode" /\ ReencodeRejects(c)
  \/ c.name = "pretty" /\ PrettyRejects(c)
  \/ c.name \in {"hash", "diff"} /\ ~c.option

Give ==
  /\ phase = "prompt" /\ given < Len(session.commands)
  /\ given' = given + 1
  /\ outcomes' = <<>> /\ reports' = <<>>
  /\ begun' = FALSE /\ looked' = 0
  /\ IF Rejects(session.commands[given'])
       THEN exitCode' = "USAGE" /\ UNCHANGED phase
       ELSE exitCode' = "none" /\ phase' = "running"
  /\ Ready
  /\ UNCHANGED <<vars, session, handle, counts>>

\* An outcome is kept, and it is the next target's turn.
Keep(o) ==
  /\ outcomes' = Append(outcomes, o)
  /\ begun' = FALSE /\ looked' = 0
  /\ UNCHANGED <<session, given, phase, exitCode>>

\* The command ends without a report.
Break(code) ==
  /\ phase' = "prompt" /\ exitCode' = code
  /\ begun' = FALSE /\ looked' = 0
  /\ UNCHANGED <<session, given, handle, counts, reports, outcomes>>

Working(names) == phase = "running" /\ cmd.name \in names /\ turn <= Len(cmd.targets)

-----------------------------------------------------------------------------
(* eol, convert, pretty, reencode.                                         *)

\* A job that was run by an earlier command starts afresh.
BeginWrite ==
  /\ ~begun /\ begun' = TRUE
  /\ IF pc[turn] = "idle" THEN UNCHANGED vars ELSE Restart(turn)
  /\ UNCHANGED <<searchVars, session, given, phase, looked, handle, counts, reports,
                 outcomes, exitCode>>

eol_cmd == Working({"eol"}) /\ BeginWrite
convert_cmd == Working({"convert"}) /\ BeginWrite
pretty_cmd == Working({"pretty"}) /\ BeginWrite
reencode_cmd == Working({"reencode"}) /\ BeginWrite

Write ==
  /\ Working(Converters) /\ begun
  /\ Step(turn)
  /\ UNCHANGED <<searchVars, commandVars>>

EndWrite ==
  /\ Working(Converters) /\ begun /\ pc[turn] = "done"
  /\ Keep(outcome[turn])
  /\ UNCHANGED <<vars, searchVars, handle, counts, reports>>

\* Path.is_dir() and Path.exists() raise what is neither a missing file nor a
\* link that leads nowhere: a name that is too long, a directory that may not
\* be searched.  Both are called outside the try statements of their functions.
WriteRaises ==
  /\ Working(Converters) /\ begun
  /\ pc[turn] \in {"read", "check_bak"}
  /\ Kill(turn)
  /\ Break("traceback")
  /\ UNCHANGED searchVars

-----------------------------------------------------------------------------
(* The diagnostics.                                                        *)

ReadError == {"FilePermissionDenied", "FileError"}

\* One look at a path: it is there, or the look fails with an OpskitError.
Look(p) == IF ReadsAs(p) = Absent THEN {"FileNotFoundOnDisk"} ELSE {"ok"} \cup ReadError

\* The look of validate or diff: content that does not parse.
Parse(p, verdict) == Look(p) \cup IF ReadsAs(p) = Absent THEN {} ELSE {verdict}

\* validate: content that does not parse is a result, with an exit code.
validate_cmd ==
  /\ Working({"validate"})
  /\ \E o \in Parse(target, "invalid") : Keep(o)
  /\ UNCHANGED <<vars, searchVars, handle, counts, reports>>

\* lstat and readlink; a link is there even if it leads nowhere.
StatFile(p) == IF Present(p) THEN {"ok"} \cup ReadError ELSE {"FileNotFoundOnDisk"}

stat_cmd ==
  /\ Working({"stat"})
  /\ \E o \in StatFile(target) : Keep(o)
  /\ UNCHANGED <<vars, searchVars, handle, counts, reports>>

\* One handle is read to the end, or a sample at its beginning.
hash_cmd ==
  /\ Working({"hash"})
  /\ \E o \in Look(target) : Keep(o)
  /\ UNCHANGED <<vars, searchVars, handle, counts, reports>>

encoding_cmd ==
  /\ Working({"encoding"})
  /\ \E o \in Look(target) : Keep(o)
  /\ UNCHANGED <<vars, searchVars, handle, counts, reports>>

\* The signature, then XML or JSON by the first character, TOML and YAML.
Looks == 4

\* Every look opens the file by its name: it may be gone at the next one.
identify_cmd ==
  /\ Working({"identify"})
  /\ \E o \in Look(target) :
       \/ Keep(o)
       \/ /\ o = "ok" /\ looked + 1 < Looks
          /\ looked' = looked + 1
          /\ UNCHANGED <<session, given, phase, begun, outcomes, exitCode>>
  /\ UNCHANGED <<vars, searchVars, handle, counts, reports>>

\* diff is one comparison of two targets: the first that fails is its outcome.
diff_cmd ==
  /\ Working({"diff"})
  /\ \E o \in Parse(target, "InvalidContent") :
       IF o = "ok" THEN Keep(o)
       ELSE /\ outcomes' = [i \in 1 .. Len(cmd.targets) |-> o]
            /\ UNCHANGED <<session, given, phase, begun, looked, exitCode>>
  /\ UNCHANGED <<vars, searchVars, handle, counts, reports>>

\* All but stat ask is_dir() first; hash reads without a try statement.
LookRaises ==
  /\ Working((Diagnostics \cup {"diff"}) \ {"stat", "lineendings"})
  /\ Break("traceback")
  /\ UNCHANGED <<vars, searchVars>>

-----------------------------------------------------------------------------
(* lineendings: detect_line_endings.                                       *)

\* The handle stays on the file it was opened on when another file takes the
\* name.
OpenScan ==
  /\ Working({"lineendings"}) /\ ~begun /\ ReadsAs(target) \in Data
  /\ begun' = TRUE
  /\ handle' = [content |-> ReadsAs(target), rest |-> ReadsAs(target)]
  /\ counts' = Zero
  /\ UNCHANGED <<vars, searchVars, session, given, phase, looked, reports, outcomes,
                 exitCode>>

OpenScanFails ==
  /\ Working({"lineendings"}) /\ ~begun
  /\ \E o \in Look(target) \ {"ok"} : Keep(o)
  /\ UNCHANGED <<vars, searchVars, handle, counts, reports>>

ReadChunk ==
  /\ Working({"lineendings"}) /\ begun /\ handle.rest # <<>>
  /\ \E n \in 1 .. MaxChunk :
       /\ n <= Len(handle.rest)
       /\ counts' = CountChunk(counts, SubSeq(handle.rest, 1, n))
       /\ handle' = [handle EXCEPT !.rest = SubSeq(@, n + 1, Len(@))]
  /\ UNCHANGED <<vars, searchVars, session, given, phase, begun, looked, reports,
                 outcomes, exitCode>>

EndScan ==
  /\ Working({"lineendings"}) /\ begun /\ handle.rest = <<>>
  /\ reports' = Append(reports, Settle(counts))
  /\ Keep("ok")
  /\ UNCHANGED <<vars, searchVars, handle, counts>>

\* open_binary calls is_dir() outside its try; read() is in no try at all.
ScanRaises ==
  /\ Working({"lineendings"})
  /\ Break("traceback")
  /\ UNCHANGED <<vars, searchVars>>

-----------------------------------------------------------------------------
(* duplicates: one target, the directory, which is not one of Source.      *)

Searching == phase = "running" /\ cmd.name = "duplicates" /\ outcomes = <<>>

Search ==
  /\ Searching
  /\ SearchStep
  /\ UNCHANGED <<vars, commandVars>>

EndSearch ==
  /\ Searching /\ search = "over"
  /\ Keep("ok")
  /\ UNCHANGED <<vars, searchVars, handle, counts, reports>>

\* The directory cannot be listed.  In the middle of the digests an error that
\* is neither a missing file nor a permission is the error of the search.
SearchFails ==
  /\ Searching
  /\ \/ search = "idle" /\ \E o \in {"FileNotFoundOnDisk", "FilePermissionDenied"} : Keep(o)
     \/ Reading /\ Keep("FileError")
  /\ UNCHANGED <<vars, searchVars, handle, counts, reports>>

SearchRaises ==
  /\ Searching /\ (search = "idle" \/ Reading)
  /\ Break("traceback")
  /\ UNCHANGED <<vars, searchVars>>

-----------------------------------------------------------------------------
(* The end of a command.                                                   *)

ExitOf(o) ==
  CASE o = "ok" -> "OK"
    [] o = "UsageError" -> "USAGE"
    [] o = "FileNotFoundOnDisk" -> "NOT_FOUND"
    [] o = "FilePermissionDenied" -> "PERMISSION_DENIED"
    [] o = "FileError" -> "ERROR"
    [] o \in {"InvalidContent", "invalid"} -> "INVALID_CONTENT"
    [] o = "ClobberRefused" -> "CLOBBER_REFUSED"

Targets == IF cmd.name = "duplicates" THEN 1 ELSE Len(cmd.targets)

\* All outcomes are there before the first is shown.
Exit ==
  /\ phase = "running" /\ Len(outcomes) = Targets
  /\ phase' = "prompt"
  /\ exitCode' = AggregateExit({ExitOf(outcomes[i]) : i \in DOMAIN outcomes})
  /\ UNCHANGED <<vars, searchVars, session, given, begun, looked, handle, counts,
                 reports, outcomes>>

\* Ctrl-C, or the process dies.
Interrupt ==
  /\ phase = "running"
  /\ IF cmd.name \in Converters /\ turn \in Job /\ pc[turn] \in Running
       THEN Kill(turn)
       ELSE UNCHANGED vars
  /\ Break("killed")
  /\ UNCHANGED searchVars

Others ==
  /\ phase = "running"
  /\ \E p \in session.edited : Edit(p)
  /\ Overtaken
  /\ UNCHANGED commandVars

Converting ==
  \/ eol_cmd \/ convert_cmd \/ pretty_cmd \/ reencode_cmd
  \/ Write \/ EndWrite \/ WriteRaises
Diagnosing ==
  \/ validate_cmd \/ stat_cmd \/ hash_cmd \/ encoding_cmd \/ identify_cmd \/ diff_cmd
  \/ LookRaises
  \/ OpenScan \/ OpenScanFails \/ ReadChunk \/ EndScan \/ ScanRaises
Finding == Search \/ EndSearch \/ SearchFails \/ SearchRaises

Progress == Converting \/ Diagnosing \/ Finding \/ Exit

CommandNext == Give \/ Progress \/ Interrupt \/ Others

CommandSpec == CommandInit /\ [][CommandNext]_allVars

\* A command that was given keeps running.
FairCommandSpec == CommandSpec /\ WF_allVars(Progress)

-----------------------------------------------------------------------------
(* Correctness.                                                            *)

\* A path of the command at hand that no other program writes to.
Own(p) == {p, Link[p]} \cap session.edited = {}

Ended == phase = "prompt" /\ given > 0
Reported == Ended /\ exitCode \notin {"traceback", "killed"} /\ ~Rejects(cmd)

\* FR-020, FR-011: a command that got to its report has one outcome for each of
\* its targets and the exit code sums them up; if that is OK, an `eol` in place
\* left every one of its targets in the asked style, the ones included that are
\* a link to, the backup of, or the same as another.  (With --force a target
\* may be overwritten as the backup of a later one.)
BatchTold ==
  Reported =>
    /\ Len(outcomes) = Targets
    /\ Summarises(exitCode, [i \in DOMAIN outcomes |-> ExitOf(outcomes[i])])
    /\ exitCode = "OK" /\ cmd.name = "eol" /\ cmd.inPlace /\ ~cmd.force =>
         \A i \in DOMAIN cmd.targets :
           LET p == cmd.targets[i] IN
             Own(p) => ReadsAs(p) \in Data
                       /\ Normalize(ReadsAs(p), "lf") = ReadsAs(p)

\* FR-016: with --backup and without --force, what a target held at first is in
\* a target or a backup of the batch, complete, unless another program wrote to
\* that target or to a backup: when targets share a file, when one of them is
\* the backup of another, when the batch is broken off and when it is given
\* again.
FirstContentKept ==
  \A c \in WriteCommands(session) : c.inPlace /\ c.backup /\ ~c.force =>
    LET all  == {c.targets[i] : i \in DOMAIN c.targets}
        baks == {Bak[t] : t \in all}
    IN \A p \in all :
         Own(p) /\ baks \cap session.edited = {} /\ original[p] # Absent =>
           \E q \in all \cup baks : ReadsAs(q) = original[p]

\* FR-001, FR-011: what `lineendings` reports of a file are its line ends,
\* wherever it was cut; and that content, rewritten to a style, has that style
\* and is otherwise what it was.
LineEndingsTrue ==
  phase = "running" /\ ~begun /\ reports # <<>> /\ Last(outcomes) = "ok" =>
    /\ Last(reports) = Tally(handle.content)
    /\ \A style \in Style : NormalizesTo(handle.content, style)

\* A command that was given comes back to the prompt: no file it looks at, and
\* nothing another program does to it, keeps it.
CommandEnds == (phase = "running") ~> (phase = "prompt")

\* specs/007-file-operations/spec.md:256: a target that fails never crashes the
\* batch.
NoTargetAborts == exitCode # "traceback"
=============================================================================
