---------------------------- MODULE AtomicUpdate ----------------------------
(***************************************************************************)
(* What the guarded write commands promise, with nothing said of how: a    *)
(* command looks at its source at one moment, and at one later moment its  *)
(* destination takes the complete converted content, or nothing changes.   *)
(* There are no temporary files, no partial contents and no backups here.  *)
(***************************************************************************)
EXTENDS Naturals

CONSTANTS
  Path, Hidden,    \* all paths, and those (backups) of which nothing is said
  Job, Content,    \* the commands, and what reading a file can return
  Data, Convert,   \* complete contents, and the conversion of each command
  Foreign,         \* paths other programs edit
  Error, Absent, NoPath, NoData

VARIABLES
  file,    \* what the visible regular paths hold
  link,    \* where symbolic links point
  dest,    \* per command: the path to write, or NoPath
  source,  \* per command: the path to read
  excl,    \* per command: whether an existing destination is to be kept
  seen,    \* the content each command saw in its source
  told     \* what each command has reported

vars == <<file, link, dest, source, excl, seen, told>>

Visible == Path \ Hidden
asked == <<dest, source, excl>>

Put(p, c) ==
  /\ file' = [q \in Visible |-> IF q = p THEN c ELSE file[q]]
  /\ link' = [q \in Path |-> IF q = p THEN NoPath ELSE link[q]]

Init ==
  /\ file \in [Visible -> Data \cup {Absent}]
  /\ link \in [Path -> Path \cup {NoPath}]
  /\ dest \in [Job -> Path \cup {NoPath}]
  /\ source \in [Job -> Path]
  /\ excl \in [Job -> BOOLEAN]
  /\ seen = [j \in Job |-> NoData]
  /\ told = [j \in Job |-> "none"]

\* The command sees its source, whole.
Look(j) ==
  LET p == IF link[source[j]] = NoPath THEN source[j] ELSE link[source[j]]
  IN /\ seen[j] = NoData
     /\ told[j] = "none"
     /\ \E c \in Content :
          /\ p \in Visible => c = file[p]
          /\ seen' = [seen EXCEPT ![j] = c]
     /\ told' \in {told, [told EXCEPT ![j] = "ok"]}
     /\ told' # told => dest[j] = NoPath
     /\ UNCHANGED <<file, link, asked>>

\* The destination takes the conversion of what was seen, and success is
\* reported, in one step.
Commit(j) ==
  /\ seen[j] # NoData
  /\ told[j] = "none"
  /\ dest[j] # NoPath
  /\ Convert[j][seen[j]] \in Data
  /\ excl[j] /\ dest[j] \in Visible
       => file[dest[j]] = Absent /\ link[dest[j]] = NoPath
  /\ Put(dest[j], Convert[j][seen[j]])
  /\ told' = [told EXCEPT ![j] = "ok"]
  /\ UNCHANGED <<asked, seen>>

\* An error is reported, and nothing else happens.
Refuse(j) ==
  /\ told[j] = "none"
  /\ \E e \in Error : told' = [told EXCEPT ![j] = e]
  /\ UNCHANGED <<file, link, asked, seen>>

\* The process dies before its report arrives.
Lose(j) ==
  /\ told' = [told EXCEPT ![j] = "lost"]
  /\ UNCHANGED <<file, link, asked, seen>>

\* The command is run again.
Again(j) ==
  /\ seen' = [seen EXCEPT ![j] = NoData]
  /\ told' = [told EXCEPT ![j] = "none"]
  /\ UNCHANGED <<file, link, asked>>

Edit(p) ==
  /\ \E c \in Data \cup {Absent} : Put(p, c)
  /\ UNCHANGED <<asked, seen, told>>

Next ==
  \/ \E j \in Job : Look(j) \/ Commit(j) \/ Refuse(j) \/ Lose(j) \/ Again(j)
  \/ \E p \in Foreign : Edit(p)

Spec == Init /\ [][Next]_vars
=============================================================================
