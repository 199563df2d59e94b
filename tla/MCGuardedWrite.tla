--------------------------- MODULE MCGuardedWrite ---------------------------
(***************************************************************************)
(* Instances of GuardedWrite for TLC.  A directory with a file, its        *)
(* backup, a symbolic link to the file and an output path.                 *)
(***************************************************************************)
EXTENDS GuardedWrite

CONSTANTS j1, j2, old, mine, new1, new2

MCPath == {"a", "a.bak", "l", "l.bak", "o"}
MCLink == [p \in MCPath |-> IF p = "l" THEN "a" ELSE NoPath]
MCSource == {"a", "l"}
MCBak == [p \in MCSource |-> IF p = "a" THEN "a.bak" ELSE "l.bak"]
MCData == {old, mine, new1, new2}

\* Each command writes its own content; j2 rejects what j1 makes of a file.
MCConvert ==
  [j \in Job |-> [c \in Content |->
     CASE j = j1 -> new1
       [] j = j2 /\ c = new1 -> Invalid
       [] OTHER -> new2]]

Ask(source, output, flags) ==
  [source |-> source, output |-> output, inPlace |-> "in-place" \in flags,
   backup |-> "backup" \in flags, force |-> "force" \in flags]

\* Commands on the same file, under both of its names, and on one output.
MCMixed == {Ask("a", NoPath, {"in-place", "backup"}),
            Ask("l", NoPath, {"in-place"}),
            Ask("l", "o", {}),
            Ask("a", "o", {"force"}),
            Ask("l", "a", {"force"}),
            Ask("a", "o", {"in-place"})}

\* The first command may be run a second time.
MCRuns == [j \in Job |-> IF j = j1 THEN 2 ELSE 1]

\* Two commands that back up and replace the same file.
MCSame == {Ask("a", NoPath, {"in-place", "backup"})}
=============================================================================
