---------------------------- MODULE MCFileCommand ----------------------------
(***************************************************************************)
(* Instances of FileCommand for TLC: sessions on a directory with a file   *)
(* "a", a second file "b" that another program may write to, a symbolic    *)
(* link "l" to "a", and the names of their backups.                        *)
(***************************************************************************)
EXTENDS FileCommand

Bytes(n) == [1 .. n -> Byte]

\* All contents of up to three bytes, and longer ones of CR and LF.
MCData == UNION {Bytes(n) : n \in 0 .. 3} \cup UNION {[1 .. n -> {"cr", "lf"}] : n \in 4 .. 5}

MCPath == {"a", "a.bak", "a.bak.bak", "b", "b.bak", "l", "l.bak"}
MCLink == [p \in MCPath |-> IF p = "l" THEN "a" ELSE NoPath]
MCSource == {"a", "b", "l", "a.bak"}
MCBak ==
  [p \in MCSource |-> CASE p = "a" -> "a.bak" [] p = "b" -> "b.bak"
                        [] p = "l" -> "l.bak" [] p = "a.bak" -> "a.bak.bak"]

\* Every command asks for LF.  Three "x" in a row do not convert.
Bad == <<"x", "x", "x">>
MCConvert ==
  [j \in Job |-> [c \in Content |->
     CASE c = Torn -> <<"lf">> [] c = Bad -> Invalid [] OTHER -> Normalize(c, "lf")]]

\* No session gives a command more than twice.
MCRuns == [j \in Job |-> 2]

MCSize == [c \in Content |-> IF c = Torn THEN 1 ELSE Len(c)]

-----------------------------------------------------------------------------
Dos == <<"x", "cr", "lf">>
Old == <<"cr", "x">>

Files(a, bak, b) ==
  [p \in MCPath |-> CASE p = "a" -> a [] p = "a.bak" -> bak [] p = "b" -> b
                      [] OTHER -> Absent]

Do(name, targets, output, flags) ==
  [name |-> name, targets |-> targets, option |-> "bad" \notin flags,
   output |-> output, inPlace |-> "in-place" \in flags,
   backup |-> "backup" \in flags, force |-> "force" \in flags]

Ses(files, edited, commands) == [files |-> files, edited |-> edited, commands |-> commands]

Together == {<<"a", "b">>, <<"a", "a">>, <<"a", "l">>, <<"l", "a">>, <<"a", "a.bak">>,
             <<"a.bak", "a">>}

\* A batch in place; its targets share a file, or one is the backup of another.
\* Without --force it is given twice.
Batches ==
  {LET eol == Do("eol", t, NoPath, {"in-place", "backup"}) IN
     Ses(Files(Dos, bak, Old), {}, <<eol, eol>>) : t \in Together, bak \in {Absent, Old}}
  \cup {Ses(Files(Dos, bak, Old), {},
            <<Do("eol", t, NoPath, {"in-place", "backup", "force"}),
              Do("lineendings", t, NoPath, {})>>) : t \in Together, bak \in {Absent, Old}}

\* One target that does not convert, is missing, or is written by another program.
Singles ==
  {Ses(Files(a, Absent, Absent), {}, <<Do(n, <<"a">>, NoPath, {"in-place", "backup"})>>) :
     n \in {"convert", "pretty", "reencode"}, a \in {Dos, Bad, Absent}}
  \cup {Ses(Files(Dos, Absent, b), {}, <<Do(n, <<"l">>, "b", f)>>) :
     n \in {"convert", "pretty", "reencode", "eol"}, f \in {{}, {"force"}}, b \in {Absent, Old}}
  \cup {Ses(Files(Dos, Absent, Old), {"b"}, <<Do("eol", <<"b", "a">>, NoPath, f)>>) :
     f \in {{}, {"in-place", "backup"}}}

\* Every content is scanned; one of the two files may be replaced meanwhile.
Scans ==
  {Ses(Files(c, Absent, Absent), {}, <<Do("lineendings", <<"a">>, NoPath, {})>>) : c \in Data}
  \cup {Ses(Files(Dos, Absent, Old), {"b"}, <<Do("lineendings", <<"b", "l">>, NoPath, {})>>)}

Searches ==
  {Ses(Files(Dos, bak, b), {"b"}, <<Do("duplicates", <<>>, NoPath, {})>>) :
     bak \in {Old, Dos}, b \in {Old, Dos}}

Diagnoses ==
  {Ses(Files(Dos, Absent, b), {"b"}, <<Do(n, <<"b", "l">>, NoPath, {})>>) :
     n \in {"validate", "stat", "identify", "hash", "encoding", "diff"}, b \in {Absent, Old}}

Mistakes ==
  {Ses(Files(Dos, Absent, Old), {},
       <<Do("eol", <<"a", "b">>, "a.bak", {}), Do("validate", <<>>, NoPath, {}),
         Do("hash", <<"a">>, NoPath, {"bad"})>>),
   Ses(Files(Dos, Absent, Old), {}, <<Do("pretty", <<"a">>, "b", {"in-place"})>>),
   Ses(Files(Dos, Absent, Old), {}, <<Do("convert", <<"a">>, NoPath, {"bad"})>>),
   Ses(Files(Dos, Absent, Old), {}, <<Do("reencode", <<"a">>, NoPath, {"backup"})>>)}

MCSession == Batches \cup Singles \cup Scans \cup Searches \cup Diagnoses \cup Mistakes

\* One batch whose first target cannot be looked at.
MCAborted == {Ses(Files(Dos, Absent, Old), {}, <<Do("eol", <<"b", "a">>, NoPath, {})>>)}
=============================================================================
