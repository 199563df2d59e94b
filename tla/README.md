# opskit: specifications, model checking and proofs

opskit is a Python command line toolbox for operators: `ad`, `dns`, `file`,
`net`, `storage` and `tls` commands over a small shared core. This directory
holds TLA+ modules translated from `src/opskit/`, configurations that check
them with TLC on small instances, and proofs checked by TLAPS. Paths below are
relative to the root of the repository.

Every module names the functions it stands for in its comments;
`PROJECT.json` maps every definition to its source lines.

## 1. The system

A command of opskit is one process. It parses its options
(`src/opskit/<area>/cli.py`), calls a library function
(`src/opskit/<area>/api.py`), and turns results and exceptions into output and
an exit code (`src/opskit/core/cliutils.py`, `core/exit_codes.py`). Nothing is
shared between commands but the world outside: the file system, the network,
name servers, directory servers. That is where the hard behaviour is: what
other processes do between two system calls, which of several attempts
answers, what a deadline or Ctrl-C leaves behind, and what a batch reports
when some of its parts fail.

| part | state it keeps | operations | what makes it correct |
|---|---|---|---|
| guarded writes (`file/atomic.py`, write half of `file/api.py`) | the directory, a temporary file, a backup | `eol`, `convert`, `pretty`, `reencode` to stdout, `--output`, `--in-place [--backup]` | a file is old or new, never in between; the source is not touched unless asked; an output is not overwritten unless asked; the original survives in the source or its backup |
| TCP connect (`net/tcp.py`) | candidates left, the error of each | `resolve`, `connect` | every candidate is tried before giving up, at most one socket survives and it is the one reported, a refusal is not reported as a timeout |
| UDP probe (`net/udp.py`) | one socket, datagrams in flight | `udp_probe` | a reply is reported only for what was sent, the socket is closed |
| proxy tunnel (`net/proxy.py`) | connection to the proxy, CONNECT exchange, retries | `connect_via_proxy` | the stage is named in the error, no socket leaks, only timeouts are retried |
| check and probe (`net/api.py`) | attempts, counters | `check`, `probe` | counters add up also when interrupted, the verdict follows from the attempts |
| listener (`net/listener.py`) | sockets, counters, stop reason | `__enter__`, `events`, `__exit__` | one final state, the first stop reason wins, counts match the events delivered |
| AD client (`ad/api.py`, `ad/directory.py`, `ad/discovery.py`) | candidate servers, one session | `check`, `user`, `groups`, `member`, `members`, `show` | one session per client, a server is skipped only when unreachable, what is said of an account is so or listed as unknown, every name of a batch has its outcome |
| group expansion (inside `ad/api.py`) | queue, visited set | nested memberships | every reachable group once, over a shortest chain, also through cycles |
| DNS (`dns/resolver.py`, `dns/api.py`, rounds of `dns/cli.py`) | tries, records and the first error, answers, servers and zone of the trace | `lookup`, `lookup_all`, `reverse`, `compare`, `trace` | a lookup reports what was said, resolvers agree only if all were heard and said the same, a trace is the path that was followed, a round's exit code sums up its targets |
| TLS (`tls/handshake.py`, `tls/inspect.py`, `tls/api.py`) | handshake state, deadline | `check` | the deadline bounds the handshake, success means a certificate that is valid for the name, the layer that is blamed is the one that failed, the socket is closed |
| directory sizes (`storage/scan.py`, `size` of `storage/cli.py`) | walk stack, totals | `dir_size` | totals count each file once, an unreadable directory marks all above it incomplete |
| text statistics, hashing, diffs (`file/textstats.py`, `hashing.py`, `diffing.py`, `formats.py`) | a chunk carry, sizes and digests | counts, comparisons, search for duplicates | the result does not depend on how the file is cut into chunks; files that are called equal were equal when they were read |
| commands of `file` (`file/cli.py`) | outcomes so far | thirteen commands, five of them over batches | a target that fails costs no other, targets that share a file or a backup cost no content |
| batch and watch (`core/cliutils.py`) | outcomes so far, the signature of the last round | `collect_outcomes`, `aggregate_exit`, `watch` | one outcome per target in order, the exit code reflects all of them |
| options, rendering, models | none | | not modelled, see section 6 |

## 2. The modules

### Guarded writes: `GuardedWrite`, `AtomicUpdate`, `MCGuardedWrite`, `FileProofs`

`GuardedWrite` has one process per command (`Job`) and one action per system
call `file/atomic.py` makes, because other commands run between any two of
them. The directory `dir` maps paths to abstract contents; `Torn` is a file
somebody has written in part; `link` holds symbolic links. `pc` is the line a
command is at, `base` what it read, `content` what it will write, `temp` its
temporary file, `saved` what `shutil.copy2` has in its buffer.

| action | code |
|---|---|
| `Validate` | `_validate_write_destination` and the option checks before any read |
| `ReadSource`, `ReadFails` | `formats.read_bytes`, the conversion, `_write_guarded`'s choice of a route |
| `CheckBackup` | `bak.exists() and not force` |
| `BeginCopy`, `FinishCopy`, `CopyFails`, `CopyRefused` | `shutil.copy2`, which truncates first and fills later |
| `MakeTemp`, `WriteTemp` | `_write_temp` |
| `Replace`, `ReplaceFails` | `_atomic_replace` |
| `LinkDest`, `LinkFails`, `RemoveTemp` | `_create_exclusive` and its `finally` |
| `Kill`, `Restart`, `Edit` | the process dies or Ctrl-C unwinds it; the operator runs it again; another program saves a file |

A copy in progress keeps its file open: when another process renames a new
file over that name, the copy goes on writing to the old, now nameless file
(`orphan`). `AtomicUpdate` is the promise: a command looks at its source at
one moment and at one later moment its destination takes the whole converted
content, or nothing changes. `Implements` maps `GuardedWrite` to it, hiding
backups and temporary files.

Observed and not a property: `--in-place` on a symbolic link replaces the link
with a regular file and leaves the file it pointed at alone (`os.replace`
renames over the link).

### Commands on files: `FileCommand`, `LineEndings`, `Duplicates`, `MCFileCommand`, `FileProofs`

`FileCommand` is what an operator does with `opskit file`: a session of
commands, one after the other, on the directory of `GuardedWrite`, which other
programs may write to. `Give` checks the options; `eol_cmd`, `convert_cmd`,
`pretty_cmd` and `reencode_cmd` hand target *i* of the command to job *i* of
`GuardedWrite` (`BeginWrite`, `Write`, `EndWrite`), so the jobs, which run
against each other in `MCGuardedWrite`, here run one after the other and meet
what the earlier ones left: the same file, its link, its backup, and all of it
again when the command is repeated (`Restart`). `validate_cmd`, `stat_cmd`,
`hash_cmd`, `encoding_cmd`, `identify_cmd` and `diff_cmd` look at a target once
or several times. An outcome is kept (`Keep`, which is `collect_outcomes`) or
the command is broken off (`Break`): by what is no `OpskitError` (`WriteRaises`,
`LookRaises`, `ScanRaises`, `SearchRaises`) or by Ctrl-C (`Interrupt`). `Exit`
makes the exit code.

`LineEndings` is `textstats.py` over contents made of CR, LF and other bytes:
`CountChunk` is `_count_chunk` with its pending CR, `Normalize` is
`normalize_line_endings`. `FileCommand` reads a file through them in chunks of
any length (`OpenScan`, `ReadChunk`, `EndScan`) while other programs take the
name away. `Tally` and `NormalizesTo` say what the result should be without
chunks: one style, the same text between the ends of lines, as many other bytes as
before, and nothing left to do for a second pass. `Duplicates` is `find_duplicates`: `List`, then `Measure` for every
file, then `Digest` for those whose size is shared, then `Group`; a file that
has gone or changed in the meantime is skipped or counted as it was when it was
read. `had` is a history of what each path has held since the listing, to which
every write of another program adds (`Overtaken`); `DuplicatesTrue` compares the
groups with it.

The components assume of their constants that the directory has finitely many names
(`DirectoryAssumption`), that files are sequences of bytes (`ByteAssumption`), that a
session gives one write command, perhaps several times (`SessionAssumption`), and that
an `eol` either refuses what it read or makes LF of its ends of lines
(`EolAssumption`), which is what `LineEndings` computes.

### Network attempts: `NetAttempt`, `NetProbe`, `NetCommand`, `MCNetProbe`, `NetProofs`, `NetCommandProofs`

`NetAttempt` is one attempt of `net check` or `net probe`, one action per
system call: `Resolve`/`ResolveFails` (`tcp.resolve` under its deadline),
`OpenSocket`, `Accepts`, `Refuses`, `Silent`, `NextAddress`, `GiveUp`
(`tcp.connect` and the same walk in `udp.udp_probe`, which ends on `Replies`
or `Unreachable`), and `SendRequest` to `AnswerCut` for
`proxy.connect_via_proxy`. `log` is a history of what the network answered at
each address; the properties compare it with `outcome`.

| variable | code |
|---|---|
| `pass`, `at` | the two `for` loops of `tcp.connect` and `udp_probe` |
| `refused` | `refused_exc is not None` |
| `round` | the retry loop of `connect_via_proxy`, which calls `connect` without retries |
| `open` | sockets this attempt has opened and not closed |
| `chunks` | pieces read by `_read_response_head`, up to its 65536 bytes |

`NetProbe` extends it with `net.api.probe`: the pre-flight
lookup, attempts one after the other (`Record` is `_run_attempt`), the callback
(`Report`), the pause, Ctrl-C at any of those points and the exit code
(`AggregateExit` of `ExitCodes`). The composition is a conjunction: `Attempt` takes a step of
`NetAttempt` and leaves the run alone, every other action does the reverse.

`NetCommand` is the commands `net check` and `net probe` around both. A command
holds where a proxy and exemptions may come from: `Nominated` is
`resolve_proxy_config`, `Exemptions` is `_exemption_list`, `Exempt` is
`proxy_exempt` on names that are sequences of labels, `Routed` is `_route_for`.
`Check` begins a round: each target is refused (`RefuseTarget`: it does not
parse, or UDP would go through a proxy) or gets one attempt (`TakeTarget`,
`CheckAttempt`, `Conclude`), `EndRound` makes the exit code or, under `--watch`,
compares signatures, `Wake` begins the next round. `OutcomesTold` says with
`Behind` which targets belong behind the proxy in words of its own.

### The listener: `Listener`, `MCListener`, `NetCommandProofs`

`Listener` is `net.listener.Listener` together with whoever iterates over
it. `__enter__` is `Bind` and `Enter`; the generator `events` is `Poll`,
`Select`, `Receive`, `Resume`, `RoundEnds`; the consumer's loop body is
`Consume`; `__exit__` is `Leave`. `stage` tells whose code is running, which is
what decides where a `KeyboardInterrupt` goes: into the generator
(`InterruptEvents`), into the body of the loop (`InterruptConsumer`), into the
banner between `__enter__` and the loop (`InterruptBanner`) or into the binds
(`InterruptBind`). `ToldCaller` is the exit code of the command, or what a program sees. `caller`
distinguishes the command, which swallows the exception, from a program that does
not. Peers (`Arrive`, `Vanish`) and the
deadline (`Expire`) move at any time; a ready socket may therefore have nobody
behind it when `accept` is called.

### Group walks: `Membership`, `MCMembership`, `WalkProofs`

`Membership` is `AdClient.membership`, `is_member` and `members` from the
lookup (`Find` to `FindGroupFails`) over the direct entries (`Primary`,
`DirectOnly`, `Classify`) to the loop of `_expand_nested` and
`_expand_members`, which are the same actions with other error handling:
`Expand` takes the first group of the queue and reads its links, `Skip` and
`Add` deal with one link each. The directory itself is not a variable. Every
read may return any list of `Lists`, since other people edit the directory
between two reads; `seen` is a history of what was returned, and the properties
speak about `seen`, not about a directory at rest. `Dn` is a spelling and
`Key[d]` the object it names, which is `dn.lower()` in the code.

`Failure` has two members because the code treats them differently:
`AdError` (which a refused read and a failed search are) is swallowed on the
way down by `_read_entry_or_none`, the errors of the connection are not.

### The directory session: `AdSession`

`AdSession` is one `AdClient` over several calls. `Call` is `_ensure` or the
start of `check`; `Explicit`, `Discover` and `DiscoverNothing` are
`_candidates` with `discovery.discover_dcs`; `TryNext`, `FailWith` and
`Exhausted` are the loop of `_connect_any`; `Reach` to `BindFails` are
`directory.connect_session` with its `except BaseException`; `Adopt` is the
choice `check` makes between its connection and the one the client had;
`ReadRoot`, `Base`, `Page` and `SearchFails` are the use of a session. `open`
holds the ids of open connections, so a connection nobody refers to is visible
in the model although the code has no variable for it. `Hosts` has the order of
candidates: `IsOrdering` says what the sort and the de-duplication compute
without the sort, and `CandidatesDetermined` proves that it is one list. `Vanish` lets the server of a kept session go away.
A bind counts as having sent the password whether or not it succeeds.

### Commands on the directory: `AdCommand`, `AccountStatus`, `MCAdCommand`, `AdProofs`

`AdCommand` runs the commands of `ad/cli.py` over `AdSession`. `check`, `groups`
and `member` make one call; `user`, `members` and `show` connect first and take
their names in turn over that one session (`Connected`, `SearchMore`, `Take`).
A connection that cannot be made is the outcome of every name (`ConnectFails`,
the `except` in `_run_batch`). A name ends as an answer (`user_status`,
`Answer`), as not found, ambiguous or that of a group (`NotOne`,
`RedirectFails`) or as the error of the session (`NameFails`). `Emit` is
`_emit_batch`, `Wake` the next round of `user --watch` on the same client,
`Unwind` what Ctrl-C and other exceptions do, `Leave` the `with` of the client.
The phase `library` is a Python caller, who makes the calls of `AdSession` in
any order.

`AccountStatus` is `_derive_status` over `attributes.py`: an account, the
attributes a controller makes of it (`Value`), and the facts derived from those
the reader may see (`Derive`). A FILETIME is zero, the highest value, past,
future or one that no datetime holds. `Faithful` compares the report with the
account (`Blocked`), not with the attributes.

### Exit codes: `ExitCodes`

`AggregateExit` is `cliutils.aggregate_exit`; `Summarises` says of an exit code
and the codes of the parts what the constitution (Art. IX) asks, one part at a
time. `NetProbe`, `NetCommand`, `TlsCommand`, `DnsCommand`, `FileCommand`, `AdCommand` and `DirSize` extend
it, since each makes one exit code of several parts.

### DNS: `DnsQuery`, `DnsTrace`, `DnsCommand`, `MCDnsCommand`, `DnsProofs`

`DnsQuery` is one library call. `Begin` is `_prepare` (or the check for two
resolvers), `Answer`, `Truncated`, `Silence`, `Unreachable` and `Malformed` are
what one pass of the loop in `_send` can meet; `TryFails` is the loop itself.
Every verdict on a question goes through `Conclude`, which is the body of
`_query_types`, and from there to the next type, the next resolver
(`NextServer`, `compare`) or the caller (`EndLookup`, `_finish`).

| variable | code |
|---|---|
| `pc` | the transport of the call of dnspython that is running, or `idle`, `over` |
| `at`, `type` | the loops over resolvers and record types |
| `tries` | `_` in `for _ in range(retries + 1)` |
| `records`, `firstError` | the locals of `_query_types` |
| `answers` | the list `compare` builds |
| `log` | history: the verdict on each question |

`DnsTrace` is `trace_resolution`: `HopEnds`, `HopBreaks`, `HopRefers` are the
response of one hop, `GlueFound` and `GlueMissing` the lookup of a name server
without an address, A and then AAAA. A server may refer to any zone, the root
included, which puts "." in charge again (`Referral`). A step keeps what
`TraceStep` keeps: the server, the zone, the kind of its response, its records and
the zone its name servers are named for. `offers` is a history of where each
response pointed. `DnsCommand` runs either for every target (`Work`,
`Collect`; of a trace all its steps are kept, `ResultOf`), makes the round's exit code and signature (`EndRound`), waits
(`Sleep`), and meets Ctrl-C (`Interrupt`). The composition is again a
conjunction: a step of one part leaves the others alone.

### TLS: `CertFindings`, `TlsCheck`, `TlsCommand`, `MCTlsCheck`, `TlsProofs`

`TlsCheck` extends `NetAttempt`, whose socket it takes over as `check` takes
over that of `net.connect`. `Wants`, `Ready` and `TimesOut` are the turns of
`_handshake_with_timeout`, `Tick` is the clock, `Complete` and
`HandshakeFails` the ways out of `perform_handshake`, `BadContext` a CA file
that does not load. Every exception after the connection goes through `Leave`,
the `finally` that closes the socket. `Inspect` computes the findings with the
operators of `CertFindings`, a translation of `inspect.py` in which a name is
the sequence of its labels. The properties do not use those operators: `Covers`
says in other words which names a wildcard stands for, and `VerdictTrue` what a
verdict says about the certificate that was presented.

`TlsCommand` is the command around it, and a program that calls the library
(phase `library`, the only one that may set `raise_on_invalid`). `Effective` is
`effective_name`: `--sni` stands for every target. `Take` gives a target a check of
its own, `Conclude` keeps what came of it, `ConcludeRaises` is what
`collect_outcomes` does not catch, `EndRound`, `Wake` and `Interrupt` are `watch`.

### Directory sizes: `DirSize`, `MCDirSize`, `WalkProofs`

`List` and `ListFails` take a directory from the stack, `SkipHidden`, `SkipSpecial`,
`IsDirectory`, `IsFile` and `EntryFails` are what the loop over its entries does with
one of them, `RollUp` is one turn of `_aggregate`. The tree is not a variable: a
directory may list anything and an entry may be anything when it is looked at,
so every change by other programs between two looks is included. `total` is
first `own_bytes` and then `total_of`, `incomplete` first `failed` and then
`incomplete_of`; the code copies, and does not use the originals again. Two
histories say what a complete walk would have read: `met` is all that directories
have listed, `known` what of it was listed in turn, measured, or seen to be neither
file nor directory. The rest is `Unread`, but for the names that are `LeftOut`
because they are hidden; `LowerBoundsMarked` compares with it what the walk reports,
so that an entry the walk forgets is seen.
`Lineage` and `Weight` define what a total should be without the walk. The names
form a tree (`TreeAssumption`: no directory is in itself), because the walk does not
follow symbolic links.

## 3. The runs

State counts are those of a complete search; every run takes less than
two minutes with two workers.

| run | configuration | distinct states | what it asks |
|---|---|---|---|
| `guarded_mixed` | two commands, each any of six requests on `a`, the link `l` and the output `o`, the first of them run up to twice; one foreign edit of `o`; kills | 563,844 | atomicity, who may write what, refinement of `AtomicUpdate`, termination |
| `file_commands` | 160 sessions with every command: batches of two targets that share a file, are a link or a backup of each other, given twice or with `--force`; every content of up to three bytes cut into chunks in every way; foreign edits of one file; Ctrl-C and exceptions anywhere | 488,152 | do contents survive, are reports, counts, groups and exit codes true, does every command end |
| `file_abort` | one `eol` of two targets | stops at the violation | can one target abort a batch |
| `guarded_clobber` | two commands that back up the same file | stops at the violation | is a backup really never overwritten without `--force` |
| `probe_run` | probes of up to two attempts; checks of two targets under every source of a proxy and of exemptions, and of one target for three rounds of `--watch`; up to two addresses and one retry, TCP, UDP and proxy, Ctrl-C | 265,343 | sockets, what an outcome rests on, routes, accounting, exit code and announcement of a round, end of the run |
| `probe_abort` | the same | stops at the violation | can one attempt abort the run |
| `listener_session` | limits 1, 2 and none, five peers, both families, both callers | 86,610 | counts, stop reason, sockets, and the end after the deadline |
| `ad_session` | a caller with three calls in any configuration; every command of `ad` on one or two names, `user --watch` for three rounds; two servers, four SRV answers; 64 sets of visible attributes | 1,785,347 | connections, candidates, passwords, staged report, outcomes and exit code of every name, status of an account |
| `membership` | four objects, one of them under two spellings, five link lists, all requests | 417,905 | each entry once, over a real and shortest chain, nothing missing, the walk ends |
| `dns_rounds` | two resolvers, two types, one retry, traces of three hops; over the zones "." and "com", with and without addresses; two targets or three rounds of `--watch`, of a trace two; Ctrl-C | 611,878 | what a lookup, a comparison and a trace report, exit code and announcement of a round, end of a round |
| `tls_check` | one check by a program: two addresses, a deadline of two ticks, three identities, 344 certificates; commands of two targets with and without `--sni`; three rounds of `--watch` on a changing certificate | 248,490 | verdict, layer, socket, exit code and announcement of a round, end of a check and of a round |
| `dir_size` | six names on four levels, one hidden, four depths, two targets | 146,774 | totals and breakdown, lower bounds and exit code, end of the command |

Some properties are conjunctions of parts that are defined, explained and broken
by mutants one by one: `FilesWhole` (`NeverTorn`, `NoLitter`), `OnlyAsTold`
(`SourceUntouched`, `OutputExclusive`), `OutcomeTrue` (`SilenceIsSilence`,
`AnswersAreFinal`, `OpenIsReal`), `CommandTold` (`RunReported`, which
is `RunAccounts` and `ExitTells`, `OutcomesTold` and `RoundsTold`),
`SummaryTrue` (`WithinLimit`, `BoundedOvershoot`, `SummaryCounts`, `ReasonTrue`),
`EntriesTrue` (`Once`, `ChainsReal`, `NoShortcut`), `AnswersTrue`
(`LookupTrue`, `ComparisonTrue`) and `ChecksTold` (`VerdictTrue`, `RoundsTold`). Each module has one type invariant (`TypeOK`, or with a
prefix where modules are composed, like `TlsTypeOK`);
outside `GuardedWrite` the runs check it as the first conjunct of a property
that relates the state of the resource to the phase: `ConnectionsOwned`,
`SocketOwned`, `SocketsClosed`, `TotalsTrue`, `EntriesTrue`, `LayersTrue` and the
`ExitTells` of `DnsCommand`.

### Why these bounds

- **Commands on files.** A race in `file/atomic.py` is between two commands or
  between a command and one other writer: each check is followed by one act.
  Three writers add no new pair of adjacent steps. Four contents (old, mine,
  and the result of each command) tell all writers apart. `j2` rejects the
  output of `j1` (`Invalid`), so failures after a concurrent write are reached.
  A second run is what it takes to meet the partial backup a
  first run left behind.
- **Attempts.** Two addresses and two passes are the least at which "one
  address refuses and the other is silent" meets "a pass after the first".
  With two chunks a response head can be complete, cut or too long. Two
  attempts show the reset between attempts and mixed verdicts for the exit
  code. Hosts are a domain, a host in it and one outside; the checked pair has one
  target that an exemption of the domain covers and one that it does not. The
  third round of a watch is compared with the second and not with the first.
- **The listener.** Five arrivals on two sockets with limits 1 and 2 fill both
  sockets in one round when one more event is allowed, which is where the limit
  could be overrun, and leave peers over when the deadline has passed.
- **Commands on files.** `MCFileCommand` does not multiply its sessions: each
  family asks one question. Two targets are every way in which one target can
  meet another (same file, link before and after its file, file before and after
  its backup, unrelated files one of which others edit), a command that is given
  twice is what follows a broken one. Three bytes are a pair and a byte before
  or after it, five of CR and LF two pairs and a border inside either; every cut
  into chunks is taken. A search needs three files for two of them to be alike
  and one to change.
- **The session.** The first call connects, the second finds a session (a query
  uses it, a check opens another), the third meets what those left, a dead
  server or a rootDSE that could not be read. The answers contain a server that
  is listed twice, ties, and an order against the preference.
- **Group walks.** Among the five lists are a self-loop (`<<c, a>>` read for
  `a`), mutual membership, a diamond, two spellings of one object and empty
  answers; since each read picks its list freely, four objects produce every
  graph these lists can make, and graphs that change during the walk.

- **DNS.** Two types are what it takes for one to fail and one to answer, two
  resolvers for two to disagree; one retry shows a try that falls back to TCP
  followed by one that does not. Records are abstract: one is enough to tell an
  empty answer from a full one, and agreement looks at code and records. Three
  hops allow a zone to be delegated, a referral back up to the root, and a question
  to the server that led to. A referral comes with two addresses, of which the first
  is asked, or with none, which sends the trace to look up a name. Two rounds are
  compared with each other, the third with the second and not with the first; two are
  enough for traces, whose rounds are compared by the same action.
  `MCDnsCommand` does not multiply these: a watched command has one target, a
  comparison of several targets one type.
- **TLS.** The deadline of two ticks lets a message arrive before, at and after
  it. `MCTlsCheck` presents every set of up to two alternative names and every
  pair of errors that the classification can confuse; days go from expired to
  one beyond the threshold. In a batch one certificate is enough to be good for one
  target and not for the other; a watched server has four that differ from one
  another in one respect each.
- **Directory sizes.** Four levels are one more than the deepest breakdown, and
  three directories in a line are what a roll-up in the wrong order gets wrong. Two
  entries in one directory let one be lost and the other counted, and one hidden name
  shows what is left out on purpose.

### Fairness

- `GuardedWrite`: weak fairness of each command's `Step`. A process that is not
  killed keeps running, and each step is one system call on a local file
  system. Kills, restarts and edits are not fair. `Terminates` therefore holds
  without anybody restarting a killed command.
- `Listener`: weak fairness of `ListenerStep` (one thread, and `select` is called with a
  timeout of a quarter of a second) and of `Expire` (time passes). No fairness
  of peers or of Ctrl-C: `Stops` is the claim that the session ends after its
  deadline, whoever keeps connecting.
- `NetCommand`: weak fairness of `Step`. Each call under it has a timeout;
  `ReadChunk` is bounded by the size limit of the response head, not by time
  (see the observations). Under `--watch` the end of every round is promised. Ctrl-C is not fair.
- `Membership`: weak fairness of `Next`. Every read ends because the connection
  has a `receive_timeout`. No read is assumed to succeed.
- `DnsCommand`: weak fairness of `Step`: each question has a timeout and a bound on
  tries, each trace a bound on hops, each pause ends. Ctrl-C is not fair, and
  `RoundsEnd` promises the end of a round, not of a watched command.
- `TlsCommand`: weak fairness of the steps of the command together with `Work`,
  and of `Tick`. The second is what a deadline
  is for: the peer may keep the handshake going, time does not stop.
- `DirSize`: weak fairness of `SizeNext`. The names are finitely many, so the walk
  ends; a tree to which others keep adding deeper directories faster than the
  walk descends is beyond this model, and beyond any walk.
- `FileCommand`: weak fairness of `Progress`: a command that was given keeps
  running, and each of its steps is a call on a local file system. `CommandEnds`
  assumes nothing about the operator, Ctrl-C or other programs.
- `AdSession` and `AdCommand` state safety only: an idle client may stay idle for
  ever, and how many searches a name takes is the business of `Membership`.

Deadlock checking is off in all runs: each of these programs is meant to stop.

### Where the code and its documents disagree

1. `guarded_clobber` violates `BackupExclusive`. `specs/007-file-operations`
   promises that an existing `.bak` is not overwritten without `--force`.
   `write_in_place` looks (`bak.exists()`) and copies (`shutil.copy2`) in two
   steps, so of two commands on one file the second overwrites the backup of
   the first; when the first has already replaced the source, what is lost is
   the original content.
2. `probe_abort` violates `AttemptNeverAborts`. A failing attempt must not abort
   a probe run (FR-009 of the net specification); `tcp.connect` creates its
   socket outside the `try`, and an `OSError` from there passes `_run_attempt`,
   which catches `NetError` only. `net check` catches `OpskitError` in
   the same place, so one such target costs the report of all the others, where
   `net/cli.py` line 483 says "never abort on first failure".
3. `file_abort` violates `NoTargetAborts`. The file specification
   (`specs/007-file-operations/spec.md` lines 256 and 353) says that a target
   that cannot be read never crashes the batch; `_reject_directory`
   (`file/formats.py` line 121) asks `is_dir()` outside the `try` of its callers,
   so what that raises (before Python 3.14 a directory that may not be searched
   or a name that is too long; `read()` in `textstats.py` line 72 and
   `hashing.py` on any version) passes `collect_outcomes`, which catches
   `OpskitError` only.

TLC's trace for `probe_abort` is the shortest one, a check of one target under
`--watch`; an attempt of a probe takes the same action.

### Observations

Behaviour met while modelling that no run is spent on:

- Data model of the file operations, line 120: the backup is the content before
  the conversion. The copy is made after the read, so with a writer in between
  it is a later content than the one converted.
- `tcp.py` line 161: the docstring speaks of every candidate refusing; one
  refusal among silent candidates is enough (`GiveUp`), by design of the code.
- `proxy.py` line 316: the timeout is documented per stage and applied per
  `recv`, so a proxy that dribbles can stretch an attempt up to the size limit.
- `net/cli.py` lines 825 to 828: Ctrl-C while the listen banner is printed
  aborts without the summary the specification asks for (`InterruptBanner`).
  A library consumer hit by Ctrl-C in its own loop body sees the reason
  `error`, the command sees `interrupt`.
- `core/cliutils.py` line 116: no outcomes at all aggregate to success, so a
  probe interrupted in its first attempt exits 0.
- A lookup that ran into its deadline leaves its thread behind, and the
  interpreter waits for that thread at exit.
- `check` on a connected client reports the server of the old session with the
  stages of the new one; `server_used` need not be in `candidates_tried`.
- `_connect_any` says it rotates on reach failures only. A timeout during
  StartTLS or the bind is classified `ConnectTimeout` and rotates as well.
- A rootDSE read that fails once is remembered as read (`ReadRoot`,
  `RootInterrupted`); later queries by name fail on that client for lack of a
  search base. A session whose server went away is kept, too.
- `members` swallows an `AdError` on a group it cannot read, and a lost
  connection that ldap3 reports in unfamiliar words is an `AdError`: the report
  then ends early without saying so. A search answered with "no such object"
  in the middle of its pages returns the rows so far.
- `compare` (`dns/api.py` line 336) says that a resolver that fails does not abort
  the comparison. What dnspython raises beyond timeouts and socket errors (a
  connection closed in the middle of an answer, a response that does not parse)
  is not caught and ends the whole command (`Malformed`, `HopBreaks`).
- A failing type is dropped without a word when another one answered, also by
  `lookup_all`, whose docstring says that nothing that exists is missed
  (`Tolerated`); a comparison can call two resolvers consistent although a type
  failed at one of them.
- `DnsTimeout` says "no response" also when a truncated answer came over UDP and
  only the repetition over TCP was silent (`Truncated`).
- FR-010 (`specs/001-dns-diagnostics/spec.md` line 247) wants to be shown when the
  answer changes. Under `--watch` the signature of a trace holds the kinds of its
  responses only (`dns/cli.py` line 315), so a path over other servers or zones, and
  other records at its end, are "no change". The model keeps all of them;
  `ChangeShown` states what the code does, and `ToldApart` how little of a trace that
  is. Ctrl-C in the first round exits with success (`Interrupt`).
- `specs/006-storage-diagnostics/spec.md` lines 153-155 want hidden entries that cannot be accessed
  skipped and reported "regardless of the hidden-files flag". `storage/scan.py` line 96
  passes over a hidden entry before it looks at it, so without `--include-hidden` one
  that cannot be read is neither reported nor marks a total, and the command exits
  with OK (`SkipHidden`). `LowerBoundsMarked` speaks of the others, and says so.
- An entry that is gone when it is looked at is reported if a call on it fails. If its
  listing did not tell its type, `is_dir` and `is_file` call it neither, and it is
  passed over like a socket or a device (`SkipSpecial`).
- `tls/api.py` line 80 speaks of a handshake that timed out "after retries"; only
  the connection is retried. A CA file that cannot be loaded raises OpenSSL's own
  error (`BadContext`). A certificate that runs out between the handshake and the
  count of its days is reported as good and without a warning (`Inspect`).
- `src/opskit/tls/README.md` line 103 promises exit 11 "if < 14 days remain"; the
  code, like FR-010 of its specification ("within"), includes the fourteenth day, and
  so does `VerdictTrue`.
- `tls/inspect.py` compares the name as it was typed (line 107) while the handshake
  sends the A-labels of an internationalised name (`tls/handshake.py` line 154). The
  model has one sequence of labels for both.
- `dir_size` asks `exists()` first, which raises a bare `PermissionError` before
  Python 3.14 when the directory above may not be searched; the command then ends
  without the results of its other targets (`Break`). A root that vanishes after
  that question is reported as a lack of permission (`ListFails`).
- A file with two names is counted at each of them, and a directory that is moved
  during the walk may be counted twice or not at all: nothing promises otherwise,
  and `TotalsTrue` speaks of what was met.
- The hint of `ProxyConnectRefused` (`net/proxy.py` line 242) says the target was
  never tried. After a first round that sent `CONNECT` and timed out, a refusal in
  the second round carries the same hint.
- An `accountExpires` that no datetime holds leaves `account_expired` null without
  listing it as unavailable (`ad/api.py` lines 382 to 387), where
  `specs/004-ad-diagnostics/data-model.md` lines 55-56 wants one or the other. `StatusTrue`
  allows it: such an account does not expire in this epoch.
- A password expiry of zero is reported as "never expires", also for an account
  that has to change its password; a `lockoutTime` that cannot be converted is
  read as not locked.
- With `--force`, `eol --in-place --backup` on a file and its own backup may
  overwrite a target that was converted with the backup of a later one
  (`BatchTold` speaks of batches without `--force`).
- Ctrl-C in the first round of `user --watch` exits with success (`Unwind`); a
  session whose server went away is kept for all the rounds that follow
  (`ad/api.py` line 523), each of which fails.


## 4. What is proved

| module | proves about |
|---|---|
| `FileProofs` | `GuardedWrite` and its refinement of `AtomicUpdate`; `FileCommand`, `Duplicates`, `LineEndings` |
| `NetProofs`, `NetCommandProofs` | `NetAttempt`; `NetProbe`, `NetCommand` and `Listener` |
| `AdProofs` | `AdSession`, `AdCommand`, `AccountStatus` |
| `WalkProofs` | `Membership` and `DirSize` |
| `DnsProofs` | `DnsQuery`, `DnsTrace`, `DnsCommand` |
| `TlsProofs` | `CertFindings`, `TlsCheck`, `TlsCommand` |
| `ExitCodeProofs` | lemmas the others share: induction over natural numbers, exit codes |

Every safety property that a run checks, invariant or action property, is the
statement of a theorem here, as is the refinement; what remains with TLC is
liveness. The theorems hold for every value of the constants: any number of
commands, sessions, paths, contents, runs and edits, any directory and any tree of
directories, any number of addresses, retries, targets and rounds, of peers and
limits, of servers, calls and accounts, of certificates, of resolvers, record types
and hops, any order of failures. They assume what the ASSUMEs of the components
state, nothing else, and TLC evaluates those in the runs above.

The library's induction theorems take an operator as a parameter, which the
provers cannot instantiate. `NatInduct` therefore speaks of a set of numbers:
a set that holds 0 and the successor of each member holds all. It follows from
`NatLeast`, and from it `NatRecursion` (a recursive definition has values),
`SeqInduct` (the same for sequences that grow at the end) and the lemmas on
orderings of finite sets.

### `FileProofs`: commands side by side

| theorem | property |
|---|---|
| `WellTyped`, `Atomicity`, `Tidiness` | `TypeOK`, `NeverTorn`, `NoLitter` |
| `Recovery`, `TruthfulReports` | `Recoverable`, `ReportHolds` |
| `NonDestructive`, `NoOutputClobbered` | `SourceUntouched`, `OutputExclusive` |
| `Wholeness`, `Obedience` | the pairs of these that the runs check: `FilesWhole`, `OnlyAsTold` |
| `Refinement` | `Implements`, the refinement of `AtomicUpdate` |

`TypeOK` is not inductive enough to say that a rename installs complete bytes.
`IInv` adds `Prepared`: a command past its read has a path to write to and the
conversion of what it read, its temporary file equals that content when it is
installed, and it has none in the phases where it must not. From `IInv` every
step keeps torn bytes out of everything but backups (`WholeStep`).

The claims about other writers need two facts that link the state to the
requests: `LinkInv` (a source is reached through the link the directory started
with, or not through one at all) and `ApartInv` (commands that are alone on
their files are not disturbed by others). `SafeInv` is then proved for those
commands: between read and end the source is undisturbed (`Undisturbed`), and
the original is in the source or in the backup at every phase (`Kept`), also
after a kill, because the phases in which the backup is partial are those in
which the source has not been replaced.

`Refinement` follows one lemma per kind of step: `AbstractInit`,
`AbstractRefuse`, `AbstractLook`, `AbstractPut`, `AbstractCommit`, and
`Invisible` for everything that only moves temporary files and backups.

### `FileProofs`: sessions of commands

| theorem | property |
|---|---|
| `SessionTypes` | the invariants of `GuardedWrite`, and how far the session has got |
| `SessionWhole`, `SessionObeys`, `SessionImplements` | `FilesWhole`, `OnlyAsTold`, `Implements` |
| `SessionRecovery`, `SessionReports` | `Recoverable`, `ReportHolds` |
| `SessionKeeps` | `FirstContentKept` |
| `SessionTold` | `BatchTold` |
| `LineEnds` | `LineEndingsTrue` |
| `Grouping` | `DuplicatesTrue` |

`CommandStep` says that each step of a session is a step of one job of
`GuardedWrite`, of another program, or none. So all that was proved of commands
that run side by side holds of the targets of one batch, which run one after the
other, and of a command that is given again (the first three rows).

What a batch adds is that its targets meet each other: two may be one file, one may be
the backup of another. `Sole` (only the current target's job is under way) makes it
possible to say what holds between targets:

- `SessionKeeps`. `HeldInv`: what a target held at first is in that target, still
  as the directory had it, or in some backup of the batch. `CopyInv` is what makes it
  inductive: without `--force` a copy begins where there is no file, so no backup
  that holds something is ever written again, and before a source is replaced its
  backup is exactly what it reads as. `JobEffects` lists what a job can do to the
  directory, `HeldJob` and `HeldOther` go through it.
- `SessionTold`. `OutcomeInv`: outcomes are as many as targets are done, and the code
  is that of all of them. `FineInv`: a target that was reported as done has the asked
  style, and stays so when a later target is the same file or links to it, since
  all that is installed in such a batch has that style (`EolContent`, `Mends`).
- `Grouping`. `SearchInv`: each size and each digest is that of something the file has
  held since the listing (`had`), and groups are the classes of equal digests. So two
  files of a group have held the same, whatever was written meanwhile; and of a file
  that was left alone size and digest are those of its content, hence files of
  different sizes need not be read.
- `LineEnds`. `ScanInv`: what has been counted, with the pending CR, represents the
  bytes read so far (`Represents`), which `ChunkCounted` extends by one chunk of any
  length wherever it is cut. `TallyConcat` and `HeldTally` are what counts do when
  sequences are joined, also between a CR and its LF. For the conversion, `Unified` is
  the text with LF for every end of line and `Marked` puts the new style in its place;
  `UnifiedAppend`, `TallyAppend` and `MarkedAppend` follow one more byte, and `NeatByte`
  and `SeqInduct` carry what they say to contents of any length (`Normalizes`).

### `WalkProofs`: group walks

| theorem | property |
|---|---|
| `WellTyped` | `TypeOK` |
| `ReportedOnce` | `Once` |
| `TrueChains` | `ChainsReal` |
| `WholeClosure` | `ReportIsClosure` |
| `ShortestChains` | `NoShortcut` |
| `TrueEntries` | `EntriesTrue`, which is `TypeOK`, `Once`, `ChainsReal` and `NoShortcut` |

The argument goes up in layers, each of which uses the ones before it:

1. `Shape` fixes what is empty in which phase.
2. `Apart`: what is in `results` has its key in `visited` from the moment the
   walk starts, hence nothing is added twice.
3. `Traced`: the chains of entries, of queued items and of the group being
   worked on are trails of links in `seen` from a direct entry.
4. `Covered`: a group that was asked for has all its links in `results` or in
   what is left to do; a group that was not is still queued. `Sound`: every
   entry is in each set that contains the direct entries and is closed under
   the links. Together, when the queue is empty, the report is exactly the
   closure (`ClosureAtEnd`); `Verdict` ties the answer of `is_member` to it.
5. `Levelled`: the queue is sorted by length of chain and spans at most two
   lengths (`Sorted`), and links that were dealt with never lead to an entry
   more than one step further away (`ShortLinks`). That is why taking the first
   element of the queue gives shortest chains, and it is the invariant that
   replacing `popleft` by `pop` destroys.

The walks are loops over sequences, so the proofs need facts about `Head`,
`Tail`, `Append` and ranges; those are the lemmas at the top of the module.

### `WalkProofs`: directory sizes

| theorem | property |
|---|---|
| `SizeTotals` | `TotalsTrue` |
| `SizeBounds` | `LowerBoundsMarked` |

`SizeInv` is `WalkSound` (the walk) and `Outcome` (what is kept of it).

1. `Places`: the root comes first and once, no directory is on the stack or in the
   preorder twice (`OnceEach`), and each comes after the directory it is in
   (`Beneath`). That order is what lets `_aggregate` go backwards: when a directory is
   rolled up, everything below it has been (`BelowRolled`).
2. `Reach`: the recorded depth is the number of directories above, and nothing below
   a hidden name is met unless it was asked for.
3. `Sums`: `total[d]` is the sum of the files counted in `d` and in what has been
   rolled up into it. A sum over a set of files is the number of members of a set of
   pairs (`Bytes`), so the theorems on cardinality take the place of an induction over
   the files (`BytesAdd`, `BytesOfOne`).
4. `Marks`: the same for the mark of incompleteness, which travels upwards with
   the sums.
5. `Accounted`: what is reported is what could not be read, less what is still to be
   looked at or on the stack, and nothing that is known is there. When the walk is over
   both are empty.

### `NetProofs` and `NetCommandProofs`

| theorem | property |
|---|---|
| `SocketsOwned`, `CommandSockets` | `SocketOwned`, of one attempt and of every attempt of a command |
| `OutcomesTrue`, `CommandOutcomes` | `OutcomeTrue`, likewise |
| `CommandReports` | `CommandTold` |

`SocketOwned` is inductive as it stands. `OutcomeTrue` is not: that a timeout
means `retries + 1` silent tries of each address is a fact about the end of two
nested loops. `WalkInv` adds what holds inside them: no final answer has been
heard while the attempt goes on (`Unsettled`), addresses that refused lie
behind the one that is tried (`LeftBehind`), and without a refusal each address
before it has been tried `pass + 1` times and the others `pass` times
(`Counted`, a count of log entries, hence the lemma `TriesHeard` about
cardinalities). A proxy starts both loops again, so for it only `Unsettled` is
kept.

`NetCommandProofs` carries this over to the commands: `AttemptOrAgain` says that
each of their steps is a step of the attempt or replaces it by a fresh one.
`CommandTold` then needs `Account` (how many attempts were made and streamed in
each phase), `Blame` (each mode has its own errors, so an error of a proxy can
only be reported of a target behind one), `OnRoute` (what is being checked can be,
on its own route) and `Complete` (rounds that are kept have an outcome for each
target). Three facts are about data alone: `AggregateSummarises` (the exit code
`aggregate_exit` chooses sums up its codes), `SuffixIsTail` and `RouteTrue`
(matching a host against the exemptions is what the specification of the proxy
support says).

### `NetCommandProofs`: the listener

| theorem | property |
|---|---|
| `ListenerTyped`, `ListenerSockets` | `ListenerTypeOK`, `SocketsClosed` |
| `ListenerSummary` | `SummaryTrue`: the limit, the overshoot, the counts, the reason |
| `ReasonNeverRevised` | `ReasonStands` |

`SummaryTrue` speaks about the end; the invariant `CountInv` says how the
session gets there. `Room`: while peers are accepted there is room for one more
under the limit, which is why two ready sockets do not break it. `Pending`: at
most one event is counted and not dealt with, and only where the consumer is at
work. `Overshoot`: late events and ready sockets together are at most two, and
a new round does not begin after the deadline. `Quiet` and `Caused`: there is no
reason while the session runs, and afterwards each has its cause, or is
missing only where `__exit__` will find it.

### `AdProofs`

| theorem | property |
|---|---|
| `AdConnections`, `LibraryConnections` | `ConnectionsOwned`, of the commands and of any Python caller |
| `AdCredentials` | `CredentialsCovered` |
| `AdOrder` | `TriedInOrder` |
| `CandidatesDetermined` | each SRV answer has exactly one ordering |
| `AdReport` | `ReportTrue` |
| `AdNames` | `NamesTold` |
| `AdStatus` | `StatusTrue` |

`SessionStep` is what a step of either caller does to the session; `LibraryStep`
and `CommandStep` show that each of their steps is one. The invariant is a table
by phase: whether a connection is being set up and a session is there
(`Phased`), which connection is whose (`Owned`), whether it is encrypted when
the password is sent (`Guarded`), how far the candidates have been tried
(`Routed`, `Walked`), which stages a check has completed (`Staged`) and of
which server (`Whose`). `IsOrdering` describes the list of candidates without
computing it; `CandidatesDetermined` shows that it describes one list: records are
in a total order (`PreferenceTotal`), hence hosts by their best record
(`RankingTotal`), and a finite set in a total order can be listed in one way
(`OrderExists`, `OrderUnique`).

`NamesTold` is about a command as a whole. `NamesInv` adds to the session what the
batch does with it: how many outcomes there are in which phase (`Rounded`), the
exit code as soon as the command leaves (`Coded`), that all answers carry the id
of the session that is there (`OneSession`; `SessionStays` shows that a call
never replaces one), and that there is none before the first call and after the
last (`Settled`).

`StatusTrue` is about `_derive_status`. `DerivedFaithful` goes through the facts with
every combination of attributes that can be read, and `FullSight` shows that somebody
who can read all of them is told of every blocker. `StatusInv` carries that through
the rounds: each kept status is that of some account, and a round is announced as unchanged only
when its signature is that of the round before.

### `DnsProofs`

| theorem | property |
|---|---|
| `DnsTyped` | `TypeOK` |
| `AnswersHold` | `AnswersTrue`: `LookupTrue` and `ComparisonTrue` |
| `TracesFollow` | `TracePath` |
| `DnsExits` | `ExitTells` |
| `DnsChanges` | `ChangeShown` |

Three invariants, one for each part:

1. `TraceInv`. The path so far is the one the responses told of (`Followed`), the
   zone in charge is that of the last delegation, were it "." again (`InCharge`), and the phase says
   whom the trace may ask next (`Standing`). The zone is a maximum over the hops;
   the invariant carries its existence along (`Settled`), and `ZoneKept` and
   `ZoneGrows` say what one more response does to it.
2. `QueryInv`. The records and the first error that `_query_types` keeps are the
   sum of what the resolver said so far (`Sums`), hence the lookup returns what it
   said to all questions (`SaidTolerated`); `OthersSaid` and `SumGrows` are the
   frame and the step of that sum, so that the answers of resolvers that are
   through do not change. That an error carries no records (`Pure`) is needed: with
   no records at all, the first error is returned as it was given.
3. `CommandInv` and `Compared`. Rounds are complete and the code is that of the last
   one. `_signature` leaves out targets that failed; `SignatureTells` shows that this
   loses nothing of what `ToldApart` tells apart: in a comparison or a trace a target
   can fail in one way only (`Shaped`), and since only the last response of a trace is
   no referral, the kinds of its responses say how many hops it took and how it ended,
   and no more (`PathsAlike`, `ToldByPart`).

### `TlsProofs`

| theorem | property |
|---|---|
| `Layers` | `LayersTrue` |
| `Checks` | `ChecksTold`: `VerdictTrue` and `RoundsTold` |

`Layers` extends `WalkInv` of `NetProofs` through the handshake: `Layered` says for
each stage which layer has answered, that the socket is open up to the inspection
and closed after it, and that only a handshake whose deadline has passed is a
timeout.

The verdict is computed from a list of findings. `AddTrue` to `AddAllTrue`: no
condition is reported twice and none is lost, whatever the order in which they are
found; `VerdictOfFindings`: they make the verdict that the recorded errors, the
names and the days left ask for; `PatternCovers` and `MatchCovers`: comparing label by
label, with a wildcard for the first, accepts the names a pattern covers and no
other. `InspectTrue` puts these together for any certificate. `RoundInv`,
`RoundsInv` and `ExitTold` are about the command: nothing is called good without a
certificate for the name asked for, under `--sni` as well, complete rounds have an
outcome for each target, and the code sums them up (`RoundSummed`).

### What stays with TLC

`Terminates`, `CommandEnds`, `Stops`, `RunEnds`, `Ends`, `RoundsEnd`, `ChecksEnd`
and `SizeEnds` are liveness properties under fairness; the prover cannot reach
ENABLED, so they are checked on the instances of section 3 only. The three
properties that a run finds violated (`BackupExclusive`, `AttemptNeverAborts`,
`NoTargetAborts`) are no theorems, of course.

## 5. Plan

Safety is proved for what is modelled. What could be added, in this order; a new
part joins a run that exists where it shares state with it, and brings its theorem
with it.

1. `show` of the AD client with `_summarize`, and the choice of an encoding from a
   BOM (`file/formats.py`), as operators against a definition.
2. A promise of `ad` in the manner of `AtomicUpdate`: a client is an optional
   session that calls open and use, with candidates, stages and binds hidden.
3. Further facts about the conversions: that `pretty` and `reencode` applied to their
   own output change nothing is a matter of `Convert`, which is any function now.

## 6. What is not modelled

- Tables, JSON and colours (`core/output.py`, `*/output.py`) and the parsing of
  options, of which only acceptance is modelled (`Rejects`, `RejectOptions`): no
  state that survives a call. The commands `storage volumes` and `storage disks`
  print what one library call returns.
- What a conversion other than that of line ends does to bytes (`Convert` is any
  function of the content), how a proxy URL is parsed, how the attributes of a
  directory entry are decoded and summarised (`_summarize`).
- Volumes and block devices (`storage/enumerate_.py`, `linux_block.py`): reads of
  one thing at one moment. What a digest, a diff or a sniffed type is (the looks
  those commands take at a file are modelled, and equal digests mean equal
  content).
- The libraries. ldap3, dnspython, cryptography and the file system appear as the
  answers they may give; the map marks such definitions external.
- Time. A timeout is an answer that may come instead of any other; how long
  anything takes is only modelled where the code compares it with a deadline.

- Certificates are presented as what is read from them; decoding X.509
  (`tls/inspect.py` `parse_certificate`) and DNS messages belongs to libraries. A
  certificate that `parse_certificate` cannot read may raise what is no `OpskitError`
  and end the batch; `Inspect` has no such way out.
- Cases of the code that the modules leave out: a backup path that is a dangling
  symbolic link, of which `exists()` says no and through which `copy2` writes
  (`file/atomic.py` lines 102 to 108; `LinkAssumption` excludes it); a failing `stat`
  that makes a hidden entry look visible on Windows (`storage/scan.py` lines 32 to 35);
  Ctrl-C inside the call of ldap3 that opens a connection.
- What the properties do not see although it is modelled: that a DNS question is asked
  as often as `--retries` allows. A try too many breaks `ExitTells` through its types
  and a loop without an end breaks `RoundsEnd`, but giving up early, or counting one
  try twice, breaks neither.
