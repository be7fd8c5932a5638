----------------------------- MODULE RollingLog -----------------------------
(***************************************************************************)
(* RollingLogger: the log files of a directory, named by day and sequence  *)
(* number, and the processes that write to them.  Within a process a lock  *)
(* keeps the writes apart; processes that share the directory interleave   *)
(* at every access to it.  A write looks at the day and at its own count   *)
(* of what it has written, lists the directory when it may have to go to   *)
(* another file, names that file, deletes the oldest and appends.          *)
(*                                                                         *)
(* A file that is locked can be neither appended to nor deleted, and a     *)
(* process may end at any point and start anew; MaxStuck bounds the        *)
(* deletions that fail.  For the properties stuck counts them, and a file  *)
(* records the numbers of the first and the last line it was given.        *)
(***************************************************************************)
EXTENDS Integers, FiniteSetsExt

CONSTANTS
    Loggers,        \* processes, one RollingLogger each
    MaxFileSize,    \* _maxFileSize
    Keep,           \* _numberOfArchiveFilesToKeep
    Lengths,        \* characters in a line
    BytesPerChar,   \* the most bytes a character takes
    Preamble,       \* bytes that UTF8 puts at the start of a file
    LastDay,        \* bound: days
    MaxLines,       \* bound: lines written
    MaxStuck,       \* bound: deletions that fail
    NoFile          \* a null path

ASSUME RollingLogAssumption ==
    /\ MaxFileSize \in Nat /\ Keep \in Nat
    /\ Lengths \subseteq Nat \ {0} /\ \E n \in Lengths : \A k \in Lengths : n >= k
    /\ BytesPerChar \in Nat \ {0} /\ Preamble \in Nat
    /\ LastDay \in Nat \ {0} /\ MaxLines \in Nat /\ MaxStuck \in Nat
    /\ NoFile \notin Nat \X Nat

VARIABLES
    today,   \* the day, counted from 1
    files,   \* the files of the directory
    lines,   \* lines given to files so far
    path,    \* _currentFilePath
    size,    \* _currentFileSize
    date,    \* _lastWriteDate, 0 for none
    stage,   \* what each process is doing
    list,    \* the files it has listed
    stuck,   \* deletions that have failed
    writers  \* for the properties: the processes that have called Write

logger == <<path, size, date, stage, list>>
vars == <<today, files, lines, stuck, logger, writers>>

Names == (1..LastDay) \X (0..MaxLines)
Stages == {"idle", "name", "purge", "append"}

Line == {[chars |-> n, bytes |-> b] : n \in Lengths, b \in 1..(BytesPerChar * Max(Lengths))}
Lines == {m \in Line : m.chars <= m.bytes /\ m.bytes <= BytesPerChar * m.chars}

Init ==
    /\ today = 1
    /\ files = [f \in {} |-> 0]
    /\ lines = 0
    /\ stuck = 0
    /\ writers = {}
    /\ path = [l \in Loggers |-> NoFile]
    /\ size = [l \in Loggers |-> 0]
    /\ date = [l \in Loggers |-> 0]
    /\ stage = [l \in Loggers |-> "idle"]
    /\ list = [l \in Loggers |-> {}]

GoTo(l, s) == stage' = [stage EXCEPT ![l] = s]

Older(f, g) == f[1] < g[1] \/ (f[1] = g[1] /\ f[2] < g[2])

\* AppendAllText of n lines like m to file f of fs; they get the next numbers.
Given(fs, f, m, n) ==
    LET old == IF f \in DOMAIN fs THEN fs[f]
               ELSE [bytes |-> Preamble, first |-> lines + 1, last |-> lines]
        new == [old EXCEPT !.bytes = @ + n * m.bytes, !.last = lines + n]
    IN  [g \in DOMAIN fs \cup {f} |-> IF g = f THEN new ELSE fs[g]]

\* AppendLine, n times: the file grows by bytes and the count by characters.
AppendLine(l, fs, m, n) ==
    /\ files' = Given(fs, path[l], m, n)
    /\ lines' = lines + n
    /\ size' = [size EXCEPT ![l] = @ + n * m.chars]

-----------------------------------------------------------------------------
(* Write *)

\* SyncFileSystem: on with the file, or list the directory first.
Write(l) ==
    /\ stage[l] = "idle"
    /\ lines < MaxLines
    /\ IF date[l] = today /\ ~(size[l] > MaxFileSize)
       THEN GoTo(l, "append") /\ UNCHANGED <<date, list>>
       ELSE /\ date' = [date EXCEPT ![l] = today]
            /\ list' = [list EXCEPT ![l] = DOMAIN files]
            /\ GoTo(l, "name")
    /\ writers' = writers \cup {l}
    /\ UNCHANGED <<today, files, lines, stuck, path, size>>

\* Mutant: the day of the file is not looked at.
NewestOfAnyDay(l) == {f \in list[l] : \A g \in list[l] : ~Older(f, g)}

\* GetTodaysNewest, as the set of it.
TodaysNewest(l) ==
    {f \in list[l] : /\ f[1] = date[l]
                     /\ \A g \in list[l] : g[1] = date[l] => g[2] <= f[2]}

\* Mutants: the sequence never moves on; it goes back.
NewNumberSame(f) == f[2]
NewNumberBefore(f) == f[2] - 1

\* The number that follows that of a file that is too large.
NewNumber(f) == f[2] + 1

\* The name of the n-th file of the day a process has noted.
FileName(l, n) == <<date[l], n>>

\* CalculateNewFileName.
CalculateNewFileName(l) ==
    /\ stage[l] = "name"
    /\ \/ /\ TodaysNewest(l) = {}
          /\ path' = [path EXCEPT ![l] = FileName(l, 0)]
          /\ size' = [size EXCEPT ![l] = 0]
       \/ \E f \in TodaysNewest(l) \cap DOMAIN files :
             IF files[f].bytes > MaxFileSize
             THEN /\ path' = [path EXCEPT ![l] = FileName(l, NewNumber(f))]
                  /\ size' = [size EXCEPT ![l] = files[f].bytes]
             ELSE /\ path' = [path EXCEPT ![l] = FileName(l, f[2])]
                  /\ size' = [size EXCEPT ![l] = 0]
    /\ GoTo(l, "purge")
    /\ UNCHANGED <<today, files, lines, stuck, date, list, writers>>

\* The newest file has gone since it was listed: FileInfo.Length throws, and
\* so does Write; the day has already been noted.
NameThrows(l) ==
    /\ stage[l] = "name"
    /\ TodaysNewest(l) \ DOMAIN files # {}
    /\ GoTo(l, "idle")
    /\ UNCHANGED <<today, files, lines, stuck, path, size, date, list, writers>>

\* Mutants: one file too many kept; the newest deleted.
FilesToDeleteOneLess(l) ==
    {f \in list[l] : Cardinality({g \in list[l] : Older(f, g)}) > Keep}
FilesToDeleteNewest(l) ==
    {f \in list[l] : Cardinality({g \in list[l] : Older(g, f)}) >= Keep}

\* GetFilesToDelete: all but the newest.
FilesToDelete(l) ==
    {f \in list[l] : Cardinality({g \in list[l] : Older(f, g)}) >= Keep}

\* PurgeOldFiles.  Each file that can not be deleted is reported in a line,
\* unless that can not be appended either.
PurgeOldFiles(l) ==
    /\ stage[l] = "purge"
    /\ \E left \in SUBSET (FilesToDelete(l) \cap DOMAIN files) :
          LET kept == [f \in (DOMAIN files \ FilesToDelete(l)) \cup left |-> files[f]]
              n == Cardinality(left)
          IN  /\ stuck + n <= MaxStuck
              /\ stuck' = stuck + n
              /\ \/ files' = kept /\ UNCHANGED <<lines, size>>
                 \/ n > 0 /\ \E m \in Lines : AppendLine(l, kept, m, n)
    /\ GoTo(l, "append")
    /\ list' = [list EXCEPT ![l] = {}]
    /\ UNCHANGED <<today, path, date, writers>>

\* InnerWrite: AppendLine.
Append(l, m) ==
    /\ stage[l] = "append"
    /\ path[l] # NoFile
    /\ AppendLine(l, files, m, 1)
    /\ GoTo(l, "idle")
    /\ UNCHANGED <<today, stuck, path, date, list, writers>>

\* The exception of a file that is locked, or of a null path, is swallowed
\* and the line is lost.
AppendFails(l) ==
    /\ stage[l] = "append"
    /\ GoTo(l, "idle")
    /\ UNCHANGED <<today, files, lines, stuck, path, size, date, list, writers>>

-----------------------------------------------------------------------------
\* Midnight.
NextDay ==
    /\ today < LastDay
    /\ today' = today + 1
    /\ UNCHANGED <<files, lines, stuck, logger, writers>>

\* The process ends wherever it is and starts anew.
Restart(l) ==
    /\ path' = [path EXCEPT ![l] = NoFile]
    /\ size' = [size EXCEPT ![l] = 0]
    /\ date' = [date EXCEPT ![l] = 0]
    /\ list' = [list EXCEPT ![l] = {}]
    /\ GoTo(l, "idle")
    /\ UNCHANGED <<today, files, lines, stuck, writers>>

LoggerStep(l) ==
    \/ Write(l)
    \/ CalculateNewFileName(l)
    \/ NameThrows(l)
    \/ PurgeOldFiles(l)
    \/ \E m \in Lines : Append(l, m)
    \/ AppendFails(l)
    \/ Restart(l)

Next == NextDay \/ \E l \in Loggers : LoggerStep(l)

Spec == Init /\ [][Next]_vars

-----------------------------------------------------------------------------
(* Properties *)

TypeOK ==
    /\ today \in 1..LastDay
    /\ DOMAIN files \subseteq Names
    /\ \A f \in DOMAIN files : files[f] \in [bytes : Nat, first : Nat, last : Nat]
    /\ lines \in Nat
    /\ path \in [Loggers -> Names \cup {NoFile}]
    /\ size \in [Loggers -> Nat]
    /\ date \in [Loggers -> 0..LastDay]
    /\ stage \in [Loggers -> Stages]
    /\ list \in [Loggers -> SUBSET Names]
    /\ stuck \in 0..MaxStuck
    /\ writers \subseteq Loggers

Newest(n) == {f \in DOMAIN files : Cardinality({g \in DOMAIN files : Older(f, g)}) < n}

\* With one process, restarted at any point, the files that are to be kept hold
\* an unbroken run of lines that ends with the last one given to a file:
\* PurgeOldFiles never takes one of the latest lines.
HoldsTheLatest ==
    LET held == UNION {files[f].first .. files[f].last : f \in Newest(Keep)}
    IN  Cardinality(writers) = 1 /\ lines > 0 /\ Keep > 0
        => lines \in held /\ held = Min(held) .. lines

\* With one process the names of the files, by day and number, are in the order
\* of the lines they hold, also when files can not be deleted and stay behind,
\* and over midnight and restarts.
NamesFollowLines ==
    Cardinality(writers) = 1 =>
        \A f, g \in DOMAIN files : Older(f, g) => files[f].last < files[g].first

\* There are never more files than those to be kept, one current file for each
\* process that writes, and those that could not be deleted.
ArchiveBounded == Cardinality(DOMAIN files) <= Keep + Cardinality(writers) + stuck

\* A file may grow past the limit, because the count starts again from 0 when
\* the file is gone on with, but not without end.
FileSizeBounded ==
    \A f \in DOMAIN files :
        files[f].bytes <= Preamble + MaxFileSize + BytesPerChar *
            (Cardinality(writers) * (MaxFileSize + Max(Lengths)) + stuck * Max(Lengths))

\* With one process a file is the first of its day, or the one before it is there
\* and full, when it is made: no number is skipped and no file left half empty,
\* though the day, the number and the count are noted at different moments and
\* days end, processes end and deletions fail between them.
RollsWhenFull ==
    [][Cardinality(writers') = 1 /\ Keep > 0 =>
          \A f \in DOMAIN files' \ DOMAIN files :
             f[2] # 0 => LET before == <<f[1], f[2] - 1>>
                         IN  before \in DOMAIN files /\ files[before].bytes > MaxFileSize]_vars
=============================================================================
