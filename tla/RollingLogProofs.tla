-------------------------- MODULE RollingLogProofs --------------------------
(***************************************************************************)
(* Proofs about RollingLog, for any sizes and limits, any number of days   *)
(* and lines, deletions that fail, and processes that end and start anew   *)
(* at any point: of any number of processes, that the number of files and  *)
(* their sizes stay bounded; of a process that has the directory to        *)
(* itself, that names follow the lines and that the latest are kept.       *)
(***************************************************************************)
EXTENDS RollingLog, FiniteSetTheorems, TLAPS

Numbered == Nat \X Nat

\* What holds of any number of processes.
Shape ==
    /\ today \in Nat \ {0}
    /\ lines \in Nat
    /\ DOMAIN files \subseteq Numbered /\ IsFiniteSet(DOMAIN files)
    /\ files = [f \in DOMAIN files |-> files[f]]
    /\ \A f \in DOMAIN files :
          /\ files[f] = [bytes |-> files[f].bytes, first |-> files[f].first,
                         last |-> files[f].last]
          /\ files[f].first \in Nat /\ files[f].last \in Nat
    /\ path \in [Loggers -> Numbered \cup {NoFile}]
    /\ date \in [Loggers -> Nat] /\ \A l \in Loggers : date[l] <= today
    /\ stage \in [Loggers -> Stages]
    /\ \A l \in Loggers : stage[l] = "purge" => path[l] # NoFile
    /\ list \in [Loggers -> SUBSET Numbered]
    /\ writers \subseteq Loggers /\ IsFiniteSet(writers)
    /\ \A l \in Loggers \ writers : stage[l] = "idle"

\* Names are in the order of the lines.
InOrder(fs) == \A f, g \in DOMAIN fs : Older(f, g) => fs[f].last < fs[g].first

\* Process w alone has written: what it has listed is what there is, its file is
\* the newest, and is of the day that it has noted unless it is about to name one.
Sole(w) ==
    /\ stage[w] \in {"name", "purge"} => list[w] = DOMAIN files
    /\ stage[w] = "name" => \A g \in DOMAIN files : g[1] <= date[w]
    /\ path[w] # NoFile => \A g \in DOMAIN files : ~Older(path[w], g)
    /\ stage[w] # "name" /\ (stage[w] # "idle" \/ date[w] # 0) =>
          path[w] # NoFile /\ path[w][1] = date[w]
    /\ \A g \in DOMAIN files : g[1] <= today /\ files[g].last <= lines
    /\ InOrder(files)

IInv == Shape /\ \A w \in Loggers : writers \subseteq {w} => Sole(w)

-----------------------------------------------------------------------------
(* Files *)

\* Of finitely many files one has the highest number.
LEMMA HighestExists ==
    ASSUME NEW F \in SUBSET Numbered, IsFiniteSet(F), F # {}
    PROVE  \E f \in F : \A g \in F : g[2] <= f[2]
<1> DEFINE Above(f) == {g \in F : g[2] > f[2]}
           T == {Above(f) : f \in F}
<1>1. T \subseteq FiniteSubsetsOf(F) /\ T # {}
  <2>1. ASSUME NEW f \in F PROVE Above(f) \in FiniteSubsetsOf(F)
    <3>1. Above(f) \in SUBSET F
      OBVIOUS
    <3> HIDE DEF Above
    <3> QED
      BY <3>1, FS_Subset DEF FiniteSubsetsOf
  <2> QED
    BY <2>1
<1>2. PICK x \in T : \A y \in T : <<y, x>> \notin StrictSubsetOrdering(F)
  <2> HIDE DEF T
  <2> QED
    BY <1>1, WFMin, FS_StrictSubsetOrderingWellFounded
<1>3. PICK f \in F : x = Above(f)
  OBVIOUS
<1>4. ASSUME NEW g \in F, g[2] > f[2] PROVE FALSE
  <2>1. Above(g) \subseteq Above(f) /\ g \in Above(f) /\ g \notin Above(g)
    BY <1>4 DEF Numbered
  <2>2. Above(g) \in SUBSET F /\ Above(f) \in SUBSET F
    OBVIOUS
  <2>3. <<Above(g), Above(f)>> \in StrictSubsetOrdering(F)
    <3> HIDE DEF Above
    <3> QED
      BY <2>1, <2>2 DEF StrictSubsetOrdering
  <2> QED
    BY <1>2, <1>3, <2>3
<1> QED
  BY <1>4 DEF Numbered

\* fs is some of what there is.
PartOf(fs) == fs = [f \in DOMAIN fs |-> files[f]] /\ DOMAIN fs \subseteq DOMAIN files

\* new is fs with the next n lines in file f.
Grown(new, fs, f, n) ==
    /\ new = [g \in DOMAIN new |-> new[g]]
    /\ DOMAIN new = DOMAIN fs \cup {f}
    /\ \A g \in DOMAIN fs \ {f} : new[g] = files[g]
    /\ new[f] = [bytes |-> new[f].bytes, first |-> new[f].first, last |-> new[f].last]
    /\ new[f].last = lines + n
    /\ new[f].first = IF f \in DOMAIN fs THEN files[f].first ELSE lines + 1

\* Lines given to a file.
LEMMA GivenShape ==
    ASSUME Shape, NEW fs, PartOf(fs), NEW f \in Numbered, NEW m, NEW n \in Nat
    PROVE  Grown(Given(fs, f, m, n), fs, f, n)
<1> DEFINE new == Given(fs, f, m, n)
           old == IF f \in DOMAIN fs THEN fs[f]
                  ELSE [bytes |-> Preamble, first |-> lines + 1, last |-> lines]
           grown == [old EXCEPT !.bytes = old.bytes + n * m.bytes]
           one == [grown EXCEPT !.last = lines + n]
<1>1. old = [bytes |-> old.bytes, first |-> old.first, last |-> old.last]
  BY DEF Shape, PartOf
<1>2. old.first = IF f \in DOMAIN fs THEN files[f].first ELSE lines + 1
  BY DEF PartOf
<1>3. new = [g \in DOMAIN fs \cup {f} |-> IF g = f THEN one ELSE fs[g]]
  BY DEF Given
<1> HIDE DEF old
<1>4. /\ grown = [bytes |-> grown.bytes, first |-> grown.first, last |-> grown.last]
      /\ grown.first = old.first
  BY <1>1
<1> HIDE DEF grown
<1>5. /\ one = [bytes |-> one.bytes, first |-> one.first, last |-> one.last]
      /\ one.last = lines + n /\ one.first = grown.first
  BY <1>4
<1> HIDE DEF one, new
<1>6. \A g \in DOMAIN fs : fs[g] = files[g]
  BY DEF PartOf
<1>7. Grown(new, fs, f, n)
  BY <1>2, <1>3, <1>4, <1>5, <1>6 DEF Grown
<1> QED
  BY <1>7 DEF new

\* When the newest file gets the next lines, names stay in their order.
LEMMA GivenInOrder ==
    ASSUME Shape, NEW fs, PartOf(fs), NEW f \in Numbered, NEW m, NEW n \in Nat,
           InOrder(files), \A g \in DOMAIN files : ~Older(f, g) /\ files[g].last <= lines
    PROVE  /\ InOrder(Given(fs, f, m, n))
           /\ \A g \in DOMAIN Given(fs, f, m, n) : Given(fs, f, m, n)[g].last <= lines + n
<1> DEFINE new == Given(fs, f, m, n)
<1>0. Grown(new, fs, f, n) /\ DOMAIN fs \subseteq DOMAIN files
  BY GivenShape DEF PartOf
<1> HIDE DEF new
<1>1. /\ DOMAIN new = DOMAIN fs \cup {f}
      /\ \A g \in DOMAIN fs \ {f} : new[g] = files[g]
      /\ new[f].last = lines + n
      /\ new[f].first = IF f \in DOMAIN fs THEN files[f].first ELSE lines + 1
      /\ DOMAIN fs \subseteq DOMAIN files
  BY <1>0 DEF Grown
<1>2. lines \in Nat /\ \A g \in DOMAIN files : files[g].last \in Nat
  BY DEF Shape
<1>3. \A g \in DOMAIN new : new[g].last <= lines + n
  BY <1>1, <1>2
<1>4. ASSUME NEW g \in DOMAIN new, NEW h \in DOMAIN new, Older(g, h)
      PROVE  new[g].last < new[h].first
  <2>1. ~Older(f, f)
    BY DEF Older, Numbered
  <2>2. g # f
    <3>1. CASE h = f
      BY <1>4, <2>1, <3>1
    <3>2. CASE h # f
      BY <1>1, <1>4, <3>2
    <3> QED
      BY <3>1, <3>2
  <2>3. g \in DOMAIN files /\ new[g] = files[g]
    BY <1>1, <2>2
  <2>4. CASE h = f /\ f \notin DOMAIN fs
    BY <1>1, <1>2, <2>3, <2>4
  <2>5. CASE h # f \/ f \in DOMAIN fs
    <3>1. h \in DOMAIN files /\ new[h].first = files[h].first
      BY <1>1, <2>5
    <3> QED
      BY <1>4, <2>3, <3>1 DEF InOrder
  <2> QED
    BY <2>4, <2>5
<1> QED
  BY <1>3, <1>4 DEF InOrder, new

-----------------------------------------------------------------------------
(* What holds of any number of processes *)

\* What a purge leaves, or what it appends to that.
LEMMA PurgeShape ==
    ASSUME Shape, NEW l \in Loggers, PurgeOldFiles(l)
    PROVE  \E kept :
              /\ PartOf(kept)
              /\ \/ files' = kept /\ UNCHANGED lines
                 \/ \E m, n : /\ n \in Nat /\ n > 0
                              /\ files' = Given(kept, path[l], m, n)
                              /\ lines' = lines + n
<1>1. PICK left \in SUBSET (FilesToDelete(l) \cap DOMAIN files) :
         LET kept == [f \in (DOMAIN files \ FilesToDelete(l)) \cup left |-> files[f]]
             n == Cardinality(left)
         IN  \/ files' = kept /\ UNCHANGED <<lines, size>>
             \/ n > 0 /\ \E m \in Lines : AppendLine(l, kept, m, n)
  BY DEF PurgeOldFiles
<1> DEFINE kept == [f \in (DOMAIN files \ FilesToDelete(l)) \cup left |-> files[f]]
           n == Cardinality(left)
<1>2. n \in Nat
  <2>1. left \in SUBSET DOMAIN files /\ IsFiniteSet(DOMAIN files)
    BY DEF Shape
  <2> QED
    BY <2>1, FS_Subset, FS_CardinalityType
<1>3. PartOf(kept)
  BY DEF PartOf
<1>4. \/ files' = kept /\ UNCHANGED lines
      \/ \E m : n > 0 /\ files' = Given(kept, path[l], m, n) /\ lines' = lines + n
  BY <1>1 DEF AppendLine
<1> HIDE DEF kept, n
<1> QED
  BY <1>2, <1>3, <1>4

\* Files that are some of what there was, or these with lines given to one.
LEMMA FilesStep ==
    ASSUME Shape, NEW kept, PartOf(kept),
           \/ files' = kept /\ UNCHANGED lines
           \/ \E f \in Numbered : \E m, n :
                 /\ n \in Nat /\ n > 0
                 /\ files' = Given(kept, f, m, n)
                 /\ lines' = lines + n
    PROVE  /\ lines' \in Nat
           /\ DOMAIN files' \subseteq Numbered /\ IsFiniteSet(DOMAIN files')
           /\ files' = [f \in DOMAIN files' |-> files'[f]]
           /\ \A f \in DOMAIN files' :
                 /\ files'[f] = [bytes |-> files'[f].bytes, first |-> files'[f].first,
                                 last |-> files'[f].last]
                 /\ files'[f].first \in Nat /\ files'[f].last \in Nat
<1>1. DOMAIN kept \subseteq Numbered /\ IsFiniteSet(DOMAIN kept)
  BY FS_Subset DEF Shape, PartOf
<1>2. /\ \A f \in DOMAIN kept : kept[f] = files[f]
      /\ kept = [f \in DOMAIN kept |-> files[f]]
      /\ DOMAIN kept \subseteq DOMAIN files
  BY DEF PartOf
<1>3. CASE files' = kept /\ UNCHANGED lines
  BY <1>1, <1>2, <1>3 DEF Shape
<1>4. ASSUME NEW f \in Numbered, NEW m, NEW n \in Nat, n > 0,
             files' = Given(kept, f, m, n), lines' = lines + n
      PROVE  /\ lines' \in Nat
             /\ DOMAIN files' \subseteq Numbered /\ IsFiniteSet(DOMAIN files')
             /\ files' = [g \in DOMAIN files' |-> files'[g]]
             /\ \A g \in DOMAIN files' :
                   /\ files'[g] = [bytes |-> files'[g].bytes, first |-> files'[g].first,
                                   last |-> files'[g].last]
                   /\ files'[g].first \in Nat /\ files'[g].last \in Nat
  <2>1. /\ files' = [g \in DOMAIN files' |-> files'[g]]
        /\ DOMAIN files' = DOMAIN kept \cup {f}
        /\ \A g \in DOMAIN kept \ {f} : files'[g] = files[g]
        /\ files'[f] = [bytes |-> files'[f].bytes, first |-> files'[f].first,
                        last |-> files'[f].last]
        /\ files'[f].last = lines + n
        /\ files'[f].first = IF f \in DOMAIN kept THEN files[f].first ELSE lines + 1
    <3>1. Grown(Given(kept, f, m, n), kept, f, n)
      BY <1>4, GivenShape
    <3>2. Grown(files', kept, f, n)
      BY <1>4, <3>1
    <3> QED
      BY <3>2 DEF Grown
  <2>2. IsFiniteSet(DOMAIN files') /\ DOMAIN files' \subseteq Numbered
    BY <1>1, <2>1, FS_AddElement
  <2>3. lines \in Nat /\ lines' \in Nat
    BY <1>4 DEF Shape
  <2>4. files'[f].first \in Nat /\ files'[f].last \in Nat
    BY <1>2, <2>1, <2>3 DEF Shape
  <2>5. \A g \in DOMAIN kept \ {f} :
           /\ files'[g] = [bytes |-> files'[g].bytes, first |-> files'[g].first,
                           last |-> files'[g].last]
           /\ files'[g].first \in Nat /\ files'[g].last \in Nat
    BY <1>2, <2>1 DEF Shape
  <2> QED
    BY <2>1, <2>2, <2>3, <2>4, <2>5
<1> QED
  BY <1>3, <1>4

LEMMA ShapeStep ==
    ASSUME Shape, [Next]_vars
    PROVE  Shape'
<1>1. CASE UNCHANGED vars
  BY <1>1 DEF vars, logger, Shape
<1>2. CASE NextDay
  BY <1>2 DEF NextDay, logger, Shape
<1>3. ASSUME NEW l \in Loggers, Write(l) PROVE Shape'
  <2>1. IsFiniteSet(writers')
    BY <1>3, FS_AddElement DEF Write, Shape
  <2> QED
    BY <1>3, <2>1 DEF Write, GoTo, Shape, Stages
<1>4. ASSUME NEW l \in Loggers, CalculateNewFileName(l) PROVE Shape'
  <2>1. l \in writers
    BY <1>4 DEF CalculateNewFileName, Shape
  <2>2. ASSUME NEW f \in TodaysNewest(l) PROVE f \in Numbered /\ NewNumber(f) \in Nat
    BY <2>2 DEF TodaysNewest, NewNumber, Shape, Numbered
  <2>3. PICK p \in Numbered : path' = [path EXCEPT ![l] = p]
    <3>1. <<date[l], 0>> \in Numbered
      BY DEF Shape, Numbered
    <3>2. ASSUME NEW f \in TodaysNewest(l)
          PROVE  <<date[l], NewNumber(f)>> \in Numbered /\ <<date[l], f[2]>> \in Numbered
      BY <2>2, <3>2 DEF Shape, Numbered
    <3> QED
      BY <1>4, <2>2, <3>1, <3>2 DEF CalculateNewFileName, FileName
  <2>4. p # NoFile
    BY RollingLogAssumption DEF Numbered
  <2> QED
    BY <1>4, <2>1, <2>3, <2>4 DEF CalculateNewFileName, GoTo, Shape, Stages
<1>5. ASSUME NEW l \in Loggers, NameThrows(l) PROVE Shape'
  BY <1>5 DEF NameThrows, GoTo, Shape, Stages
<1>6. ASSUME NEW l \in Loggers, PurgeOldFiles(l) PROVE Shape'
  <2>1. l \in writers /\ path[l] \in Numbered
    BY <1>6 DEF PurgeOldFiles, Shape
  <2>2. /\ lines' \in Nat
        /\ DOMAIN files' \subseteq Numbered /\ IsFiniteSet(DOMAIN files')
        /\ files' = [f \in DOMAIN files' |-> files'[f]]
        /\ \A f \in DOMAIN files' :
              /\ files'[f] = [bytes |-> files'[f].bytes, first |-> files'[f].first,
                              last |-> files'[f].last]
              /\ files'[f].first \in Nat /\ files'[f].last \in Nat
    BY <1>6, <2>1, PurgeShape, FilesStep
  <2> QED
    BY <1>6, <2>1, <2>2 DEF PurgeOldFiles, GoTo, Shape, Stages
<1>7. ASSUME NEW l \in Loggers, NEW m \in Lines, Append(l, m) PROVE Shape'
  <2>1. path[l] \in Numbered
    BY <1>7 DEF Append, Shape
  <2>2. /\ PartOf(files)
        /\ files' = Given(files, path[l], m, 1) /\ lines' = lines + 1
    BY <1>7 DEF Append, AppendLine, Shape, PartOf
  <2>3. /\ lines' \in Nat
        /\ DOMAIN files' \subseteq Numbered /\ IsFiniteSet(DOMAIN files')
        /\ files' = [f \in DOMAIN files' |-> files'[f]]
        /\ \A f \in DOMAIN files' :
              /\ files'[f] = [bytes |-> files'[f].bytes, first |-> files'[f].first,
                              last |-> files'[f].last]
              /\ files'[f].first \in Nat /\ files'[f].last \in Nat
    BY <2>1, <2>2, FilesStep
  <2> QED
    BY <1>7, <2>3 DEF Append, GoTo, Shape, Stages
<1>8. ASSUME NEW l \in Loggers, AppendFails(l) PROVE Shape'
  BY <1>8 DEF AppendFails, GoTo, Shape, Stages
<1>9. ASSUME NEW l \in Loggers, Restart(l) PROVE Shape'
  BY <1>9 DEF Restart, GoTo, Shape, Stages
<1> QED
  BY <1>1, <1>2, <1>3, <1>4, <1>5, <1>6, <1>7, <1>8, <1>9 DEF Next, LoggerStep

-----------------------------------------------------------------------------
(* One process *)

\* Who has not written is idle and changes nothing of the others.
LEMMA OthersRest ==
    ASSUME Shape, NEW w \in Loggers, NEW l \in Loggers \ {w}, LoggerStep(l),
           writers' \subseteq {w}
    PROVE  UNCHANGED <<today, files, lines, path[w], date[w], stage[w], list[w]>>
<1>1. writers \subseteq writers' /\ l \notin writers'
  BY DEF LoggerStep, Write, CalculateNewFileName, NameThrows, PurgeOldFiles, Append,
     AppendFails, Restart
<1>2. stage[l] = "idle"
  BY <1>1 DEF Shape
<1>3. ~Write(l)
  BY <1>1 DEF Write
<1>4. Restart(l)
  BY <1>2, <1>3 DEF LoggerStep, CalculateNewFileName, NameThrows, PurgeOldFiles, Append,
     AppendFails
<1> QED
  BY <1>4 DEF Restart, GoTo, Shape

\* The name that is calculated is the newest and of the day.
LEMMA NameStep ==
    ASSUME Shape, NEW w \in Loggers, Sole(w), CalculateNewFileName(w)
    PROVE  Sole(w)'
<1>1. /\ list[w] = DOMAIN files
      /\ \A g \in DOMAIN files : g[1] <= date[w] /\ g \in Numbered
      /\ date[w] \in Nat
      /\ stage' = [stage EXCEPT ![w] = "purge"]
      /\ UNCHANGED <<today, files, lines, date, list>>
  BY DEF CalculateNewFileName, Sole, GoTo, Shape
<1>2. PICK p \in Numbered : /\ path' = [path EXCEPT ![w] = p]
                            /\ p[1] = date[w]
                            /\ \A g \in DOMAIN files : ~Older(p, g)
  <2>1. CASE TodaysNewest(w) = {} /\ path' = [path EXCEPT ![w] = <<date[w], 0>>]
    <3> DEFINE F == {f \in list[w] : f[1] = date[w]}
    <3>1. F = {}
      <4>1. F \in SUBSET Numbered /\ IsFiniteSet(F)
        BY <1>1, FS_Subset DEF Shape
      <4>2. ASSUME NEW f \in F, \A g \in F : g[2] <= f[2] PROVE f \in TodaysNewest(w)
        BY <4>2 DEF TodaysNewest
      <4> HIDE DEF F
      <4> QED
        BY <2>1, <4>1, <4>2, HighestExists
    <3>2. \A g \in DOMAIN files : g[1] < date[w]
      BY <1>1, <3>1 DEF Numbered
    <3>3. <<date[w], 0>> \in Numbered
      BY <1>1 DEF Numbered
    <3>4. \A g \in DOMAIN files : ~Older(<<date[w], 0>>, g)
      BY <1>1, <3>2 DEF Older, Numbered
    <3> QED
      BY <2>1, <3>3, <3>4
  <2>2. ASSUME NEW f \in TodaysNewest(w),
               \/ path' = [path EXCEPT ![w] = <<date[w], NewNumber(f)>>]
               \/ path' = [path EXCEPT ![w] = <<date[w], f[2]>>]
        PROVE  \E p \in Numbered : /\ path' = [path EXCEPT ![w] = p]
                                   /\ p[1] = date[w]
                                   /\ \A g \in DOMAIN files : ~Older(p, g)
    <3>1. /\ f \in Numbered /\ f[1] = date[w]
          /\ \A g \in DOMAIN files : g[1] = date[w] => g[2] <= f[2]
      BY <1>1 DEF TodaysNewest
    <3>2. /\ <<date[w], f[2]>> \in Numbered
          /\ \A g \in DOMAIN files : ~Older(<<date[w], f[2]>>, g)
      BY <1>1, <3>1 DEF Older, Numbered
    <3>3. /\ <<date[w], f[2] + 1>> \in Numbered
          /\ \A g \in DOMAIN files : ~Older(<<date[w], f[2] + 1>>, g)
      BY <1>1, <3>1 DEF Older, Numbered
    <3> QED
      BY <2>2, <3>1, <3>2, <3>3 DEF NewNumber
  <2> QED
    BY <2>1, <2>2 DEF CalculateNewFileName, FileName
<1>3. p # NoFile
  BY RollingLogAssumption DEF Numbered
<1> QED
  BY <1>1, <1>2, <1>3 DEF Sole, Shape

\* Whatever is deleted, lines go to the newest file.
LEMMA GivenStep ==
    ASSUME Shape, NEW w \in Loggers, Sole(w),
           path[w] # NoFile, path[w][1] = date[w], UNCHANGED <<today, path, date>>,
           stage'[w] \in {"idle", "append"},
           NEW kept, PartOf(kept),
           \/ files' = kept /\ UNCHANGED lines
           \/ \E m, n : /\ n \in Nat /\ n > 0
                        /\ files' = Given(kept, path[w], m, n)
                        /\ lines' = lines + n
    PROVE  Sole(w)'
<1>1. /\ path[w] \in Numbered /\ date[w] <= today
      /\ \A g \in DOMAIN files : ~Older(path[w], g)
      /\ \A g \in DOMAIN files : g[1] <= today /\ files[g].last <= lines
      /\ InOrder(files)
  BY DEF Shape, Sole
<1>2. /\ DOMAIN files' \subseteq DOMAIN files \cup {path[w]}
      /\ \A g \in DOMAIN files' : files'[g].last <= lines'
      /\ InOrder(files')
  <2>1. CASE files' = kept /\ UNCHANGED lines
    <3>1. \A g \in DOMAIN files' : g \in DOMAIN files /\ files'[g] = files[g]
      BY <2>1 DEF PartOf
    <3> QED
      BY <1>1, <2>1, <3>1 DEF InOrder
  <2>2. ASSUME NEW m, NEW n \in Nat, n > 0, files' = Given(kept, path[w], m, n),
               lines' = lines + n
        PROVE  /\ DOMAIN files' \subseteq DOMAIN files \cup {path[w]}
               /\ \A g \in DOMAIN files' : files'[g].last <= lines'
               /\ InOrder(files')
    <3>1. DOMAIN files' = DOMAIN kept \cup {path[w]}
      <4>1. Grown(Given(kept, path[w], m, n), kept, path[w], n)
        BY <1>1, <2>2, GivenShape
      <4> QED
        BY <2>2, <4>1 DEF Grown
    <3>2. InOrder(files') /\ \A g \in DOMAIN files' : files'[g].last <= lines + n
      BY <1>1, <2>2, GivenInOrder
    <3> QED
      BY <2>2, <3>1, <3>2 DEF PartOf
  <2> QED
    BY <2>1, <2>2
<1>3. ~Older(path[w], path[w])
  BY <1>1 DEF Older, Numbered
<1>4. \A g \in DOMAIN files' : g[1] <= today /\ ~Older(path[w], g)
  BY <1>1, <1>2, <1>3
<1> QED
  BY <1>2, <1>4 DEF Sole

\* A process that is alone stays in order.
LEMMA SoleStep ==
    ASSUME Shape, NEW w \in Loggers, Sole(w), [Next]_vars, writers' \subseteq {w}
    PROVE  Sole(w)'
<1>1. CASE UNCHANGED vars
  BY <1>1 DEF vars, logger, Sole
<1>2. CASE NextDay
  <2>1. today' = today + 1 /\ UNCHANGED <<files, lines, logger>>
    BY <1>2 DEF NextDay
  <2>2. \A g \in DOMAIN files : g[1] <= today + 1
    BY DEF Sole, Shape, Numbered
  <2> QED
    BY <2>1, <2>2 DEF logger, Sole
<1>3. ASSUME NEW l \in Loggers \ {w}, LoggerStep(l) PROVE Sole(w)'
  BY <1>3, OthersRest DEF Sole
<1>4. CASE Write(w)
  <2>1. today # 0
    BY DEF Shape
  <2> QED
    BY <1>4, <2>1 DEF Write, GoTo, Sole, Shape
<1>5. CASE NameThrows(w)
  BY <1>5 DEF NameThrows, TodaysNewest, Sole
<1>6. CASE PurgeOldFiles(w)
  <2>1. /\ path[w] # NoFile /\ path[w][1] = date[w]
        /\ UNCHANGED <<today, path, date>>
        /\ stage'[w] = "append"
    BY <1>6 DEF PurgeOldFiles, GoTo, Sole, Shape
  <2> QED
    BY <1>6, <2>1, PurgeShape, GivenStep
<1>7. ASSUME NEW m \in Lines, Append(w, m) PROVE Sole(w)'
  <2>1. /\ path[w] # NoFile /\ path[w][1] = date[w]
        /\ UNCHANGED <<today, path, date>>
        /\ stage'[w] = "idle"
        /\ PartOf(files)
        /\ files' = Given(files, path[w], m, 1) /\ lines' = lines + 1
    BY <1>7 DEF Append, AppendLine, GoTo, Sole, Shape, PartOf
  <2>2. \E a, n : /\ n \in Nat /\ n > 0
                  /\ files' = Given(files, path[w], a, n)
                  /\ lines' = lines + n
    <3>1. 1 \in Nat /\ 1 > 0
      OBVIOUS
    <3> QED
      BY <2>1, <3>1
  <2> QED
    BY <2>1, <2>2, GivenStep
<1>8. CASE AppendFails(w)
  BY <1>8 DEF AppendFails, GoTo, Sole, Shape
<1>9. CASE Restart(w)
  BY <1>9 DEF Restart, GoTo, Sole, Shape
<1> QED
  BY <1>1, <1>2, <1>3, <1>4, <1>5, <1>6, <1>7, <1>8, <1>9, NameStep DEF Next, LoggerStep

\* In every reachable state the files are well formed, and a process that alone has
\* written knows what there is.
THEOREM Invariance == Spec => []IInv
<1>1. Init => IInv
  <2> SUFFICES ASSUME Init PROVE IInv
    OBVIOUS
  <2>1. DOMAIN files = {} /\ files = [f \in DOMAIN files |-> files[f]]
    BY DEF Init
  <2>2. Shape
    BY <2>1, FS_EmptySet DEF Init, Shape, Stages
  <2>3. \A w \in Loggers : Sole(w)
    BY <2>1 DEF Init, Sole, InOrder
  <2> QED
    BY <2>2, <2>3 DEF IInv
<1>2. IInv /\ [Next]_vars => IInv'
  <2> SUFFICES ASSUME IInv, [Next]_vars PROVE IInv'
    OBVIOUS
  <2>1. Shape'
    BY ShapeStep DEF IInv
  <2>2. writers \subseteq writers'
    BY DEF Next, vars, NextDay, LoggerStep, Write, CalculateNewFileName, NameThrows,
       PurgeOldFiles, Append, AppendFails, Restart
  <2>3. ASSUME NEW w \in Loggers, writers' \subseteq {w} PROVE Sole(w)'
    BY <2>2, <2>3, SoleStep DEF IInv
  <2> QED
    BY <2>1, <2>3 DEF IInv
<1> QED
  BY <1>1, <1>2, PTL DEF Spec

\* One writing process is alone.
LEMMA OneIsSole ==
    ASSUME IInv, Cardinality(writers) = 1
    PROVE  \E w \in Loggers : writers = {w} /\ Sole(w)
<1>1. PICK w : writers = {w}
  BY FS_Singleton DEF IInv, Shape
<1>2. w \in Loggers
  BY <1>1 DEF IInv, Shape
<1> QED
  BY <1>1, <1>2 DEF IInv

\* With one process, names are in the order of the lines, whatever is deleted, fails
\* to be deleted or is started anew.
THEOREM NamesInOrder == Spec => []NamesFollowLines
<1>1. IInv => NamesFollowLines
  BY OneIsSole DEF NamesFollowLines, Sole, InOrder
<1> QED
  BY <1>1, Invariance, PTL

\* Lines make no other file than the one they are given to.
LEMMA GivenDomain ==
    ASSUME NEW fs, NEW f
    PROVE  \A m, n : DOMAIN Given(fs, f, m, n) = DOMAIN fs \cup {f}
BY DEF Given

\* The file that is to be written next is there, is the first of its day, or the
\* one before it is there and full.
Follows(w) ==
    stage[w] # "name" /\ path[w] # NoFile /\ path[w] \notin DOMAIN files /\ path[w][2] # 0
    => LET before == <<path[w][1], path[w][2] - 1>>
       IN  before \in DOMAIN files /\ files[before].bytes > MaxFileSize

AllFollow == Keep > 0 => \A w \in Loggers : writers \subseteq {w} => Follows(w)

\* So it is with the name that is calculated.
LEMMA NameFollows ==
    ASSUME Shape, NEW w \in Loggers, Sole(w), CalculateNewFileName(w)
    PROVE  Follows(w)'
<1>1. list[w] = DOMAIN files /\ UNCHANGED <<files, date>> /\ date[w] \in Nat
  BY DEF CalculateNewFileName, Sole, Shape
<1>2. CASE path' = [path EXCEPT ![w] = <<date[w], 0>>]
  BY <1>2 DEF Follows, Shape
<1>3. ASSUME NEW f \in TodaysNewest(w) \cap DOMAIN files, files[f].bytes > MaxFileSize,
             path' = [path EXCEPT ![w] = <<date[w], f[2] + 1>>]
      PROVE  Follows(w)'
  <2>1. f \in Nat \X Nat /\ f[1] = date[w]
    BY DEF TodaysNewest, Shape, Numbered
  <2>2. f = <<date[w], (f[2] + 1) - 1>>
    BY <2>1
  <2>3. path'[w] = <<date[w], f[2] + 1>>
    BY <1>3 DEF Shape
  <2> QED
    BY <1>1, <1>3, <2>2, <2>3 DEF Follows
<1>4. ASSUME NEW f \in TodaysNewest(w) \cap DOMAIN files,
             path' = [path EXCEPT ![w] = <<date[w], f[2]>>]
      PROVE  Follows(w)'
  <2>1. f \in Nat \X Nat /\ f[1] = date[w]
    BY DEF TodaysNewest, Shape, Numbered
  <2>2. f = <<date[w], f[2]>>
    BY <2>1
  <2>3. path'[w] = f
    BY <1>4, <2>2 DEF Shape
  <2> QED
    BY <1>1, <2>3 DEF Follows
<1> QED
  BY <1>2, <1>3, <1>4 DEF CalculateNewFileName, FileName, NewNumber

\* A purge keeps the newest file, and so the one before the file to be written.
LEMMA PurgeKeepsBefore ==
    ASSUME Shape, NEW w \in Loggers, Sole(w), PurgeOldFiles(w), Keep > 0,
           NEW f \in DOMAIN files, \A g \in DOMAIN files : ~Older(f, g)
    PROVE  f \in DOMAIN files' /\ (f # path[w] => files'[f] = files[f])
<1>1. list[w] = DOMAIN files /\ path[w] \in Numbered
  BY DEF PurgeOldFiles, Sole, Shape
<1>2. f \notin FilesToDelete(w)
  <2>1. {g \in list[w] : Older(f, g)} = {}
    BY <1>1
  <2>2. Cardinality({g \in list[w] : Older(f, g)}) = 0
    BY <2>1, FS_EmptySet
  <2> QED
    BY <2>2, RollingLogAssumption DEF FilesToDelete
<1>3. PICK left \in SUBSET (FilesToDelete(w) \cap DOMAIN files) :
         LET kept == [g \in (DOMAIN files \ FilesToDelete(w)) \cup left |-> files[g]]
             n == Cardinality(left)
         IN  \/ files' = kept
             \/ \E m \in Lines : AppendLine(w, kept, m, n)
  BY DEF PurgeOldFiles
<1> DEFINE kept == [g \in (DOMAIN files \ FilesToDelete(w)) \cup left |-> files[g]]
<1>4. f \in DOMAIN kept /\ kept[f] = files[f]
  BY <1>2
<1>5. files' = kept \/ \E m \in Lines : AppendLine(w, kept, m, Cardinality(left))
  BY <1>3
<1> HIDE DEF kept
<1> QED
  BY <1>4, <1>5 DEF AppendLine, Given

LEMMA FollowsStep ==
    ASSUME Shape, NEW w \in Loggers, Sole(w), Follows(w), Keep > 0, [Next]_vars,
           writers' \subseteq {w}
    PROVE  Follows(w)'
<1>1. CASE UNCHANGED vars \/ NextDay
  BY <1>1 DEF NextDay, vars, logger, Follows
<1>2. ASSUME NEW l \in Loggers \ {w}, LoggerStep(l) PROVE Follows(w)'
  BY <1>2, OthersRest DEF Follows
<1>3. CASE Write(w) \/ AppendFails(w)
  BY <1>3 DEF Write, AppendFails, GoTo, Follows, Shape
<1>4. CASE NameThrows(w)
  BY <1>4 DEF NameThrows, TodaysNewest, Sole
<1>5. CASE PurgeOldFiles(w)
  <2>1. /\ stage[w] = "purge" /\ path[w] \in Numbered /\ UNCHANGED path
        /\ \A g \in DOMAIN files : ~Older(path[w], g) /\ g \in Numbered
    BY <1>5 DEF PurgeOldFiles, Sole, Shape
  <2>2. CASE path[w] \in DOMAIN files
    BY <1>5, <2>1, <2>2, PurgeKeepsBefore DEF Follows
  <2>3. CASE path[w] \notin DOMAIN files /\ path[w][2] # 0
    <3> DEFINE before == <<path[w][1], path[w][2] - 1>>
    <3>1. before \in DOMAIN files /\ files[before].bytes > MaxFileSize
      BY <2>1, <2>3, RollingLogAssumption DEF Follows, Numbered
    <3>2. ASSUME NEW g \in DOMAIN files PROVE ~Older(before, g)
      <4>1. path[w] = <<path[w][1], path[w][2]>> /\ g = <<g[1], g[2]>>
        BY <2>1 DEF Numbered
      <4>2. g # path[w]
        BY <2>3
      <4>3. g[1] # path[w][1] \/ g[2] # path[w][2]
        BY <4>1, <4>2
      <4> QED
        BY <2>1, <4>3 DEF Older, Numbered
    <3>3. before # path[w]
      BY <2>3, <3>1
    <3> HIDE DEF before
    <3>4. before \in DOMAIN files' /\ files'[before] = files[before]
      BY <1>5, <3>1, <3>2, <3>3, PurgeKeepsBefore
    <3> QED
      BY <2>1, <3>1, <3>4 DEF Follows, before
  <2>4. CASE path[w][2] = 0
    BY <2>1, <2>4 DEF Follows
  <2> QED
    BY <2>2, <2>3, <2>4
<1>6. ASSUME NEW m \in Lines, Append(w, m) PROVE Follows(w)'
  <2>1. path' = path /\ path[w] \in DOMAIN files'
    BY <1>6 DEF Append, AppendLine, Given
  <2> QED
    BY <2>1 DEF Follows
<1>7. CASE Restart(w)
  BY <1>7 DEF Restart, Follows, Shape
<1> QED
  BY <1>1, <1>2, <1>3, <1>4, <1>5, <1>6, <1>7, NameFollows DEF Next, LoggerStep

\* With one process a file is the first of its day or follows a full one.
THEOREM NumbersFollow == Spec => RollsWhenFull
<1>1. Init => AllFollow
  BY DEF Init, AllFollow, Follows
<1>2. IInv /\ AllFollow /\ [Next]_vars => AllFollow'
  <2> SUFFICES ASSUME IInv, AllFollow, [Next]_vars PROVE AllFollow'
    OBVIOUS
  <2>1. writers \subseteq writers'
    BY DEF Next, vars, NextDay, LoggerStep, Write, CalculateNewFileName, NameThrows,
       PurgeOldFiles, Append, AppendFails, Restart
  <2>2. ASSUME NEW w \in Loggers, writers' \subseteq {w}, Keep > 0 PROVE Follows(w)'
    BY <2>1, <2>2, FollowsStep DEF IInv, AllFollow
  <2> QED
    BY <2>2 DEF AllFollow
<1>3. IInv /\ AllFollow /\ [Next]_vars =>
      [Cardinality(writers') = 1 /\ Keep > 0 =>
          \A f \in DOMAIN files' \ DOMAIN files :
             f[2] # 0 => LET before == <<f[1], f[2] - 1>>
                         IN  before \in DOMAIN files /\ files[before].bytes > MaxFileSize]_vars
  <2> SUFFICES ASSUME IInv, AllFollow, Next, Cardinality(writers') = 1, Keep > 0,
                      NEW f \in DOMAIN files' \ DOMAIN files, f[2] # 0
               PROVE  LET before == <<f[1], f[2] - 1>>
                      IN  before \in DOMAIN files /\ files[before].bytes > MaxFileSize
    OBVIOUS
  <2>1. PICK l \in Loggers : PurgeOldFiles(l) \/ \E m \in Lines : Append(l, m)
    BY DEF Next, NextDay, LoggerStep, Write, CalculateNewFileName, NameThrows,
       AppendFails, Restart
  <2>2. l \in writers /\ writers' = writers /\ stage[l] \in {"purge", "append"}
    BY <2>1 DEF PurgeOldFiles, Append, IInv, Shape
  <2>3. writers = {l}
    BY <2>2, FS_Singleton DEF IInv, Shape
  <2>4. Follows(l)
    BY <2>3 DEF AllFollow
  <2>5. path[l] # NoFile /\ f = path[l]
    <3>1. CASE \E m \in Lines : Append(l, m)
      BY <3>1 DEF Append, AppendLine, Given
    <3>2. CASE PurgeOldFiles(l)
      <4>1. path[l] # NoFile
        BY <3>2 DEF PurgeOldFiles, IInv, Shape
      <4>2. PICK kept : /\ DOMAIN kept \subseteq DOMAIN files
                        /\ \/ files' = kept
                           \/ \E m, n : files' = Given(kept, path[l], m, n)
        BY <3>2, PurgeShape DEF PartOf, IInv
      <4>3. \A m, n : DOMAIN Given(kept, path[l], m, n) = DOMAIN kept \cup {path[l]}
        BY GivenDomain
      <4> QED
        BY <4>1, <4>2, <4>3
    <3> QED
      BY <2>1, <3>1, <3>2
  <2> QED
    BY <2>2, <2>4, <2>5 DEF Follows
<1> QED
  BY <1>1, <1>2, <1>3, Invariance, PTL DEF Spec, RollsWhenFull

\* A line has a length there is, and takes no more bytes than its characters can.
LEMMA LineType ==
    ASSUME NEW m \in Lines
    PROVE  /\ m.chars \in Nat \ {0} /\ m.bytes \in Nat
           /\ m.chars <= Max(Lengths)
           /\ m.bytes <= BytesPerChar * m.chars
<1>1. /\ m \in Line /\ m.bytes <= BytesPerChar * m.chars
  BY DEF Lines
<1>2. PICK n \in Lengths, b \in 1..(BytesPerChar * Max(Lengths)) :
         m = [chars |-> n, bytes |-> b]
  BY <1>1 DEF Line
<1>3. m.chars = n /\ m.bytes = b
  BY <1>2
<1>4. n \in Nat \ {0} /\ b \in Nat
  BY <1>2, RollingLogAssumption
<1>5. n <= Max(Lengths)
  <2>1. \A k \in Lengths : Max(Lengths) >= k
    BY RollingLogAssumption DEF Max
  <2> QED
    BY <2>1
<1> QED
  BY <1>1, <1>3, <1>4, <1>5

LEMMA LongestType == Max(Lengths) \in Nat \ {0}
BY RollingLogAssumption DEF Max

\* The file of l gets n lines like m beside the files of fs.
Appended(l, fs, m, n) ==
    /\ DOMAIN files' = DOMAIN fs \cup {path[l]}
    /\ \A g \in DOMAIN fs \ {path[l]} : files'[g] = files[g]
    /\ files'[path[l]].bytes =
          (IF path[l] \in DOMAIN fs THEN files[path[l]].bytes ELSE Preamble) + n * m.bytes
    /\ files'[path[l]].first = IF path[l] \in DOMAIN fs THEN files[path[l]].first
                               ELSE lines + 1
    /\ files'[path[l]].last = lines + n
    /\ lines' = lines + n
    /\ size' = [size EXCEPT ![l] = size[l] + n * m.chars]

LEMMA AppendLineEffect ==
    ASSUME Shape, NEW l \in Loggers, path[l] \in Numbered, NEW fs, PartOf(fs),
           NEW m \in Lines, NEW n \in Nat, AppendLine(l, fs, m, n)
    PROVE  Appended(l, fs, m, n)
<1> DEFINE f == path[l]
           old == IF f \in DOMAIN fs THEN fs[f]
                  ELSE [bytes |-> Preamble, first |-> lines + 1, last |-> lines]
           grown == [old EXCEPT !.bytes = old.bytes + n * m.bytes]
           one == [grown EXCEPT !.last = lines + n]
<1>1. Grown(files', fs, f, n)
  BY GivenShape DEF AppendLine
<1>2. old = [bytes |-> old.bytes, first |-> old.first, last |-> old.last]
  BY DEF Shape, PartOf
<1>3. old.bytes = IF f \in DOMAIN fs THEN files[f].bytes ELSE Preamble
  BY DEF PartOf
<1>4. files'[f] = one
  BY DEF AppendLine, Given
<1> HIDE DEF old
<1>5. /\ grown = [bytes |-> grown.bytes, first |-> grown.first, last |-> grown.last]
      /\ grown.bytes = old.bytes + n * m.bytes
  BY <1>2
<1> HIDE DEF grown
<1>6. one.bytes = grown.bytes
  BY <1>5
<1> HIDE DEF one
<1>7. files'[f].bytes = (IF f \in DOMAIN fs THEN files[f].bytes ELSE Preamble) + n * m.bytes
  BY <1>3, <1>4, <1>5, <1>6
<1> QED
  BY <1>1, <1>7 DEF Appended, Grown, AppendLine

\* A purge keeps the files that are not to be deleted and those that can not be,
\* and may give the lines that report these to its file.
LEMMA PurgeEffect ==
    ASSUME Shape, NEW l \in Loggers, PurgeOldFiles(l)
    PROVE  \E left \in SUBSET (FilesToDelete(l) \cap DOMAIN files) : \E kept :
              /\ PartOf(kept)
              /\ DOMAIN kept = (DOMAIN files \ FilesToDelete(l)) \cup left
              /\ IsFiniteSet(left) /\ Cardinality(left) \in Nat
              /\ stuck + Cardinality(left) <= MaxStuck
              /\ stuck' = stuck + Cardinality(left)
              /\ \/ files' = kept /\ UNCHANGED <<lines, size>>
                 \/ /\ Cardinality(left) > 0
                    /\ \E m \in Lines : AppendLine(l, kept, m, Cardinality(left))
<1>1. PICK left \in SUBSET (FilesToDelete(l) \cap DOMAIN files) :
         LET kept == [f \in (DOMAIN files \ FilesToDelete(l)) \cup left |-> files[f]]
             n == Cardinality(left)
         IN  /\ stuck + n <= MaxStuck
             /\ stuck' = stuck + n
             /\ \/ files' = kept /\ UNCHANGED <<lines, size>>
                \/ n > 0 /\ \E m \in Lines : AppendLine(l, kept, m, n)
  BY DEF PurgeOldFiles
<1> DEFINE kept == [f \in (DOMAIN files \ FilesToDelete(l)) \cup left |-> files[f]]
<1>2. IsFiniteSet(left) /\ Cardinality(left) \in Nat
  <2>1. left \in SUBSET DOMAIN files /\ IsFiniteSet(DOMAIN files)
    BY DEF Shape
  <2> QED
    BY <2>1, FS_Subset, FS_CardinalityType
<1>3. PartOf(kept)
  BY DEF PartOf
<1>4. DOMAIN kept = (DOMAIN files \ FilesToDelete(l)) \cup left
  OBVIOUS
<1>5. \/ files' = kept /\ UNCHANGED <<lines, size>>
      \/ /\ Cardinality(left) > 0
         /\ \E m \in Lines : AppendLine(l, kept, m, Cardinality(left))
  BY <1>1
<1> HIDE DEF kept
<1> QED
  BY <1>1, <1>2, <1>3, <1>4, <1>5

-----------------------------------------------------------------------------
(* Types *)

\* The days and the numbers in names.  A file's number is below the number of
\* lines, as each of the files that came before it on its day was given one.
Named(f) == f[1] \in 1..LastDay /\ f[2] <= MaxLines

Typed ==
    /\ today \in 1..LastDay
    /\ \A f \in DOMAIN files : Named(f) /\ f[2] < lines /\ files[f].bytes \in Nat
    /\ \A l \in Loggers : path[l] # NoFile => Named(path[l]) /\ path[l][2] <= lines
    /\ size \in [Loggers -> Nat]
    /\ \A l \in Loggers : stage[l] = "name" => date[l] # 0
    /\ \A l \in Loggers : \A f \in list[l] : Named(f) /\ f[2] < MaxLines
    /\ stuck \in 0..MaxStuck

\* Whatever a process appends, to what is left of the files, is well named.
LEMMA TypedAppend ==
    ASSUME Shape, Typed, NEW l \in Loggers, path[l] \in Numbered, UNCHANGED <<today, path>>,
           UNCHANGED list \/ list' = [list EXCEPT ![l] = {}],
           NEW s \in {"append", "idle"}, GoTo(l, s), UNCHANGED date,
           stuck' \in 0..MaxStuck,
           NEW kept, PartOf(kept),
           \/ files' = kept /\ UNCHANGED <<lines, size>>
           \/ \E m \in Lines, n \in Nat : n > 0 /\ AppendLine(l, kept, m, n)
    PROVE  Typed'
<1>0. /\ lines \in Nat /\ path[l] # NoFile
      /\ \A q \in Loggers : path[q] # NoFile => path[q] \in Numbered
  BY RollingLogAssumption DEF Shape, Numbered
<1>1. /\ lines' \in Nat /\ lines <= lines'
      /\ size' \in [Loggers -> Nat]
      /\ \A f \in DOMAIN files' : Named(f) /\ f[2] < lines' /\ files'[f].bytes \in Nat
  <2>1. CASE files' = kept /\ UNCHANGED <<lines, size>>
    <3>1. \A f \in DOMAIN kept : f \in DOMAIN files /\ kept[f] = files[f]
      BY DEF PartOf
    <3> QED
      BY <1>0, <2>1, <3>1 DEF Typed
  <2>2. ASSUME NEW m \in Lines, NEW n \in Nat, n > 0, AppendLine(l, kept, m, n)
        PROVE  /\ lines' \in Nat /\ lines <= lines'
               /\ size' \in [Loggers -> Nat]
               /\ \A f \in DOMAIN files' : Named(f) /\ f[2] < lines' /\ files'[f].bytes \in Nat
    <3>0. PICK p \in Numbered : p = path[l]
      OBVIOUS
    <3>1. /\ DOMAIN files' = DOMAIN kept \cup {p}
          /\ \A g \in DOMAIN kept \ {p} : files'[g] = files[g]
          /\ files'[p].bytes = (IF p \in DOMAIN kept THEN files[p].bytes ELSE Preamble)
                               + n * m.bytes
          /\ files'[p].first = IF p \in DOMAIN kept THEN files[p].first ELSE lines + 1
          /\ files'[p].last = lines + n
          /\ lines' = lines + n
          /\ size' = [size EXCEPT ![l] = size[l] + n * m.chars]
      <4>1. Appended(l, kept, m, n)
        BY <2>2, AppendLineEffect
      <4> QED
        BY <3>0, <4>1 DEF Appended
    <3>2. n * m.bytes \in Nat /\ n * m.chars \in Nat
      <4>1. m.bytes \in Nat /\ m.chars \in Nat
        BY LineType
      <4> QED
        BY <4>1
    <3>3. DOMAIN kept \subseteq DOMAIN files
      BY DEF PartOf
    <3>4. p \in Numbered /\ Named(p) /\ p[2] <= lines
      BY <1>0, <3>0 DEF Typed
    <3>5. /\ lines' \in Nat /\ lines <= lines' /\ p[2] < lines'
          /\ \A f \in DOMAIN files : f[2] < lines => f[2] < lines'
      <4>1. \A f \in DOMAIN files : f[2] \in Nat
        BY DEF Shape, Numbered
      <4> QED
        BY <1>0, <2>2, <3>1, <3>4, <4>1 DEF Numbered
    <3>6. files'[p].bytes \in Nat
      <4>1. (IF p \in DOMAIN kept THEN files[p].bytes ELSE Preamble) \in Nat
        BY <3>3, RollingLogAssumption DEF Typed
      <4> QED
        BY <3>1, <3>2, <4>1
    <3>7. size' \in [Loggers -> Nat]
      <4>1. size[l] + n * m.chars \in Nat
        BY <3>2 DEF Typed
      <4> QED
        BY <3>1, <4>1 DEF Typed
    <3>8. ASSUME NEW f \in DOMAIN files'
          PROVE  Named(f) /\ f[2] < lines' /\ files'[f].bytes \in Nat
      <4>1. CASE f = p
        BY <3>4, <3>5, <3>6, <4>1
      <4>2. CASE f # p
        BY <3>1, <3>3, <3>5, <4>2 DEF Typed
      <4> QED
        BY <4>1, <4>2
    <3> QED
      BY <3>5, <3>7, <3>8
  <2> QED
    BY <2>1, <2>2
<1>2. \A q \in Loggers : path'[q] # NoFile => Named(path'[q]) /\ path'[q][2] <= lines'
  BY <1>0, <1>1 DEF Typed, Numbered
<1>3. \A q \in Loggers : stage'[q] = "name" => date'[q] # 0
  BY DEF GoTo, Typed, Shape
<1>4. \A q \in Loggers : \A f \in list'[q] : Named(f) /\ f[2] < MaxLines
  BY DEF Typed, Shape
<1> QED
  BY <1>1, <1>2, <1>3, <1>4 DEF Typed, Named

LEMMA TypedStep ==
    ASSUME Shape, Typed, [Next]_vars
    PROVE  Typed'
<1> USE DEF Named
<1>1. CASE UNCHANGED vars
  BY <1>1 DEF vars, logger, Typed
<1>2. CASE NextDay
  BY <1>2, RollingLogAssumption DEF NextDay, logger, Typed
<1>3. ASSUME NEW l \in Loggers, Write(l) PROVE Typed'
  <2>1. \A f \in DOMAIN files : f[2] < MaxLines
    <3>1. \A f \in DOMAIN files : f[2] \in Nat /\ f[2] < lines
      BY DEF Shape, Numbered, Typed
    <3>2. lines < MaxLines
      BY <1>3 DEF Write
    <3> QED
      BY <3>1, <3>2, RollingLogAssumption DEF Shape
  <2>2. CASE GoTo(l, "append") /\ UNCHANGED <<date, list>>
    BY <1>3, <2>2 DEF Write, GoTo, Typed, Shape
  <2>3. CASE /\ date' = [date EXCEPT ![l] = today]
             /\ list' = [list EXCEPT ![l] = DOMAIN files]
             /\ GoTo(l, "name")
    <3>1. \A q \in Loggers : stage'[q] = "name" => date'[q] # 0
      BY <2>3 DEF GoTo, Typed, Shape
    <3>2. \A q \in Loggers : \A f \in list'[q] : Named(f) /\ f[2] < MaxLines
      BY <2>1, <2>3 DEF Typed, Shape
    <3> QED
      BY <1>3, <3>1, <3>2 DEF Write, Typed
  <2> QED
    BY <1>3, <2>2, <2>3 DEF Write
<1>4. ASSUME NEW l \in Loggers, CalculateNewFileName(l) PROVE Typed'
  <2>0. /\ stage[l] = "name" /\ lines \in Nat /\ lines' = lines
        /\ UNCHANGED <<today, files, date, list, stuck>>
        /\ GoTo(l, "purge")
    BY <1>4 DEF CalculateNewFileName, Shape
  <2>1. date[l] \in 1..LastDay
    BY <2>0, RollingLogAssumption DEF Typed, Shape
  <2>2. \E p, z : /\ path' = [path EXCEPT ![l] = p]
                  /\ size' = [size EXCEPT ![l] = z]
                  /\ Named(p) /\ p[2] <= lines /\ z \in Nat
    <3>1. CASE /\ path' = [path EXCEPT ![l] = <<date[l], 0>>]
               /\ size' = [size EXCEPT ![l] = 0]
      <4>1. Named(<<date[l], 0>>) /\ <<date[l], 0>>[2] <= lines
        BY <2>0, <2>1, RollingLogAssumption
      <4> QED
        BY <3>1, <4>1
    <3>2. ASSUME NEW f \in TodaysNewest(l) \cap DOMAIN files,
                 IF files[f].bytes > MaxFileSize
                 THEN /\ path' = [path EXCEPT ![l] = <<date[l], NewNumber(f)>>]
                      /\ size' = [size EXCEPT ![l] = files[f].bytes]
                 ELSE /\ path' = [path EXCEPT ![l] = <<date[l], f[2]>>]
                      /\ size' = [size EXCEPT ![l] = 0]
          PROVE  \E p, z : /\ path' = [path EXCEPT ![l] = p]
                           /\ size' = [size EXCEPT ![l] = z]
                           /\ Named(p) /\ p[2] <= lines /\ z \in Nat
      <4>1. /\ f \in Numbered /\ Named(f) /\ f[2] < lines /\ f[2] < MaxLines
            /\ files[f].bytes \in Nat
        BY DEF TodaysNewest, Typed, Shape
      <4>2. /\ Named(<<date[l], f[2] + 1>>) /\ <<date[l], f[2] + 1>>[2] <= lines
            /\ Named(<<date[l], f[2]>>) /\ <<date[l], f[2]>>[2] <= lines
        BY <2>0, <2>1, <4>1, RollingLogAssumption DEF Numbered
      <4> QED
        BY <3>2, <4>1, <4>2 DEF NewNumber
    <3> QED
      BY <1>4, <3>1, <3>2 DEF CalculateNewFileName, FileName
  <2>3. \A q \in Loggers : stage'[q] = "name" => date'[q] # 0
    BY <2>0 DEF GoTo, Typed, Shape
  <2> QED
    BY <2>0, <2>2, <2>3 DEF Typed, Shape
<1>5. ASSUME NEW l \in Loggers, NameThrows(l) \/ AppendFails(l) \/ Restart(l) PROVE Typed'
  <2>1. /\ UNCHANGED <<today, files, lines, stuck>>
        /\ GoTo(l, "idle")
        /\ path' = path \/ path' = [path EXCEPT ![l] = NoFile]
        /\ size' = size \/ size' = [size EXCEPT ![l] = 0]
        /\ date' = date \/ date' = [date EXCEPT ![l] = 0]
        /\ list' = list \/ list' = [list EXCEPT ![l] = {}]
    BY <1>5 DEF NameThrows, AppendFails, Restart
  <2>2. \A q \in Loggers : stage'[q] = "name" => date'[q] # 0
    BY <2>1 DEF GoTo, Typed, Shape
  <2>3. \A q \in Loggers : \A f \in list'[q] : Named(f) /\ f[2] < MaxLines
    BY <2>1 DEF Typed, Shape
  <2>4. \A q \in Loggers : path'[q] # NoFile => Named(path'[q]) /\ path'[q][2] <= lines
    BY <2>1 DEF Typed, Shape
  <2> QED
    BY <2>1, <2>2, <2>3, <2>4 DEF Typed
<1>6. ASSUME NEW l \in Loggers, PurgeOldFiles(l) PROVE Typed'
  <2>1. /\ path[l] \in Numbered /\ UNCHANGED <<today, path, date>>
        /\ list' = [list EXCEPT ![l] = {}] /\ GoTo(l, "append")
    BY <1>6 DEF PurgeOldFiles, Shape
  <2>2. PICK left \in SUBSET (FilesToDelete(l) \cap DOMAIN files) : \E kept :
           /\ PartOf(kept)
           /\ Cardinality(left) \in Nat
           /\ stuck + Cardinality(left) <= MaxStuck
           /\ stuck' = stuck + Cardinality(left)
           /\ \/ files' = kept /\ UNCHANGED <<lines, size>>
              \/ \E m \in Lines, n \in Nat : n > 0 /\ AppendLine(l, kept, m, n)
    BY <1>6, PurgeEffect
  <2>3. stuck' \in 0..MaxStuck
    BY <2>2, RollingLogAssumption DEF Typed
  <2> QED
    BY <2>1, <2>2, <2>3, TypedAppend
<1>7. ASSUME NEW l \in Loggers, NEW m \in Lines, Append(l, m) PROVE Typed'
  <2>1. /\ path[l] \in Numbered /\ UNCHANGED <<today, path, date, list, stuck>>
        /\ GoTo(l, "idle") /\ AppendLine(l, files, m, 1) /\ 1 \in Nat /\ 1 > 0
    BY <1>7 DEF Append, Shape
  <2>2. PartOf(files)
    BY DEF PartOf, Shape
  <2>3. stuck' \in 0..MaxStuck
    BY <2>1 DEF Typed
  <2> QED
    BY <2>1, <2>2, <2>3, TypedAppend
<1> QED
  BY <1>1, <1>2, <1>3, <1>4, <1>5, <1>6, <1>7 DEF Next, LoggerStep

LEMMA AlwaysTyped == Spec => []Typed
<1>1. Init => Typed
  <2> SUFFICES ASSUME Init PROVE Typed
    OBVIOUS
  <2>1. DOMAIN files = {}
    BY DEF Init
  <2> QED
    BY <2>1, RollingLogAssumption DEF Init, Typed
<1>2. Shape /\ Typed /\ [Next]_vars => Typed'
  BY TypedStep
<1>3. IInv => Shape
  BY DEF IInv
<1> QED
  BY <1>1, <1>2, <1>3, Invariance, PTL DEF Spec

\* The variables keep their types: the names of files and paths stay within the
\* days and the lines there are, whoever writes them.
THEOREM TypeCorrect == Spec => []TypeOK
<1>1. Shape /\ Typed => TypeOK
  <2> SUFFICES ASSUME Shape, Typed PROVE TypeOK
    OBVIOUS
  <2>1. ASSUME NEW f \in Numbered, Named(f) PROVE f \in Names
    BY <2>1 DEF Numbered, Named, Names
  <2>2. DOMAIN files \subseteq Names
    BY <2>1 DEF Shape, Typed
  <2>3. ASSUME NEW f \in DOMAIN files
        PROVE  files[f] \in [bytes : Nat, first : Nat, last : Nat]
    <3>1. files[f] = [bytes |-> files[f].bytes, first |-> files[f].first,
                      last |-> files[f].last]
      BY DEF Shape
    <3>2. files[f].bytes \in Nat /\ files[f].first \in Nat /\ files[f].last \in Nat
      BY DEF Shape, Typed
    <3>3. \A b, c, d \in Nat : [bytes |-> b, first |-> c, last |-> d]
                                \in [bytes : Nat, first : Nat, last : Nat]
      OBVIOUS
    <3> QED
      BY <3>1, <3>2, <3>3
  <2>4. path \in [Loggers -> Names \cup {NoFile}]
    BY <2>1 DEF Shape, Typed
  <2>5. date \in [Loggers -> 0..LastDay]
    BY RollingLogAssumption DEF Shape, Typed
  <2>6. list \in [Loggers -> SUBSET Names]
    BY <2>1 DEF Shape, Typed
  <2> QED
    BY <2>2, <2>3, <2>4, <2>5, <2>6 DEF Shape, Typed, TypeOK
<1>2. IInv => Shape
  BY DEF IInv
<1> QED
  BY <1>1, <1>2, Invariance, AlwaysTyped, PTL

-----------------------------------------------------------------------------
(* The newest of a set of files *)

Newer(F, f) == {g \in F : Older(f, g)}

\* The k newest.
Top(F, k) == {f \in F : Cardinality(Newer(F, f)) < k}

LEMMA OlderOrders ==
    /\ \A f \in Numbered : ~Older(f, f)
    /\ \A f, g, h \in Numbered : Older(f, g) /\ Older(g, h) => Older(f, h)
    /\ \A f, g \in Numbered : f = g \/ Older(f, g) \/ Older(g, f)
BY DEF Older, Numbered

LEMMA NewerSubset ==
    ASSUME NEW F \in SUBSET Numbered, IsFiniteSet(F), NEW f \in F
    PROVE  Newer(F, f) \in SUBSET F /\ IsFiniteSet(Newer(F, f)) /\ f \notin Newer(F, f)
           /\ Cardinality(Newer(F, f)) \in Nat
<1>1. Newer(F, f) \in SUBSET F /\ f \notin Newer(F, f)
  BY OlderOrders DEF Newer
<1> QED
  BY <1>1, FS_Subset, FS_CardinalityType

\* Of finitely many files one is the newest.
LEMMA NewestExists ==
    ASSUME NEW F \in SUBSET Numbered, IsFiniteSet(F), F # {}
    PROVE  \E f \in F : \A g \in F : ~Older(f, g)
<1> DEFINE T == {Newer(F, f) : f \in F}
<1>1. T \subseteq FiniteSubsetsOf(F) /\ T # {}
  BY NewerSubset DEF FiniteSubsetsOf
<1>2. PICK x \in T : \A y \in T : <<y, x>> \notin StrictSubsetOrdering(F)
  <2> HIDE DEF T
  <2> QED
    BY <1>1, WFMin, FS_StrictSubsetOrderingWellFounded
<1>3. PICK f \in F : x = Newer(F, f)
  OBVIOUS
<1>4. ASSUME NEW g \in F, Older(f, g) PROVE FALSE
  <2>1. /\ Newer(F, g) \in SUBSET F /\ Newer(F, f) \in SUBSET F
        /\ g \notin Newer(F, g)
    BY NewerSubset
  <2>2. Newer(F, g) \subseteq Newer(F, f) /\ g \in Newer(F, f)
    BY <1>4, OlderOrders DEF Newer
  <2>3. <<Newer(F, g), Newer(F, f)>> \in StrictSubsetOrdering(F)
    BY <2>1, <2>2 DEF StrictSubsetOrdering
  <2> QED
    BY <1>2, <1>3, <2>3
<1> QED
  BY <1>4

\* And one is the oldest.
LEMMA OldestExists ==
    ASSUME NEW F \in SUBSET Numbered, IsFiniteSet(F), F # {}
    PROVE  \E f \in F : \A g \in F : ~Older(g, f)
<1> DEFINE T == {F \ Newer(F, f) : f \in F}
<1>1. T \subseteq FiniteSubsetsOf(F) /\ T # {}
  <2>1. \A f \in F : F \ Newer(F, f) \in SUBSET F /\ IsFiniteSet(F \ Newer(F, f))
    BY FS_Difference
  <2> QED
    BY <2>1 DEF FiniteSubsetsOf
<1>2. PICK x \in T : \A y \in T : <<y, x>> \notin StrictSubsetOrdering(F)
  <2> HIDE DEF T
  <2> QED
    BY <1>1, WFMin, FS_StrictSubsetOrderingWellFounded
<1>3. PICK f \in F : x = F \ Newer(F, f)
  OBVIOUS
<1>4. ASSUME NEW g \in F, Older(g, f) PROVE FALSE
  <2>1. /\ Newer(F, f) \subseteq Newer(F, g) /\ f \in Newer(F, g)
        /\ f \notin Newer(F, f)
    BY <1>4, OlderOrders DEF Newer
  <2>2. <<F \ Newer(F, g), F \ Newer(F, f)>> \in StrictSubsetOrdering(F)
    BY <2>1 DEF StrictSubsetOrdering
  <2> QED
    BY <1>2, <1>3, <2>2
<1> QED
  BY <1>4

\* The k newest files are no more than k.
LEMMA TopIsSmall ==
    ASSUME NEW F \in SUBSET Numbered, IsFiniteSet(F), NEW k \in Nat
    PROVE  /\ Top(F, k) \in SUBSET F
           /\ IsFiniteSet(Top(F, k))
           /\ Cardinality(Top(F, k)) \in Nat
           /\ Cardinality(Top(F, k)) <= k
<1>1. /\ Top(F, k) \in SUBSET F /\ IsFiniteSet(Top(F, k))
      /\ Cardinality(Top(F, k)) \in Nat
  <2>1. Top(F, k) \in SUBSET F
    BY DEF Top
  <2> QED
    BY <2>1, FS_Subset, FS_CardinalityType
<1>2. CASE Top(F, k) = {}
  BY <1>1, <1>2, FS_EmptySet
<1>3. CASE Top(F, k) # {}
  <2>1. PICK t \in Top(F, k) : \A g \in Top(F, k) : ~Older(g, t)
    BY <1>1, <1>3, OldestExists
  <2>2. t \in F /\ Cardinality(Newer(F, t)) < k /\ Cardinality(Newer(F, t)) \in Nat
    BY <2>1, NewerSubset DEF Top
  <2>3. Top(F, k) \ {t} \in SUBSET Newer(F, t)
    BY <1>1, <2>1, <2>2, OlderOrders DEF Newer
  <2>4. Cardinality(Top(F, k) \ {t}) <= Cardinality(Newer(F, t))
    BY <2>2, <2>3, NewerSubset, FS_Subset
  <2>5. Cardinality(Top(F, k) \ {t}) = Cardinality(Top(F, k)) - 1
    BY <1>1, FS_RemoveElement
  <2> QED
    BY <1>1, <2>2, <2>4, <2>5
<1> QED
  BY <1>2, <1>3

\* If a file is not among the k newest, these are k and all newer.
LEMMA TopIsFull ==
    ASSUME NEW F \in SUBSET Numbered, IsFiniteSet(F), NEW k \in Nat,
           NEW f \in F, f \notin Top(F, k)
    PROVE  /\ k <= Cardinality(Top(F, k))
           /\ \A g \in Top(F, k) : Older(f, g)
<1>1. Top(F, k) \in SUBSET F /\ IsFiniteSet(Top(F, k)) /\ Cardinality(Top(F, k)) \in Nat
  BY TopIsSmall
<1>2. F \ Top(F, k) \in SUBSET Numbered /\ IsFiniteSet(F \ Top(F, k))
  BY FS_Difference
<1>3. PICK d \in F \ Top(F, k) : \A g \in F \ Top(F, k) : ~Older(d, g)
  BY <1>2, NewestExists
<1>4. Newer(F, d) \in SUBSET Top(F, k)
  BY <1>3 DEF Newer
<1>5. Cardinality(Newer(F, d)) <= Cardinality(Top(F, k))
  BY <1>1, <1>4, FS_Subset
<1>6. k <= Cardinality(Newer(F, d))
  <2>1. Cardinality(Newer(F, d)) \in Nat /\ ~(Cardinality(Newer(F, d)) < k)
    BY NewerSubset DEF Top
  <2> QED
    BY <2>1
<1>7. ASSUME NEW g \in Top(F, k) PROVE Older(f, g)
  <2>1. g \in F /\ f # g /\ Cardinality(Newer(F, g)) < k
    BY DEF Top
  <2>2. ~(Cardinality(Newer(F, f)) < k)
    BY DEF Top
  <2>3. ASSUME Older(g, f) PROVE FALSE
    <3>1. Newer(F, f) \in SUBSET Newer(F, g)
      BY <2>1, <2>3, OlderOrders DEF Newer
    <3>2. /\ Cardinality(Newer(F, f)) <= Cardinality(Newer(F, g))
          /\ Cardinality(Newer(F, f)) \in Nat /\ Cardinality(Newer(F, g)) \in Nat
      BY <2>1, <3>1, NewerSubset, FS_Subset
    <3> QED
      BY <2>1, <2>2, <3>2
  <2> QED
    BY <2>1, <2>3, OlderOrders
<1> QED
  BY <1>1, <1>5, <1>6, <1>7, NewerSubset

-----------------------------------------------------------------------------
(* The number of files *)

\* A process that has listed the directory and not purged it yet.
Naming(l) == stage[l] \in {"name", "purge"}

\* The files that processes other than l, and those of them that are to purge only
\* when they have listed the directory after l has, made last.
Others(own, rank, l) ==
    {own[k] : k \in {j \in writers \ {l} : Naming(j) => rank[l] < rank[j]}}

\* Each file is one of kept, which some purge left, or of rest, which some purge
\* could not delete, or the last that a process made, or can make, since its own
\* last purge.  rank is the order in which processes have listed the directory.
\* A process that is to purge makes another file afterwards: by then the last it
\* made is one of kept or deleted, because the purge of a later list has come
\* first, or will be, because its own list lacks only files that others made.
Accounted(own, rank, top, kept, rest) ==
    /\ own \in [Loggers -> Numbered \cup {NoFile}]
    /\ rank \in [Loggers -> Nat] /\ top \in Nat /\ \A l \in Loggers : rank[l] < top
    /\ \A l, k \in Loggers : l # k /\ Naming(l) /\ Naming(k) => rank[l] # rank[k]
    /\ IsFiniteSet(kept) /\ Cardinality(kept) <= Keep
    /\ IsFiniteSet(rest) /\ Cardinality(rest) <= stuck
    /\ DOMAIN files \subseteq kept \cup rest \cup {own[k] : k \in writers}
    /\ \A l \in Loggers : path[l] # NoFile =>
          /\ stage[l] \in {"idle", "append"} => own[l] = path[l]
          /\ stage[l] = "name" => own[l] \in {NoFile, path[l]}
    /\ \A l \in Loggers : Naming(l) /\ own[l] # NoFile =>
          DOMAIN files \ list[l] \subseteq Others(own, rank, l)

FewFiles ==
    /\ stuck \in Nat
    /\ \A l \in Loggers : IsFiniteSet(list[l])
    /\ \E own, rank, top, kept, rest : Accounted(own, rank, top, kept, rest)

\* There is room for as many files as are accounted for.
LEMMA FewAreBounded ==
    ASSUME Shape, FewFiles
    PROVE  ArchiveBounded
<1>1. PICK own, rank, top, kept, rest : Accounted(own, rank, top, kept, rest)
  BY DEF FewFiles
<1> DEFINE made == {own[k] : k \in writers}
<1>2. IsFiniteSet(made) /\ Cardinality(made) <= Cardinality(writers)
  <2> DEFINE f == [k \in writers |-> own[k]]
  <2>1. f \in Surjection(writers, made)
    BY DEF Surjection, Range
  <2>2. IsFiniteSet(writers)
    BY DEF Shape
  <2> HIDE DEF f, made
  <2> QED
    BY <2>1, <2>2, FS_Surjection
<1>3. /\ IsFiniteSet(kept) /\ Cardinality(kept) <= Keep
      /\ IsFiniteSet(rest) /\ Cardinality(rest) <= stuck
      /\ DOMAIN files \in SUBSET ((kept \cup rest) \cup made)
  BY <1>1 DEF Accounted
<1> HIDE DEF made
<1>4. /\ Cardinality(kept) \in Nat /\ Cardinality(rest) \in Nat
      /\ Cardinality(made) \in Nat /\ Cardinality(writers) \in Nat
  BY <1>2, <1>3, FS_CardinalityType DEF Shape
<1>5. /\ IsFiniteSet(kept \cup rest)
      /\ Cardinality(kept \cup rest) <= Cardinality(kept) + Cardinality(rest)
      /\ Cardinality(kept \cup rest) \in Nat
  <2>1. /\ IsFiniteSet(kept \cup rest)
        /\ Cardinality(kept \cup rest) =
              Cardinality(kept) + Cardinality(rest) - Cardinality(kept \cap rest)
    BY <1>3, FS_Union
  <2>2. Cardinality(kept \cap rest) \in Nat
    BY <1>3, FS_Intersection, FS_CardinalityType
  <2> QED
    BY <1>4, <2>1, <2>2, FS_CardinalityType
<1>6. /\ IsFiniteSet((kept \cup rest) \cup made)
      /\ Cardinality((kept \cup rest) \cup made)
            <= Cardinality(kept \cup rest) + Cardinality(made)
      /\ Cardinality((kept \cup rest) \cup made) \in Nat
  <2>1. /\ IsFiniteSet((kept \cup rest) \cup made)
        /\ Cardinality((kept \cup rest) \cup made) =
              Cardinality(kept \cup rest) + Cardinality(made)
              - Cardinality((kept \cup rest) \cap made)
    BY <1>2, <1>5, FS_Union
  <2>2. Cardinality((kept \cup rest) \cap made) \in Nat
    BY <1>5, FS_Intersection, FS_CardinalityType
  <2> QED
    BY <1>4, <1>5, <2>1, <2>2, FS_CardinalityType
<1>7. Cardinality(DOMAIN files) <= Cardinality((kept \cup rest) \cup made)
  BY <1>3, <1>6, FS_Subset
<1>8. Cardinality(DOMAIN files) \in Nat
  BY FS_CardinalityType DEF Shape
<1>9. Keep \in Nat /\ stuck \in Nat
  BY RollingLogAssumption DEF FewFiles
<1> QED
  BY <1>2, <1>3, <1>4, <1>5, <1>6, <1>7, <1>8, <1>9 DEF ArchiveBounded

\* A process that lists the directory lacks no file yet.
LEMMA WriteIsFew ==
    ASSUME Shape, FewFiles, NEW l \in Loggers, Write(l)
    PROVE  FewFiles'
<1>1. PICK own, rank, top, kept, rest : Accounted(own, rank, top, kept, rest)
  BY DEF FewFiles
<1>2. /\ stage[l] = "idle" /\ writers' = writers \cup {l}
      /\ UNCHANGED <<files, stuck, path>>
  BY DEF Write
<1>3. CASE GoTo(l, "append") /\ UNCHANGED <<date, list>>
  <2>1. \A k \in Loggers : Naming(k)' <=> Naming(k)
    BY <1>2, <1>3 DEF GoTo, Naming, Shape
  <2>2. \A k \in Loggers : stage'[k] \in {"idle", "append"} => stage[k] \in {"idle", "append"}
    BY <1>2, <1>3 DEF GoTo, Shape
  <2>3. \A k \in Loggers : stage'[k] = "name" => stage[k] = "name"
    BY <1>2, <1>3 DEF GoTo, Shape
  <2>4. ASSUME NEW k \in Loggers PROVE Others(own, rank, k) \subseteq Others(own, rank, k)'
    BY <1>2, <2>1 DEF Others, Shape
  <2>5. DOMAIN files' \subseteq kept \cup rest \cup {own[k] : k \in writers'}
    BY <1>1, <1>2 DEF Accounted
  <2>6. Accounted(own, rank, top, kept, rest)'
    BY <1>1, <1>2, <1>3, <2>1, <2>2, <2>3, <2>4, <2>5 DEF Accounted
  <2> QED
    BY <1>2, <1>3, <2>6 DEF FewFiles
<1>4. CASE GoTo(l, "name") /\ list' = [list EXCEPT ![l] = DOMAIN files]
  <2> DEFINE later == [rank EXCEPT ![l] = top]
  <2>1. /\ later \in [Loggers -> Nat] /\ top + 1 \in Nat
        /\ \A k \in Loggers : later[k] < top + 1
        /\ later[l] = top /\ \A k \in Loggers \ {l} : later[k] = rank[k] /\ rank[k] < top
    BY <1>1 DEF Accounted
  <2> HIDE DEF later
  <2>2. /\ \A k \in Loggers \ {l} : stage'[k] = stage[k] /\ (Naming(k)' <=> Naming(k))
        /\ stage'[l] = "name" /\ Naming(l)' /\ ~Naming(l)
    BY <1>2, <1>4 DEF GoTo, Naming, Shape
  <2>3. \A j, k \in Loggers : j # k /\ Naming(j)' /\ Naming(k)' => later[j] # later[k]
    <3>1. \A j, k \in Loggers : j # k /\ Naming(j) /\ Naming(k) => rank[j] # rank[k]
      BY <1>1 DEF Accounted
    <3>2. \A k \in Loggers : rank[k] \in Nat /\ top \in Nat
      BY <1>1 DEF Accounted
    <3> QED
      BY <2>1, <2>2, <3>1, <3>2
  <2>4. list'[l] = DOMAIN files' /\ \A k \in Loggers \ {l} : list'[k] = list[k]
    BY <1>2, <1>4 DEF Shape
  <2>5. ASSUME NEW k \in Loggers, Naming(k)', own[k] # NoFile
        PROVE  DOMAIN files' \ list'[k] \subseteq Others(own, later, k)'
    <3>1. CASE k = l
      BY <2>4, <3>1
    <3>2. CASE k # l
      <4>1. DOMAIN files \ list[k] \subseteq Others(own, rank, k)
        BY <1>1, <2>2, <2>5, <3>2 DEF Accounted
      <4>2. ASSUME NEW j \in writers \ {k}, Naming(j) => rank[k] < rank[j]
            PROVE  j \in writers' \ {k} /\ (Naming(j)' => later[k] < later[j])
        BY <1>2, <2>1, <2>2, <3>2, <4>2 DEF Shape
      <4>3. Others(own, rank, k) \subseteq Others(own, later, k)'
        BY <4>2 DEF Others
      <4> QED
        BY <1>2, <2>4, <3>2, <4>1, <4>3
    <3> QED
      BY <3>1, <3>2
  <2>6. DOMAIN files' \subseteq kept \cup rest \cup {own[k] : k \in writers'}
    BY <1>1, <1>2 DEF Accounted
  <2>7. \A k \in Loggers : path'[k] # NoFile =>
           /\ stage'[k] \in {"idle", "append"} => own[k] = path'[k]
           /\ stage'[k] = "name" => own[k] \in {NoFile, path'[k]}
    BY <1>1, <1>2, <2>2 DEF Accounted
  <2>8. Accounted(own, later, top + 1, kept, rest)'
    BY <1>1, <1>2, <2>1, <2>3, <2>5, <2>6, <2>7 DEF Accounted
  <2>9. \A k \in Loggers : IsFiniteSet(list'[k])
    BY <1>2, <2>4 DEF FewFiles, Shape
  <2> QED
    BY <1>2, <2>8, <2>9 DEF FewFiles
<1> QED
  BY <1>3, <1>4 DEF Write

\* To name a file makes none.
LEMMA NameIsFew ==
    ASSUME Shape, FewFiles, NEW l \in Loggers, CalculateNewFileName(l)
    PROVE  FewFiles'
<1>1. PICK own, rank, top, kept, rest : Accounted(own, rank, top, kept, rest)
  BY DEF FewFiles
<1>2. /\ UNCHANGED <<files, stuck, list, writers>>
      /\ stage[l] = "name"
      /\ \A k \in Loggers \ {l} : stage'[k] = stage[k] /\ path'[k] = path[k]
      /\ stage'[l] = "purge"
  BY DEF CalculateNewFileName, GoTo, Shape
<1>3. \A k \in Loggers : Naming(k)' <=> Naming(k)
  BY <1>2 DEF Naming
<1>4. \A k \in Loggers : Others(own, rank, k)' = Others(own, rank, k)
  BY <1>2, <1>3 DEF Others, Shape
<1>5. \A k \in Loggers : path'[k] # NoFile =>
         /\ stage'[k] \in {"idle", "append"} => own[k] = path'[k]
         /\ stage'[k] = "name" => own[k] \in {NoFile, path'[k]}
  BY <1>1, <1>2 DEF Accounted
<1>6. Accounted(own, rank, top, kept, rest)'
  BY <1>1, <1>2, <1>3, <1>4, <1>5 DEF Accounted
<1> QED
  BY <1>2, <1>6 DEF FewFiles

\* A process that becomes idle, or starts anew, goes on with the file it has.
LEMMA IdleIsFew ==
    ASSUME Shape, FewFiles, NEW l \in Loggers, NameThrows(l) \/ AppendFails(l) \/ Restart(l)
    PROVE  FewFiles'
<1>1. PICK own, rank, top, kept, rest : Accounted(own, rank, top, kept, rest)
  BY DEF FewFiles
<1>2. /\ UNCHANGED <<files, stuck, writers>>
      /\ stage' = [stage EXCEPT ![l] = "idle"]
      /\ \A k \in Loggers \ {l} : path'[k] = path[k] /\ list'[k] = list[k]
      /\ path'[l] = path[l] \/ path'[l] = NoFile
      /\ list'[l] = list[l] \/ list'[l] = {}
  BY DEF NameThrows, AppendFails, Restart, GoTo, Shape
<1>3. /\ \A k \in Loggers \ {l} : stage'[k] = stage[k] /\ (Naming(k)' <=> Naming(k))
      /\ stage'[l] = "idle" /\ ~Naming(l)'
  BY <1>2 DEF Naming, Shape
<1>4. PICK mine : mine = [own EXCEPT ![l] = IF path'[l] = NoFile THEN own[l] ELSE path'[l]]
  OBVIOUS
<1>5. /\ mine \in [Loggers -> Numbered \cup {NoFile}]
      /\ \A k \in Loggers \ {l} : mine[k] = own[k]
      /\ path'[l] # NoFile => mine[l] = path'[l]
      /\ own[l] # NoFile => mine[l] = own[l]
  <2>1. path'[l] \in Numbered \cup {NoFile}
    BY <1>2 DEF Shape
  <2>2. own \in [Loggers -> Numbered \cup {NoFile}]
    BY <1>1 DEF Accounted
  <2>3. path'[l] # NoFile /\ own[l] # NoFile => path'[l] = own[l]
    BY <1>1, <1>2 DEF Accounted, NameThrows, AppendFails, Restart, GoTo, Shape
  <2> QED
    BY <1>4, <2>1, <2>2, <2>3
<1>6. \A f \in DOMAIN files : f # NoFile
  BY RollingLogAssumption DEF Shape, Numbered
<1>7. DOMAIN files' \subseteq kept \cup rest \cup {mine[k] : k \in writers'}
  <2>1. \A k \in Loggers : own[k] # NoFile => mine[k] = own[k]
    BY <1>5
  <2>2. DOMAIN files \subseteq kept \cup rest \cup {own[k] : k \in writers}
    BY <1>1 DEF Accounted
  <2>3. writers \subseteq Loggers
    BY DEF Shape
  <2> QED
    BY <1>2, <1>6, <2>1, <2>2, <2>3
<1>8. ASSUME NEW k \in Loggers, Naming(k)', mine[k] # NoFile
      PROVE  DOMAIN files' \ list'[k] \subseteq Others(mine, rank, k)'
  <2>1. k # l /\ own[k] # NoFile
    BY <1>3, <1>5, <1>8
  <2>2. DOMAIN files \ list[k] \subseteq Others(own, rank, k)
    BY <1>1, <1>3, <1>8, <2>1 DEF Accounted
  <2>3. ASSUME NEW f \in Others(own, rank, k), f # NoFile PROVE f \in Others(mine, rank, k)'
    <3>1. PICK j \in writers \ {k} : own[j] = f /\ (Naming(j) => rank[k] < rank[j])
      BY DEF Others
    <3>2. j \in Loggers /\ mine[j] = f
      BY <1>5, <2>3, <3>1 DEF Shape
    <3>3. j \in writers' \ {k} /\ (Naming(j)' => rank[k] < rank[j])
      BY <1>2, <1>3, <3>1, <3>2
    <3> QED
      BY <3>2, <3>3 DEF Others
  <2> QED
    BY <1>2, <1>6, <2>1, <2>2, <2>3
<1>9. \A k \in Loggers : path'[k] # NoFile =>
         /\ stage'[k] \in {"idle", "append"} => mine[k] = path'[k]
         /\ stage'[k] = "name" => mine[k] \in {NoFile, path'[k]}
  BY <1>1, <1>2, <1>3, <1>5 DEF Accounted
<1>10. \A j, k \in Loggers : j # k /\ Naming(j)' /\ Naming(k)' => rank[j] # rank[k]
  BY <1>1, <1>3 DEF Accounted
<1>11. Accounted(mine, rank, top, kept, rest)'
  BY <1>1, <1>2, <1>5, <1>7, <1>8, <1>9, <1>10 DEF Accounted
<1>12. \A k \in Loggers : IsFiniteSet(list'[k])
  BY <1>2, FS_EmptySet DEF FewFiles
<1> QED
  BY <1>2, <1>11, <1>12 DEF FewFiles

\* Lines go to the file that a process has accounted for.
LEMMA AppendIsFew ==
    ASSUME Shape, FewFiles, NEW l \in Loggers, NEW m \in Lines, Append(l, m)
    PROVE  FewFiles'
<1>1. PICK own, rank, top, kept, rest : Accounted(own, rank, top, kept, rest)
  BY DEF FewFiles
<1>2. /\ UNCHANGED <<stuck, path, list, writers>>
      /\ stage[l] = "append" /\ path[l] # NoFile /\ path[l] \in Numbered
      /\ \A k \in Loggers \ {l} : stage'[k] = stage[k]
      /\ stage'[l] = "idle"
      /\ l \in writers
  BY DEF Append, GoTo, Shape
<1>3. DOMAIN files' = DOMAIN files \cup {path[l]}
  <2>1. PartOf(files) /\ AppendLine(l, files, m, 1) /\ 1 \in Nat
    BY DEF Append, PartOf, Shape
  <2>2. Appended(l, files, m, 1)
    BY <1>2, <2>1, AppendLineEffect
  <2> QED
    BY <2>2 DEF Appended
<1>4. own[l] = path[l]
  BY <1>1, <1>2 DEF Accounted
<1>5. \A k \in Loggers : (Naming(k)' <=> Naming(k)) /\ (Naming(k) => k # l)
  BY <1>2 DEF Naming
<1>6. \A k \in Loggers : Others(own, rank, k)' = Others(own, rank, k)
  BY <1>2, <1>5 DEF Others, Shape
<1>7. \A k \in Loggers \ {l} : path[l] \in Others(own, rank, k)
  BY <1>2, <1>4, <1>5 DEF Others
<1>8. DOMAIN files' \subseteq kept \cup rest \cup {own[k] : k \in writers'}
  BY <1>1, <1>2, <1>3, <1>4 DEF Accounted
<1>9. \A k \in Loggers : Naming(k)' /\ own[k] # NoFile =>
          DOMAIN files' \ list'[k] \subseteq Others(own, rank, k)'
  BY <1>1, <1>2, <1>3, <1>5, <1>6, <1>7 DEF Accounted
<1>10. \A k \in Loggers : path'[k] # NoFile =>
         /\ stage'[k] \in {"idle", "append"} => own[k] = path'[k]
         /\ stage'[k] = "name" => own[k] \in {NoFile, path'[k]}
  BY <1>1, <1>2, <1>4 DEF Accounted
<1>11. \A j, k \in Loggers : j # k /\ Naming(j)' /\ Naming(k)' => rank[j] # rank[k]
  BY <1>1, <1>5 DEF Accounted
<1>12. Accounted(own, rank, top, kept, rest)'
  BY <1>1, <1>2, <1>8, <1>9, <1>10, <1>11 DEF Accounted
<1> QED
  BY <1>2, <1>12 DEF FewFiles

\* What a purge leaves is among the newest of the list, not on the list, or could
\* not be deleted; and the process goes on with one file.
LEMMA PurgeLeaves ==
    ASSUME Shape, FewFiles, NEW l \in Loggers, PurgeOldFiles(l)
    PROVE  \E left :
              /\ IsFiniteSet(left) /\ Cardinality(left) \in Nat
              /\ left \subseteq DOMAIN files
              /\ stuck' = stuck + Cardinality(left)
              /\ DOMAIN files' \subseteq DOMAIN files \cup {path[l]}
              /\ DOMAIN files' \subseteq Top(list[l], Keep) \cup (DOMAIN files \ list[l])
                                         \cup left \cup {path[l]}
<1>0. path[l] \in Numbered
  BY DEF PurgeOldFiles, Shape
<1>1. PICK left \in SUBSET (FilesToDelete(l) \cap DOMAIN files) : \E kept :
         /\ PartOf(kept)
         /\ DOMAIN kept = (DOMAIN files \ FilesToDelete(l)) \cup left
         /\ IsFiniteSet(left) /\ Cardinality(left) \in Nat
         /\ stuck' = stuck + Cardinality(left)
         /\ \/ files' = kept /\ UNCHANGED <<lines, size>>
            \/ \E m \in Lines : AppendLine(l, kept, m, Cardinality(left))
  BY PurgeEffect
<1>2. PICK kept :
         /\ PartOf(kept)
         /\ DOMAIN kept = (DOMAIN files \ FilesToDelete(l)) \cup left
         /\ \/ files' = kept /\ UNCHANGED <<lines, size>>
            \/ \E m \in Lines : AppendLine(l, kept, m, Cardinality(left))
  BY <1>1
<1>3. DOMAIN files' \subseteq DOMAIN kept \cup {path[l]}
  <2>1. ASSUME NEW m \in Lines, AppendLine(l, kept, m, Cardinality(left))
        PROVE  DOMAIN files' = DOMAIN kept \cup {path[l]}
    <3>1. Appended(l, kept, m, Cardinality(left))
      BY <1>0, <1>1, <1>2, <2>1, AppendLineEffect
    <3> QED
      BY <3>1 DEF Appended
  <2> QED
    BY <1>2, <2>1
<1>4. list[l] \ FilesToDelete(l) \subseteq Top(list[l], Keep)
  <2> SUFFICES ASSUME NEW f \in list[l], f \notin FilesToDelete(l)
               PROVE  f \in Top(list[l], Keep)
    OBVIOUS
  <2>1. ~(Cardinality({g \in list[l] : Older(f, g)}) >= Keep)
    BY DEF FilesToDelete
  <2>2. Cardinality(Newer(list[l], f)) < Keep
    <3>1. Newer(list[l], f) = {g \in list[l] : Older(f, g)}
      BY DEF Newer
    <3>2. Cardinality(Newer(list[l], f)) \in Nat
      BY NewerSubset DEF FewFiles, Shape
    <3> QED
      BY <2>1, <3>1, <3>2, RollingLogAssumption
  <2> QED
    BY <2>2 DEF Top
<1> QED
  BY <1>1, <1>2, <1>3, <1>4

\* A process that purges by its own list, or after a later list, accounts for the
\* file it goes on with.
LEMMA PurgeIsFew ==
    ASSUME Shape, FewFiles, NEW l \in Loggers, PurgeOldFiles(l)
    PROVE  FewFiles'
<1>1. PICK own, rank, top, kept, rest : Accounted(own, rank, top, kept, rest)
  BY DEF FewFiles
<1>2. /\ UNCHANGED <<path, writers>>
      /\ stage[l] = "purge" /\ path[l] # NoFile /\ path[l] \in Numbered
      /\ \A k \in Loggers \ {l} : stage'[k] = stage[k] /\ list'[k] = list[k]
      /\ stage'[l] = "append" /\ list'[l] = {}
      /\ l \in writers
  BY DEF PurgeOldFiles, GoTo, Shape
<1>3. PICK left :
         /\ IsFiniteSet(left) /\ Cardinality(left) \in Nat
         /\ left \subseteq DOMAIN files
         /\ stuck' = stuck + Cardinality(left)
         /\ DOMAIN files' \subseteq DOMAIN files \cup {path[l]}
         /\ DOMAIN files' \subseteq Top(list[l], Keep) \cup (DOMAIN files \ list[l])
                                    \cup left \cup {path[l]}
  BY PurgeLeaves
<1>4. PICK p \in Numbered : p = path[l]
  BY <1>2
<1>5. /\ Naming(l) /\ ~Naming(l)'
      /\ \A k \in Loggers \ {l} : Naming(k)' <=> Naming(k)
  BY <1>2 DEF Naming
<1>6. \A f \in DOMAIN files : f # NoFile
  BY RollingLogAssumption DEF Shape, Numbered
<1>7. \A k \in Loggers : IsFiniteSet(list'[k])
  BY <1>2, FS_EmptySet DEF FewFiles
<1>8. \A j, k \in Loggers : j # k /\ Naming(j)' /\ Naming(k)' => rank[j] # rank[k]
  BY <1>1, <1>5 DEF Accounted
<1>9. stuck \in Nat /\ stuck' \in Nat /\ stuck <= stuck'
  BY <1>3 DEF FewFiles
<1>10. CASE own[l] = NoFile
  <2> DEFINE mine == [own EXCEPT ![l] = p]
  <2>1. /\ mine \in [Loggers -> Numbered \cup {NoFile}]
        /\ mine[l] = p
        /\ \A k \in Loggers \ {l} : mine[k] = own[k]
    BY <1>1 DEF Accounted
  <2> HIDE DEF mine
  <2>2. DOMAIN files' \subseteq kept \cup rest \cup {mine[k] : k \in writers'}
    <3>1. DOMAIN files \subseteq kept \cup rest \cup {own[k] : k \in writers}
      BY <1>1 DEF Accounted
    <3> QED
      BY <1>2, <1>3, <1>4, <1>6, <1>10, <2>1, <3>1 DEF Shape
  <2>3. ASSUME NEW k \in Loggers, Naming(k)', mine[k] # NoFile
        PROVE  DOMAIN files' \ list'[k] \subseteq Others(mine, rank, k)'
    <3>1. k # l /\ own[k] # NoFile /\ Naming(k)
      BY <1>5, <2>1, <2>3
    <3>2. DOMAIN files \ list[k] \subseteq Others(own, rank, k)
      BY <1>1, <3>1 DEF Accounted
    <3>3. ASSUME NEW f \in Others(own, rank, k), f # NoFile PROVE f \in Others(mine, rank, k)'
      <4>1. PICK j \in writers \ {k} : own[j] = f /\ (Naming(j) => rank[k] < rank[j])
        BY DEF Others
      <4>2. j \in Loggers /\ j # l /\ mine[j] = f
        BY <1>10, <2>1, <3>3, <4>1 DEF Shape
      <4> QED
        BY <1>2, <1>5, <4>1, <4>2 DEF Others
    <3>4. p \in Others(mine, rank, k)'
      BY <1>2, <1>5, <2>1, <3>1 DEF Others
    <3> QED
      BY <1>2, <1>3, <1>4, <1>6, <3>1, <3>2, <3>3, <3>4
  <2>4. \A k \in Loggers : path'[k] # NoFile =>
           /\ stage'[k] \in {"idle", "append"} => mine[k] = path'[k]
           /\ stage'[k] = "name" => mine[k] \in {NoFile, path'[k]}
    BY <1>1, <1>2, <1>4, <2>1 DEF Accounted
  <2>5. Cardinality(rest) <= stuck'
    <3>1. IsFiniteSet(rest) /\ Cardinality(rest) <= stuck
      BY <1>1 DEF Accounted
    <3> QED
      BY <1>9, <3>1, FS_CardinalityType
  <2>6. Accounted(mine, rank, top, kept, rest)'
    BY <1>1, <1>8, <2>1, <2>2, <2>3, <2>4, <2>5 DEF Accounted
  <2> QED
    BY <1>7, <1>9, <2>6 DEF FewFiles
<1>11. CASE own[l] # NoFile
  <2>1. DOMAIN files \ list[l] \subseteq Others(own, rank, l)
    BY <1>1, <1>5, <1>11 DEF Accounted
  <2>2. PICK mine : mine = [k \in Loggers |-> IF k = l THEN p
                                              ELSE IF Naming(k) /\ rank[k] < rank[l] THEN NoFile
                                              ELSE own[k]]
    OBVIOUS
  <2>3. /\ mine \in [Loggers -> Numbered \cup {NoFile}]
        /\ mine[l] = p
        /\ \A k \in Loggers \ {l} :
              mine[k] = IF Naming(k) /\ rank[k] < rank[l] THEN NoFile ELSE own[k]
    BY <1>1, <2>2 DEF Accounted
  <2>4. PICK newest : newest = Top(list[l], Keep)
    OBVIOUS
  <2>5. IsFiniteSet(newest) /\ Cardinality(newest) <= Keep
    <3>1. list[l] \in SUBSET Numbered /\ IsFiniteSet(list[l])
      BY DEF FewFiles, Shape
    <3> QED
      BY <2>4, <3>1, TopIsSmall, RollingLogAssumption
  <2>6. IsFiniteSet(rest \cup left) /\ Cardinality(rest \cup left) <= stuck'
    <3>1. IsFiniteSet(rest) /\ Cardinality(rest) <= stuck /\ Cardinality(rest) \in Nat
      BY <1>1, FS_CardinalityType DEF Accounted
    <3>2. /\ IsFiniteSet(rest \cup left)
          /\ Cardinality(rest \cup left) =
                Cardinality(rest) + Cardinality(left) - Cardinality(rest \cap left)
      BY <1>3, <3>1, FS_Union
    <3>3. Cardinality(rest \cap left) \in Nat
      BY <3>1, FS_Intersection, FS_CardinalityType
    <3> QED
      BY <1>3, <1>9, <3>1, <3>2, <3>3
  <2>7. \A f \in Others(own, rank, l) : f \in {mine[k] : k \in writers'}
    <3> SUFFICES ASSUME NEW f \in Others(own, rank, l)
                 PROVE  f \in {mine[k] : k \in writers'}
      OBVIOUS
    <3>1. PICK j \in writers \ {l} : own[j] = f /\ (Naming(j) => rank[l] < rank[j])
      BY DEF Others
    <3>2. j \in Loggers /\ rank[j] \in Nat /\ rank[l] \in Nat
      BY <1>1, <3>1 DEF Shape, Accounted
    <3>3. mine[j] = f
      BY <2>3, <3>1, <3>2
    <3> QED
      BY <1>2, <3>1, <3>3
  <2>8. DOMAIN files' \subseteq newest \cup (rest \cup left) \cup {mine[k] : k \in writers'}
    BY <1>2, <1>3, <1>4, <2>1, <2>3, <2>4, <2>7
  <2>9. ASSUME NEW k \in Loggers, Naming(k)', mine[k] # NoFile
        PROVE  DOMAIN files' \ list'[k] \subseteq Others(mine, rank, k)'
    <3>0. \A j \in Loggers : rank[j] \in Nat
      BY <1>1 DEF Accounted
    <3>1. k # l /\ Naming(k) /\ rank[l] < rank[k] /\ own[k] # NoFile
      <4>1. k # l /\ Naming(k)
        BY <1>5, <2>9
      <4>2. ~(rank[k] < rank[l]) /\ own[k] # NoFile
        BY <2>3, <2>9, <4>1
      <4>3. rank[k] # rank[l]
        BY <1>1, <1>5, <4>1 DEF Accounted
      <4> QED
        BY <3>0, <4>1, <4>2, <4>3
    <3>2. DOMAIN files \ list[k] \subseteq Others(own, rank, k)
      BY <1>1, <3>1 DEF Accounted
    <3>3. ASSUME NEW f \in Others(own, rank, k) PROVE f \in Others(mine, rank, k)'
      <4>1. PICK j \in writers \ {k} : own[j] = f /\ (Naming(j) => rank[k] < rank[j])
        BY DEF Others
      <4>2. j \in Loggers /\ j # l
        BY <1>5, <3>0, <3>1, <4>1 DEF Shape
      <4>3. mine[j] = f
        BY <2>3, <3>0, <3>1, <4>1, <4>2
      <4> QED
        BY <1>2, <1>5, <4>1, <4>2, <4>3 DEF Others
    <3>4. p \in Others(mine, rank, k)'
      BY <1>2, <1>5, <2>3, <3>1 DEF Others
    <3> QED
      BY <1>2, <1>3, <1>4, <3>1, <3>2, <3>3, <3>4
  <2>10. \A k \in Loggers : path'[k] # NoFile =>
           /\ stage'[k] \in {"idle", "append"} => mine[k] = path'[k]
           /\ stage'[k] = "name" => mine[k] \in {NoFile, path'[k]}
    BY <1>1, <1>2, <1>4, <2>3 DEF Accounted, Naming
  <2>11. Accounted(mine, rank, top, newest, rest \cup left)'
    BY <1>1, <1>8, <2>3, <2>5, <2>6, <2>8, <2>9, <2>10 DEF Accounted
  <2> QED
    BY <1>7, <1>9, <2>11 DEF FewFiles
<1> QED
  BY <1>10, <1>11

LEMMA AlwaysFew == Spec => []FewFiles
<1>1. Init => FewFiles
  <2> SUFFICES ASSUME Init PROVE FewFiles
    OBVIOUS
  <2> DEFINE own == [l \in Loggers |-> NoFile]
             rank == [l \in Loggers |-> 0]
  <2>1. DOMAIN files = {} /\ IsFiniteSet({}) /\ Cardinality({}) = 0
    BY FS_EmptySet DEF Init
  <2>2. Accounted(own, rank, 1, {}, {})
    BY <2>1, RollingLogAssumption DEF Init, Accounted, Naming
  <2> QED
    BY <2>1, <2>2 DEF Init, FewFiles
<1>2. Shape /\ FewFiles /\ [Next]_vars => FewFiles'
  <2> SUFFICES ASSUME Shape, FewFiles, [Next]_vars PROVE FewFiles'
    OBVIOUS
  <2>1. ASSUME UNCHANGED <<files, stuck, logger, writers>> PROVE FewFiles'
    <3>1. /\ UNCHANGED <<files, stuck, writers>>
          /\ UNCHANGED <<path, stage, list>>
      BY <2>1 DEF logger
    <3>2. \A l \in Loggers : Naming(l)' <=> Naming(l)
      BY <3>1 DEF Naming
    <3>3. ASSUME NEW own, NEW rank, NEW l \in Loggers
          PROVE  Others(own, rank, l)' = Others(own, rank, l)
      BY <3>1, <3>2 DEF Others, Shape
    <3>4. PICK own, rank, top, kept, rest : Accounted(own, rank, top, kept, rest)
      BY DEF FewFiles
    <3>5. Accounted(own, rank, top, kept, rest)'
      BY <3>1, <3>2, <3>3, <3>4 DEF Accounted
    <3> QED
      BY <3>1, <3>5 DEF FewFiles
  <2>2. CASE NextDay \/ UNCHANGED vars
    BY <2>1, <2>2 DEF NextDay, vars
  <2> QED
    BY <2>2, WriteIsFew, NameIsFew, IdleIsFew, AppendIsFew, PurgeIsFew DEF Next, LoggerStep
<1>3. IInv => Shape
  BY DEF IInv
<1> QED
  BY <1>1, <1>2, <1>3, Invariance, PTL DEF Spec

\* However many processes share the directory, at whatever pace and with
\* whatever out-of-date lists they purge it, and wherever they end and start
\* anew, it never holds more files than those to be kept, one for each process
\* that writes, and those that could not be deleted.
THEOREM ArchiveStaysBounded == Spec => []ArchiveBounded
<1>1. Shape /\ FewFiles => ArchiveBounded
  BY FewAreBounded
<1>2. IInv => Shape
  BY DEF IInv
<1> QED
  BY <1>1, <1>2, Invariance, AlwaysFew, PTL

-----------------------------------------------------------------------------
(* The size of a file *)

\* The characters a process can give to a file that it does not look at again.
Limit == MaxFileSize + Max(Lengths)

\* How large a file may be, given x characters in lines and s reports.
Room(x, s) == Preamble + MaxFileSize + BytesPerChar * (x + s * Max(Lengths))

LEMMA Products ==
    /\ \A a, b, k \in Nat : a <= b => k * a <= k * b /\ a * k <= b * k
    /\ \A a, b, k \in Nat : k * (a + b) = k * a + k * b /\ (a + b) * k = a * k + b * k
    /\ \A a, b \in Nat : a * b \in Nat
    /\ \A a, b, k \in Nat : a * (b * k) = b * (a * k)
<1>1. \A a, b, k \in Nat : a <= b => k * a <= k * b /\ a * k <= b * k
  <2> SUFFICES ASSUME NEW a \in Nat, NEW b \in Nat, NEW k \in Nat, a <= b
               PROVE  k * a <= k * b /\ a * k <= b * k
    OBVIOUS
  <2>1. PICK d \in Nat : b = a + d
    <3>1. b - a \in Nat /\ b = a + (b - a)
      OBVIOUS
    <3> QED
      BY <3>1
  <2>2. k * b = k * a + k * d /\ b * k = a * k + d * k
    BY <2>1
  <2>3. k * d \in Nat /\ d * k \in Nat /\ k * a \in Nat /\ a * k \in Nat
    OBVIOUS
  <2> QED
    BY <2>2, <2>3
<1>2. \A a, b, k \in Nat : k * (a + b) = k * a + k * b /\ (a + b) * k = a * k + b * k
  OBVIOUS
<1>3. \A a, b \in Nat : a * b \in Nat
  OBVIOUS
<1>4. \A a, b, k \in Nat : a * (b * k) = b * (a * k)
  OBVIOUS
<1> QED
  BY <1>1, <1>2, <1>3, <1>4

LEMMA RoomType ==
    ASSUME NEW x \in Nat, NEW s \in Nat
    PROVE  Room(x, s) \in Nat
BY Products, LongestType, RollingLogAssumption DEF Room

\* There is no less room for more.
LEMMA RoomGrows ==
    ASSUME NEW x \in Nat, NEW s \in Nat, NEW y \in Nat, NEW t \in Nat, x <= y, s <= t
    PROVE  Room(x, s) <= Room(y, t)
<1> DEFINE L == Max(Lengths)
<1>1. L \in Nat /\ BytesPerChar \in Nat /\ Preamble \in Nat /\ MaxFileSize \in Nat
  BY LongestType, RollingLogAssumption
<1>2. Room(x, s) = Preamble + MaxFileSize + BytesPerChar * (x + s * L)
      /\ Room(y, t) = Preamble + MaxFileSize + BytesPerChar * (y + t * L)
  BY DEF Room
<1> HIDE DEF L
<1>3. s * L <= t * L /\ s * L \in Nat /\ t * L \in Nat
  BY <1>1, Products
<1>4. x + s * L <= y + t * L /\ x + s * L \in Nat /\ y + t * L \in Nat
  BY <1>3
<1>5. BytesPerChar * (x + s * L) <= BytesPerChar * (y + t * L)
      /\ BytesPerChar * (x + s * L) \in Nat /\ BytesPerChar * (y + t * L) \in Nat
  BY <1>1, <1>4, Products
<1> QED
  BY <1>1, <1>2, <1>5

\* A line takes the room of its characters.
LEMMA RoomForLine ==
    ASSUME NEW x \in Nat, NEW s \in Nat, NEW m \in Lines
    PROVE  Room(x, s) + m.bytes <= Room(x + m.chars, s)
<1> DEFINE L == s * Max(Lengths)
<1>1. /\ L \in Nat /\ BytesPerChar \in Nat /\ Preamble \in Nat /\ MaxFileSize \in Nat
      /\ m.chars \in Nat /\ m.bytes \in Nat /\ m.bytes <= BytesPerChar * m.chars
  BY LongestType, Products, LineType, RollingLogAssumption
<1>2. /\ Room(x, s) = Preamble + MaxFileSize + BytesPerChar * (x + L)
      /\ Room(x + m.chars, s) = Preamble + MaxFileSize + BytesPerChar * ((x + m.chars) + L)
  BY DEF Room
<1> HIDE DEF L
<1>3. BytesPerChar * ((x + m.chars) + L) = BytesPerChar * (x + L) + BytesPerChar * m.chars
  <2>1. (x + m.chars) + L = (x + L) + m.chars /\ x + L \in Nat
    BY <1>1
  <2> QED
    BY <1>1, <2>1, Products
<1>4. BytesPerChar * (x + L) \in Nat /\ BytesPerChar * m.chars \in Nat
  BY <1>1, Products
<1> QED
  BY <1>1, <1>2, <1>3, <1>4

\* Reports take the room of as many deletions that failed.
LEMMA RoomForReports ==
    ASSUME NEW x \in Nat, NEW s \in Nat, NEW n \in Nat, NEW m \in Lines
    PROVE  Room(x, s) + n * m.bytes <= Room(x, s + n)
<1> DEFINE L == Max(Lengths)
<1>1. /\ L \in Nat /\ BytesPerChar \in Nat /\ Preamble \in Nat /\ MaxFileSize \in Nat
      /\ m.chars \in Nat /\ m.bytes \in Nat
      /\ m.bytes <= BytesPerChar * m.chars /\ m.chars <= L
  BY LongestType, LineType, RollingLogAssumption
<1>2. /\ Room(x, s) = Preamble + MaxFileSize + BytesPerChar * (x + s * L)
      /\ Room(x, s + n) = Preamble + MaxFileSize + BytesPerChar * (x + (s + n) * L)
  BY DEF Room
<1> HIDE DEF L
<1>3. n * m.bytes <= BytesPerChar * (n * L) /\ n * m.bytes \in Nat
  <2>1. BytesPerChar * m.chars <= BytesPerChar * L
    BY <1>1, Products
  <2>2. m.bytes <= BytesPerChar * L
    BY <1>1, <2>1, Products
  <2>3. n * m.bytes <= n * (BytesPerChar * L) /\ n * m.bytes \in Nat
    BY <1>1, <2>2, Products
  <2>4. n * (BytesPerChar * L) = BytesPerChar * (n * L)
    BY <1>1, Products
  <2> QED
    BY <2>3, <2>4
<1>4. s * L \in Nat /\ n * L \in Nat /\ (s + n) * L = s * L + n * L
  BY <1>1, Products
<1>5. BytesPerChar * (x + (s + n) * L) = BytesPerChar * (x + s * L) + BytesPerChar * (n * L)
  <2>1. x + (s + n) * L = (x + s * L) + n * L /\ x + s * L \in Nat
    BY <1>4
  <2> QED
    BY <1>1, <1>4, <2>1, Products
<1>6. BytesPerChar * (x + s * L) \in Nat /\ BytesPerChar * (n * L) \in Nat
  BY <1>1, <1>4, Products
<1> QED
  BY <1>1, <1>2, <1>3, <1>5, <1>6

\* The characters that each process has used of its limit, one by one.
Used(W, c) == {u \in W \X (1..Limit) : u[2] <= c[u[1]]}

LEMMA LimitType == Limit \in Nat /\ MaxFileSize <= Limit
BY LongestType, RollingLogAssumption DEF Limit

LEMMA UsedIsBounded ==
    ASSUME NEW W \in SUBSET Loggers, IsFiniteSet(W), NEW c
    PROVE  /\ IsFiniteSet(Used(W, c)) /\ Cardinality(Used(W, c)) \in Nat
           /\ Cardinality(Used(W, c)) <= Cardinality(W) * Limit
<1>1. IsFiniteSet(1..Limit) /\ Cardinality(1..Limit) = Limit
  BY LimitType, FS_Interval
<1>2. /\ IsFiniteSet(W \X (1..Limit))
      /\ Cardinality(W \X (1..Limit)) = Cardinality(W) * Limit
  <2>1. Cardinality(W \X (1..Limit)) = Cardinality(W) * Cardinality(1..Limit)
        /\ IsFiniteSet(W \X (1..Limit))
    BY <1>1, FS_Product, Zenon
  <2> QED
    BY <1>1, <2>1
<1>3. Used(W, c) \in SUBSET (W \X (1..Limit))
  BY DEF Used
<1> QED
  BY <1>2, <1>3, FS_Subset, FS_CardinalityType

\* A line uses as much of its process's limit as it has characters.
LEMMA UsedByLine ==
    ASSUME NEW W \in SUBSET Loggers, IsFiniteSet(W), NEW l \in W,
           NEW c \in [Loggers -> 0..Limit], NEW n \in Nat,
           NEW d \in [Loggers -> 0..Limit], d[l] = c[l] + n,
           \A k \in Loggers \ {l} : d[k] = c[k]
    PROVE  Cardinality(Used(W, d)) = Cardinality(Used(W, c)) + n
<1> DEFINE more == {l} \X ((c[l] + 1)..(c[l] + n))
<1>0. l \in Loggers /\ c[l] \in Nat /\ Limit \in Nat
  BY LimitType
<1>1. d[l] = c[l] + n /\ d[l] <= Limit /\ \A k \in Loggers \ {l} : d[k] = c[k]
  BY <1>0
<1>2. IsFiniteSet(more) /\ Cardinality(more) = n
  <2>1. PICK a \in Nat : a = c[l]
    BY <1>0
  <2> DEFINE I == (a + 1)..(a + n)
  <2>2. IsFiniteSet(I) /\ Cardinality(I) = n
    <3>1. /\ IsFiniteSet((a + 1)..(a + n))
          /\ Cardinality((a + 1)..(a + n)) =
                IF a + 1 > a + n THEN 0 ELSE (a + n) - (a + 1) + 1
      <4>1. \A i, j \in Int : /\ IsFiniteSet(i..j)
                              /\ Cardinality(i..j) = IF i > j THEN 0 ELSE j - i + 1
        BY FS_Interval
      <4>2. a + 1 \in Int /\ a + n \in Int
        OBVIOUS
      <4> QED
        BY <4>1, <4>2, Zenon
    <3> QED
      BY <3>1
  <2>3. IsFiniteSet({l}) /\ Cardinality({l}) = 1
    BY FS_Singleton
  <2>4. more = {l} \X I
    BY <2>1
  <2> HIDE DEF I
  <2>5. IsFiniteSet({l} \X I) /\ Cardinality({l} \X I) = Cardinality({l}) * Cardinality(I)
    BY <2>2, <2>3, FS_Product, Zenon
  <2>6. Cardinality({l}) * Cardinality(I) = n
    BY <2>2, <2>3
  <2> QED
    BY <2>4, <2>5, <2>6
<1>3. Used(W, d) = Used(W, c) \cup more
  <2>1. ASSUME NEW k \in W, NEW i \in 1..Limit
        PROVE  <<k, i>> \in Used(W, d) <=> <<k, i>> \in Used(W, c) \/ <<k, i>> \in more
    <3>0. k \in Loggers /\ c[k] \in Nat
      OBVIOUS
    <3>1. /\ <<k, i>> \in Used(W, d) <=> i <= d[k]
          /\ <<k, i>> \in Used(W, c) <=> i <= c[k]
      BY DEF Used
    <3>2. <<k, i>> \in more <=> k = l /\ i \in (c[l] + 1)..(c[l] + n)
      OBVIOUS
    <3> QED
      BY <1>0, <1>1, <3>0, <3>1, <3>2
  <2>2. Used(W, d) \subseteq W \X (1..Limit) /\ Used(W, c) \subseteq W \X (1..Limit)
    BY DEF Used
  <2>3. more \subseteq W \X (1..Limit)
    BY <1>0
  <2> HIDE DEF more
  <2> QED
    BY <2>1, <2>2, <2>3
<1>4. Used(W, c) \cap more = {}
  <2> SUFFICES ASSUME NEW u \in Used(W, c), u \in more PROVE FALSE
    OBVIOUS
  <2>1. u[2] <= c[u[1]] /\ u[1] = l /\ u[2] \in (c[l] + 1)..(c[l] + n)
    BY DEF Used
  <2> QED
    BY <1>0, <2>1
<1>5. Cardinality(Used(W, d)) = Cardinality(Used(W, c)) + n
  <2> HIDE DEF more
  <2>1. Cardinality(Used(W, c) \cup more) =
            Cardinality(Used(W, c)) + Cardinality(more) - Cardinality(Used(W, c) \cap more)
    BY <1>2, UsedIsBounded, FS_Union
  <2>2. Cardinality(Used(W, c)) \in Nat /\ Cardinality(Used(W, c) \cap more) = 0
    BY <1>4, UsedIsBounded, FS_EmptySet
  <2> QED
    BY <1>2, <1>3, <2>1, <2>2
<1> QED
  BY <1>5

\* Who has used nothing has used no limit.
LEMMA NothingUsed ==
    ASSUME NEW W \in SUBSET Loggers, NEW c, \A l \in Loggers : c[l] = 0
    PROVE  Cardinality(Used(W, c)) = 0
<1>1. Used(W, c) = {}
  BY DEF Used
<1> QED
  BY <1>1, FS_EmptySet

\* What processes can have given to file f since it was last found within the limit,
\* or made: c[l] characters by process l, whose own count is no less while f is its
\* file.  A process that is naming a file has given none to a file it has not listed,
\* so that to come to f by that name is to begin with it.
Spent(f, c) ==
    /\ c \in [Loggers -> 0..Limit]
    /\ files[f].bytes <= Room(Cardinality(Used(writers, c)), stuck)
    /\ \A l \in Loggers :
          /\ path[l] = f => c[l] <= size[l]
          /\ path[l] = f /\ stage[l] \in {"purge", "append"} => c[l] <= MaxFileSize
          /\ stage[l] = "name" /\ f \notin list[l] => c[l] = 0

Sizes == \A f \in DOMAIN files : \E c : Spent(f, c)

\* There is as much room when more processes write and more deletions fail.
LEMMA RoomStays ==
    ASSUME NEW W \in SUBSET Loggers, NEW V \in SUBSET Loggers, W \subseteq V,
           IsFiniteSet(V), NEW c, NEW s \in Nat, NEW t \in Nat, s <= t
    PROVE  /\ Room(Cardinality(Used(W, c)), s) \in Nat
           /\ Room(Cardinality(Used(V, c)), t) \in Nat
           /\ Room(Cardinality(Used(W, c)), s) <= Room(Cardinality(Used(V, c)), t)
<1>1. IsFiniteSet(W)
  BY FS_Subset
<1>2. Used(W, c) \in SUBSET Used(V, c)
  BY DEF Used
<1>3. /\ IsFiniteSet(Used(V, c))
      /\ Cardinality(Used(V, c)) \in Nat /\ Cardinality(Used(W, c)) \in Nat
  BY <1>1, UsedIsBounded
<1>4. Cardinality(Used(W, c)) <= Cardinality(Used(V, c))
  BY <1>2, <1>3, FS_Subset
<1> QED
  BY <1>3, <1>4, RoomType, RoomGrows

\* A file that stays as it is, as far as the process that moves is concerned.
LEMMA SpentStays ==
    ASSUME Shape, Typed, Shape', Typed', NEW l \in Loggers,
           NEW f \in DOMAIN files, f \in DOMAIN files', files'[f].bytes = files[f].bytes,
           NEW c, Spent(f, c), stuck <= stuck', writers \subseteq writers',
           \A k \in Loggers \ {l} : /\ path'[k] = path[k] /\ size'[k] = size[k]
                                    /\ stage'[k] = stage[k] /\ list'[k] = list[k],
           path'[l] = f => c[l] <= size'[l],
           path'[l] = f /\ stage'[l] \in {"purge", "append"} => c[l] <= MaxFileSize,
           stage'[l] = "name" /\ f \notin list'[l] => c[l] = 0
    PROVE  Spent(f, c)'
<1>1. files'[f].bytes <= Room(Cardinality(Used(writers', c)), stuck')
  <2>1. /\ writers \in SUBSET Loggers /\ writers' \in SUBSET Loggers /\ IsFiniteSet(writers')
        /\ stuck \in Nat /\ stuck' \in Nat /\ files[f].bytes \in Nat
    BY RollingLogAssumption DEF Shape, Typed
  <2>2. /\ Room(Cardinality(Used(writers, c)), stuck) \in Nat
        /\ Room(Cardinality(Used(writers', c)), stuck') \in Nat
        /\ Room(Cardinality(Used(writers, c)), stuck)
              <= Room(Cardinality(Used(writers', c)), stuck')
    BY <2>1, RoomStays
  <2>3. files[f].bytes <= Room(Cardinality(Used(writers, c)), stuck)
    BY DEF Spent
  <2> QED
    BY <2>1, <2>2, <2>3
<1>2. ASSUME NEW k \in Loggers
      PROVE  /\ path'[k] = f => c[k] <= size'[k]
             /\ path'[k] = f /\ stage'[k] \in {"purge", "append"} => c[k] <= MaxFileSize
             /\ stage'[k] = "name" /\ f \notin list'[k] => c[k] = 0
  BY DEF Spent
<1> QED
  BY <1>1, <1>2 DEF Spent

\* A file within the limit: nothing of it has to be anybody's.
LEMMA NoneSpent ==
    ASSUME Shape', Typed', NEW f \in DOMAIN files', files'[f].bytes <= Room(0, stuck')
    PROVE  Spent(f, [k \in Loggers |-> 0])'
<1> DEFINE c == [k \in Loggers |-> 0]
<1>1. c \in [Loggers -> 0..Limit]
  BY LimitType
<1>2. Cardinality(Used(writers', c)) = 0
  <2>1. writers' \in SUBSET Loggers /\ \A k \in Loggers : c[k] = 0
    BY DEF Shape
  <2> HIDE DEF c
  <2> QED
    BY <2>1, NothingUsed
<1>3. \A k \in Loggers : c[k] = 0 /\ 0 <= size'[k] /\ 0 <= MaxFileSize
  BY RollingLogAssumption DEF Typed
<1> HIDE DEF c
<1>4. Spent(f, c)'
  BY <1>1, <1>2, <1>3 DEF Spent
<1> QED
  BY <1>4 DEF c

LEMMA RoomToBegin ==
    ASSUME NEW s \in Nat
    PROVE  MaxFileSize <= Room(0, s) /\ Preamble <= Room(0, s)
<1>1. /\ Max(Lengths) \in Nat /\ BytesPerChar \in Nat
      /\ Preamble \in Nat /\ MaxFileSize \in Nat
  BY LongestType, RollingLogAssumption
<1>2. BytesPerChar * (0 + s * Max(Lengths)) \in Nat
  <2>1. s * Max(Lengths) \in Nat
    BY <1>1, Products
  <2>2. 0 + s * Max(Lengths) \in Nat
    BY <2>1
  <2> QED
    BY <1>1, <2>2, Products
<1> QED
  BY <1>1, <1>2 DEF Room

\* Steps that give nothing to a file and name none.
LEMMA QuietSizes ==
    ASSUME Shape, Typed, Shape', Typed', Sizes, NEW l \in Loggers,
           Write(l) \/ NameThrows(l) \/ AppendFails(l) \/ Restart(l)
    PROVE  Sizes'
<1> SUFFICES ASSUME NEW f \in DOMAIN files' PROVE \E c : Spent(f, c)'
  BY DEF Sizes
<1>1. /\ UNCHANGED <<files, stuck>> /\ writers \subseteq writers'
      /\ \A k \in Loggers \ {l} : /\ path'[k] = path[k] /\ size'[k] = size[k]
                                  /\ stage'[k] = stage[k] /\ list'[k] = list[k]
  BY DEF Write, NameThrows, AppendFails, Restart, GoTo, Shape, Typed
<1>2. f \in DOMAIN files /\ files'[f].bytes = files[f].bytes /\ stuck <= stuck'
      /\ f # NoFile
  BY <1>1, RollingLogAssumption DEF Shape, Typed, Numbered
<1>3. PICK c : Spent(f, c)
  BY <1>2 DEF Sizes
<1>4. /\ path'[l] = f => c[l] <= size'[l]
      /\ path'[l] = f /\ stage'[l] \in {"purge", "append"} => c[l] <= MaxFileSize
      /\ stage'[l] = "name" /\ f \notin list'[l] => c[l] = 0
  <2>1. CASE Write(l)
    <3>1. /\ path'[l] = path[l] /\ size'[l] = size[l]
          /\ \/ stage'[l] = "append" /\ ~(size[l] > MaxFileSize)
             \/ stage'[l] = "name" /\ list'[l] = DOMAIN files
      BY <2>1 DEF Write, GoTo, Shape
    <3>2. path[l] = f => c[l] <= size[l]
      BY <1>3 DEF Spent
    <3>3. c[l] \in Nat /\ size[l] \in Nat /\ MaxFileSize \in Nat
      BY <1>3, LimitType, RollingLogAssumption DEF Spent, Typed
    <3> QED
      BY <1>2, <3>1, <3>2, <3>3
  <2>2. CASE NameThrows(l) \/ AppendFails(l)
    <3>1. path'[l] = path[l] /\ size'[l] = size[l] /\ stage'[l] = "idle"
      BY <2>2 DEF NameThrows, AppendFails, GoTo, Shape
    <3> QED
      BY <1>3, <3>1 DEF Spent
  <2>3. CASE Restart(l)
    <3>1. path'[l] = NoFile /\ stage'[l] = "idle"
      BY <2>3 DEF Restart, GoTo, Shape
    <3> QED
      BY <1>2, <3>1
  <2> QED
    BY <2>1, <2>2, <2>3
<1>5. Spent(f, c)'
  BY <1>1, <1>2, <1>3, <1>4, SpentStays
<1> QED
  BY <1>5

\* A process comes to a file that it has found within the limit, or not found.
LEMMA NameSizes ==
    ASSUME Shape, Typed, FewFiles, Shape', Typed', Sizes, NEW l \in Loggers,
           CalculateNewFileName(l)
    PROVE  Sizes'
<1> SUFFICES ASSUME NEW f \in DOMAIN files' PROVE \E c : Spent(f, c)'
  BY DEF Sizes
<1>1. /\ UNCHANGED <<files, stuck, writers>> /\ stage[l] = "name" /\ stage'[l] = "purge"
      /\ \A k \in Loggers \ {l} : /\ path'[k] = path[k] /\ size'[k] = size[k]
                                  /\ stage'[k] = stage[k] /\ list'[k] = list[k]
  BY DEF CalculateNewFileName, GoTo, Shape, Typed
<1>2. /\ f \in DOMAIN files /\ files'[f].bytes = files[f].bytes /\ stuck <= stuck'
      /\ f \in Numbered /\ stuck' \in Nat /\ files[f].bytes \in Nat
  BY <1>1, RollingLogAssumption DEF Shape, Typed
<1>3. PICK c : Spent(f, c)
  BY <1>2 DEF Sizes
<1>4. ASSUME path'[l] # f PROVE Spent(f, c)'
  <2>1. stage'[l] # "name"
    BY <1>1
  <2> QED
    BY <1>1, <1>2, <1>3, <1>4, <2>1, SpentStays
<1>5. ASSUME f \notin list[l] PROVE Spent(f, c)'
  <2>1. c[l] = 0
    BY <1>1, <1>3, <1>5 DEF Spent
  <2>2. 0 <= size'[l] /\ 0 <= MaxFileSize /\ stage'[l] # "name"
    BY <1>1, RollingLogAssumption DEF Typed
  <2> QED
    BY <1>1, <1>2, <1>3, <2>1, <2>2, SpentStays
<1>6. ASSUME path'[l] = f, f \in list[l]
      PROVE  files[f].bytes <= MaxFileSize
  <2>1. CASE TodaysNewest(l) = {} /\ path' = [path EXCEPT ![l] = <<date[l], 0>>]
    <3> DEFINE F == {g \in list[l] : g[1] = date[l]}
    <3>1. f \in F
      BY <1>6, <2>1 DEF Shape
    <3>2. F \in SUBSET Numbered /\ IsFiniteSet(F)
      <4>1. F \in SUBSET list[l] /\ IsFiniteSet(list[l]) /\ list[l] \in SUBSET Numbered
        BY DEF FewFiles, Shape
      <4> HIDE DEF F
      <4> QED
        BY <4>1, FS_Subset
    <3>3. ASSUME NEW g \in F, \A h \in F : h[2] <= g[2] PROVE g \in TodaysNewest(l)
      BY <3>3 DEF TodaysNewest
    <3> HIDE DEF F
    <3>4. \E g \in F : \A h \in F : h[2] <= g[2]
      BY <3>1, <3>2, HighestExists
    <3> QED
      BY <2>1, <3>3, <3>4
  <2>2. ASSUME NEW g \in TodaysNewest(l) \cap DOMAIN files,
               IF files[g].bytes > MaxFileSize
               THEN /\ path' = [path EXCEPT ![l] = <<date[l], NewNumber(g)>>]
                    /\ size' = [size EXCEPT ![l] = files[g].bytes]
               ELSE /\ path' = [path EXCEPT ![l] = <<date[l], g[2]>>]
                    /\ size' = [size EXCEPT ![l] = 0]
        PROVE  files[f].bytes <= MaxFileSize
    <3>1. /\ g \in Numbered /\ g[1] = date[l]
          /\ \A h \in list[l] : h[1] = date[l] => h[2] <= g[2]
      BY DEF TodaysNewest, Shape
    <3>2. CASE files[g].bytes > MaxFileSize
      <4>1. f = <<date[l], g[2] + 1>>
        BY <1>6, <2>2, <3>2 DEF NewNumber, Shape
      <4>2. g[2] + 1 <= g[2] /\ g[2] \in Nat
        BY <1>6, <3>1, <4>1 DEF Numbered
      <4> QED
        BY <4>2
    <3>3. CASE ~(files[g].bytes > MaxFileSize)
      <4>0. f = <<date[l], g[2]>> /\ g = <<g[1], g[2]>>
        BY <1>6, <2>2, <3>1, <3>3 DEF Shape, Numbered
      <4>1. f = g
        BY <3>1, <4>0
      <4> QED
        BY <1>2, <3>3, <4>1, RollingLogAssumption
    <3> QED
      BY <3>2, <3>3
  <2> QED
    BY <2>1, <2>2 DEF CalculateNewFileName, FileName
<1>7. ASSUME path'[l] = f, f \in list[l] PROVE Spent(f, [k \in Loggers |-> 0])'
  <2>1. files[f].bytes <= MaxFileSize
    BY <1>6, <1>7
  <2>2. MaxFileSize <= Room(0, stuck') /\ Room(0, stuck') \in Nat
    BY <1>2, RoomToBegin, RoomType
  <2>3. files'[f].bytes <= Room(0, stuck')
    BY <1>2, <2>1, <2>2, RollingLogAssumption
  <2> QED
    BY <2>3, NoneSpent
<1> QED
  BY <1>4, <1>5, <1>7

\* What is purged is no larger, and reports are counted as deletions that failed.
LEMMA PurgeSizes ==
    ASSUME Shape, Typed, Shape', Typed', Sizes, NEW l \in Loggers, PurgeOldFiles(l)
    PROVE  Sizes'
<1> SUFFICES ASSUME NEW f \in DOMAIN files' PROVE \E c : Spent(f, c)'
  BY DEF Sizes
<1>1. /\ UNCHANGED <<path, writers>> /\ path[l] \in Numbered
      /\ stage[l] = "purge" /\ stage'[l] = "append"
      /\ \A k \in Loggers \ {l} : stage'[k] = stage[k] /\ list'[k] = list[k]
  BY DEF PurgeOldFiles, GoTo, Shape
<1>2. PICK n \in Nat : \E kept :
         /\ PartOf(kept)
         /\ stuck' = stuck + n
         /\ \/ files' = kept /\ UNCHANGED <<lines, size>>
            \/ \E m \in Lines : AppendLine(l, kept, m, n)
  BY PurgeEffect
<1>3. PICK kept :
         /\ PartOf(kept)
         /\ \/ files' = kept /\ UNCHANGED <<lines, size>>
            \/ \E m \in Lines : AppendLine(l, kept, m, n)
  BY <1>2
<1>4. stuck \in Nat /\ stuck' \in Nat /\ stuck <= stuck'
  BY <1>2, RollingLogAssumption DEF Typed
\* The file is no larger, and the process has counted no less.
<1>5. ASSUME f \in DOMAIN files, files'[f].bytes = files[f].bytes,
             size'[l] >= size[l], \A k \in Loggers \ {l} : size'[k] = size[k]
      PROVE  \E c : Spent(f, c)'
  <2>1. PICK c : Spent(f, c)
    BY <1>5 DEF Sizes
  <2>2. c[l] \in Nat /\ size[l] \in Nat /\ size'[l] \in Nat
    BY <2>1, LimitType DEF Spent, Typed
  <2>3. path'[l] = f => c[l] <= size'[l] /\ c[l] <= MaxFileSize
    <3>1. path[l] = f => c[l] <= size[l] /\ c[l] <= MaxFileSize
      BY <1>1, <2>1 DEF Spent
    <3> QED
      BY <1>1, <1>5, <2>2, <3>1
  <2>4. stage'[l] # "name"
    BY <1>1
  <2>5. Spent(f, c)'
    BY <1>1, <1>4, <1>5, <2>1, <2>3, <2>4, SpentStays
  <2> QED
    BY <2>5
<1>6. CASE files' = kept /\ UNCHANGED <<lines, size>>
  <2>1. f \in DOMAIN files /\ files'[f].bytes = files[f].bytes
    BY <1>3, <1>6 DEF PartOf
  <2> QED
    BY <1>5, <1>6, <2>1 DEF Typed
<1>7. ASSUME NEW m \in Lines, AppendLine(l, kept, m, n) PROVE \E c : Spent(f, c)'
  <2>1. PICK p \in Numbered : p = path[l]
    BY <1>1
  <2>2. DOMAIN kept \subseteq DOMAIN files
    BY <1>3 DEF PartOf
  <2>3. /\ DOMAIN files' = DOMAIN kept \cup {p}
        /\ \A g \in DOMAIN kept \ {p} : files'[g] = files[g]
        /\ files'[p].bytes = (IF p \in DOMAIN kept THEN files[p].bytes ELSE Preamble)
                             + n * m.bytes
        /\ size' = [size EXCEPT ![l] = size[l] + n * m.chars]
    <3>1. Appended(l, kept, m, n)
      BY <1>1, <1>3, <1>7, AppendLineEffect
    <3> QED
      BY <2>1, <3>1 DEF Appended
  <2>4. n * m.bytes \in Nat /\ n * m.chars \in Nat
    BY LineType, Products
  <2>5. size'[l] >= size[l] /\ \A k \in Loggers \ {l} : size'[k] = size[k]
    BY <2>3, <2>4 DEF Typed
  <2>6. CASE f # p
    <3>1. f \in DOMAIN files /\ files'[f].bytes = files[f].bytes
      BY <2>2, <2>3, <2>6
    <3> QED
      BY <1>5, <2>5, <3>1
  <2>7. CASE f = p /\ p \notin DOMAIN kept
    <3>1. files'[f].bytes = Preamble + n * m.bytes
      BY <2>3, <2>7
    <3>2. /\ Room(0, stuck) + n * m.bytes <= Room(0, stuck + n)
          /\ Preamble <= Room(0, stuck)
          /\ Room(0, stuck) \in Nat /\ Room(0, stuck + n) \in Nat
      <4>1. Room(0, stuck) + n * m.bytes <= Room(0, stuck + n)
        BY <1>4, RoomForReports
      <4>2. stuck + n \in Nat
        BY <1>4
      <4> QED
        BY <1>4, <4>1, <4>2, RoomToBegin, RoomType
    <3>3. files'[f].bytes <= Room(0, stuck')
      BY <1>2, <2>4, <3>1, <3>2, RollingLogAssumption
    <3> QED
      BY <3>3, NoneSpent
  <2>8. CASE f = p /\ p \in DOMAIN kept
    <3>1. f \in DOMAIN files /\ files'[f].bytes = files[f].bytes + n * m.bytes
      BY <2>2, <2>3, <2>8
    <3>2. PICK c : Spent(f, c)
      BY <3>1 DEF Sizes
    <3>3. PICK x \in Nat : x = Cardinality(Used(writers, c))
      <4>1. writers \in SUBSET Loggers /\ IsFiniteSet(writers)
        BY DEF Shape
      <4> QED
        BY <4>1, UsedIsBounded
    <3>4. /\ files[f].bytes <= Room(x, stuck) /\ files[f].bytes \in Nat
          /\ Room(x, stuck) + n * m.bytes <= Room(x, stuck + n)
          /\ Room(x, stuck) \in Nat /\ Room(x, stuck + n) \in Nat
      <4>1. Room(x, stuck) + n * m.bytes <= Room(x, stuck + n)
        BY <1>4, RoomForReports
      <4>2. stuck + n \in Nat
        BY <1>4
      <4>3. files[f].bytes <= Room(x, stuck) /\ files[f].bytes \in Nat
        BY <3>1, <3>2, <3>3 DEF Spent, Typed
      <4> QED
        BY <1>4, <4>1, <4>2, <4>3, RoomType
    <3>5. files'[f].bytes <= Room(Cardinality(Used(writers', c)), stuck')
      <4>1. files'[f].bytes <= Room(x, stuck')
        BY <1>2, <2>4, <3>1, <3>4
      <4> QED
        BY <1>1, <3>3, <4>1
    <3>6. ASSUME NEW k \in Loggers
          PROVE  /\ path'[k] = f => c[k] <= size'[k]
                 /\ path'[k] = f /\ stage'[k] \in {"purge", "append"} => c[k] <= MaxFileSize
                 /\ stage'[k] = "name" /\ f \notin list'[k] => c[k] = 0
      <4>1. /\ path[k] = f => c[k] <= size[k]
            /\ path[k] = f /\ stage[k] \in {"purge", "append"} => c[k] <= MaxFileSize
            /\ stage[k] = "name" /\ f \notin list[k] => c[k] = 0
        BY <3>2 DEF Spent
      <4>2. c[k] \in Nat /\ size[k] \in Nat /\ size'[k] \in Nat /\ size'[k] >= size[k]
        BY <2>5, <3>2, LimitType DEF Spent, Typed
      <4> QED
        BY <1>1, <4>1, <4>2
    <3>7. Spent(f, c)'
      BY <3>2, <3>5, <3>6 DEF Spent
    <3> QED
      BY <3>7
  <2> QED
    BY <2>6, <2>7, <2>8
<1> QED
  BY <1>3, <1>6, <1>7

\* A line is counted by the process that appends it.
LEMMA AppendSizes ==
    ASSUME Shape, Typed, Shape', Typed', Sizes, NEW l \in Loggers, NEW m \in Lines,
           Append(l, m)
    PROVE  Sizes'
<1> SUFFICES ASSUME NEW f \in DOMAIN files' PROVE \E c : Spent(f, c)'
  BY DEF Sizes
<1>1. /\ UNCHANGED <<path, list, stuck, writers>> /\ path[l] \in Numbered
      /\ stage[l] = "append" /\ stage'[l] = "idle" /\ l \in writers
      /\ \A k \in Loggers \ {l} : stage'[k] = stage[k]
      /\ AppendLine(l, files, m, 1)
  BY DEF Append, GoTo, Shape
<1>2. PICK p \in Numbered : p = path[l]
  BY <1>1
<1>3. /\ m.bytes \in Nat /\ m.chars \in Nat /\ m.chars <= Max(Lengths)
  BY LineType
<1>4. /\ DOMAIN files' = DOMAIN files \cup {p}
      /\ \A g \in DOMAIN files \ {p} : files'[g] = files[g]
      /\ files'[p].bytes = (IF p \in DOMAIN files THEN files[p].bytes ELSE Preamble) + m.bytes
      /\ size' = [size EXCEPT ![l] = size[l] + m.chars]
  <2>1. PartOf(files) /\ 1 \in Nat /\ 1 * m.bytes = m.bytes /\ 1 * m.chars = m.chars
    BY <1>3 DEF PartOf, Shape
  <2>2. Appended(l, files, m, 1)
    BY <1>1, <2>1, AppendLineEffect
  <2> QED
    BY <1>2, <2>1, <2>2 DEF Appended
<1>5. /\ size'[l] = size[l] + m.chars /\ size[l] \in Nat
      /\ \A k \in Loggers \ {l} : size'[k] = size[k]
  BY <1>4 DEF Typed
<1>6. stuck \in Nat /\ writers \in SUBSET Loggers /\ IsFiniteSet(writers)
  BY RollingLogAssumption DEF Typed, Shape
<1>7. CASE f # p
  <2>1. f \in DOMAIN files /\ files'[f].bytes = files[f].bytes
    BY <1>4, <1>7
  <2>2. PICK c : Spent(f, c)
    BY <2>1 DEF Sizes
  <2>3. path'[l] # f /\ stage'[l] # "name" /\ stuck <= stuck'
    BY <1>1, <1>2, <1>6, <1>7
  <2>4. Spent(f, c)'
    BY <1>1, <1>5, <2>1, <2>2, <2>3, SpentStays
  <2> QED
    BY <2>4
\* To what has been spent of f, of which this process's part is within the limit,
\* the line adds its characters.
<1>8. ASSUME NEW c \in [Loggers -> 0..Limit], c[l] <= MaxFileSize, c[l] <= size[l],
             f = p, files'[f].bytes <= Room(Cardinality(Used(writers, c)), stuck) + m.bytes,
             \A k \in Loggers : /\ path[k] = f => c[k] <= size[k]
                                /\ path[k] = f /\ stage[k] \in {"purge", "append"} =>
                                      c[k] <= MaxFileSize
                                /\ stage[k] = "name" /\ f \notin list[k] => c[k] = 0
      PROVE  \E d : Spent(f, d)'
  <2>1. c[l] \in Nat /\ c[l] + m.chars <= Limit
    BY <1>3, <1>8, LimitType, LongestType, RollingLogAssumption DEF Limit
  <2>2. PICK d \in [Loggers -> 0..Limit] : d = [c EXCEPT ![l] = c[l] + m.chars]
    <3>1. c[l] + m.chars \in 0..Limit
      BY <1>3, <2>1, LimitType
    <3>2. [c EXCEPT ![l] = c[l] + m.chars] \in [Loggers -> 0..Limit]
      BY <3>1
    <3> QED
      BY <3>2
  <2>3. d[l] = c[l] + m.chars /\ \A k \in Loggers \ {l} : d[k] = c[k]
    BY <2>2
  <2>4. Cardinality(Used(writers, d)) = Cardinality(Used(writers, c)) + m.chars
    <3>1. PICK W \in SUBSET Loggers : W = writers /\ IsFiniteSet(W) /\ l \in W
      BY <1>1, <1>6
    <3>2. PICK n \in Nat : n = m.chars
      BY <1>3
    <3>3. d[l] = c[l] + n /\ \A k \in Loggers \ {l} : d[k] = c[k]
      BY <2>3, <3>2
    <3>4. Cardinality(Used(W, d)) = Cardinality(Used(W, c)) + n
      BY <3>1, <3>3, UsedByLine
    <3> QED
      BY <3>1, <3>2, <3>4
  <2>5. files'[f].bytes <= Room(Cardinality(Used(writers', d)), stuck')
    <3>1. PICK x \in Nat : x = Cardinality(Used(writers, c))
      BY <1>6, UsedIsBounded
    <3>2. /\ Room(x, stuck) + m.bytes <= Room(x + m.chars, stuck)
          /\ Room(x, stuck) \in Nat /\ Room(x + m.chars, stuck) \in Nat
      <4>1. Room(x, stuck) + m.bytes <= Room(x + m.chars, stuck)
        BY <1>6, RoomForLine
      <4>2. x + m.chars \in Nat
        BY <1>3
      <4> QED
        BY <1>6, <4>1, <4>2, RoomType
    <3>3. files'[f].bytes <= Room(x + m.chars, stuck)
      BY <1>3, <1>8, <3>1, <3>2 DEF Typed
    <3> QED
      BY <1>1, <2>4, <3>1, <3>3
  <2>6. ASSUME NEW k \in Loggers
        PROVE  /\ path'[k] = f => d[k] <= size'[k]
               /\ path'[k] = f /\ stage'[k] \in {"purge", "append"} => d[k] <= MaxFileSize
               /\ stage'[k] = "name" /\ f \notin list'[k] => d[k] = 0
    <3>1. CASE k = l
      BY <1>1, <1>3, <1>5, <1>8, <2>1, <2>3, <3>1
    <3>2. CASE k # l
      BY <1>1, <1>5, <1>8, <2>3, <3>2
    <3> QED
      BY <3>1, <3>2
  <2>7. Spent(f, d)'
    BY <2>4, <2>5, <2>6 DEF Spent
  <2> QED
    BY <2>7
<1>9. CASE f = p /\ p \in DOMAIN files
  <2>1. PICK c : Spent(f, c)
    BY <1>9 DEF Sizes
  <2>2. /\ c \in [Loggers -> 0..Limit]
        /\ files[f].bytes <= Room(Cardinality(Used(writers, c)), stuck)
        /\ c[l] <= MaxFileSize /\ c[l] <= size[l]
        /\ \A k \in Loggers : /\ path[k] = f => c[k] <= size[k]
                              /\ path[k] = f /\ stage[k] \in {"purge", "append"} =>
                                    c[k] <= MaxFileSize
                              /\ stage[k] = "name" /\ f \notin list[k] => c[k] = 0
    BY <1>1, <1>2, <1>9, <2>1 DEF Spent
  <2>3. files'[f].bytes <= Room(Cardinality(Used(writers, c)), stuck) + m.bytes
    <3>1. Cardinality(Used(writers, c)) \in Nat
      BY <1>6, UsedIsBounded
    <3>2. Room(Cardinality(Used(writers, c)), stuck) \in Nat
      BY <1>6, <3>1, RoomType
    <3>3. files'[f].bytes = files[f].bytes + m.bytes /\ files[f].bytes \in Nat
      BY <1>4, <1>9 DEF Typed
    <3> QED
      BY <1>3, <2>2, <3>2, <3>3
  <2> QED
    BY <1>8, <1>9, <2>2, <2>3
<1>10. CASE f = p /\ p \notin DOMAIN files
  <2>1. PICK c : c = [k \in Loggers |-> 0]
    OBVIOUS
  <2>2. /\ c \in [Loggers -> 0..Limit]
        /\ \A k \in Loggers : c[k] = 0 /\ c[k] <= size[k] /\ c[k] <= MaxFileSize
    BY <2>1, LimitType, RollingLogAssumption DEF Typed
  <2>3. files'[f].bytes <= Room(Cardinality(Used(writers, c)), stuck) + m.bytes
    <3>1. Cardinality(Used(writers, c)) = 0
      BY <1>6, <2>2, NothingUsed
    <3>2. Preamble <= Room(0, stuck) /\ Room(0, stuck) \in Nat
      BY <1>6, RoomToBegin, RoomType
    <3>3. files'[f].bytes = Preamble + m.bytes
      BY <1>4, <1>10
    <3> QED
      BY <1>3, <3>1, <3>2, <3>3, RollingLogAssumption
  <2> QED
    BY <1>8, <1>10, <2>2, <2>3
<1> QED
  BY <1>7, <1>9, <1>10

\* However many processes append to a file, and however often each starts its count
\* anew, the file does not grow without end: each gives it no more than the limit
\* and a line before it looks at the file again, beside the reports of deletions
\* that failed.
THEOREM SizesStayBounded == Spec => []FileSizeBounded
<1>1. Init => Sizes
  <2> SUFFICES ASSUME Init PROVE Sizes
    OBVIOUS
  <2>1. DOMAIN files = {}
    BY DEF Init
  <2> QED
    BY <2>1 DEF Sizes
<1>2. /\ Shape /\ Typed /\ FewFiles /\ Sizes /\ [Next]_vars
      /\ Shape' /\ Typed'
      => Sizes'
  <2> SUFFICES ASSUME Shape, Typed, FewFiles, Sizes, [Next]_vars, Shape', Typed'
               PROVE  Sizes'
    OBVIOUS
  <2>1. CASE NextDay \/ UNCHANGED vars
    BY <2>1 DEF NextDay, vars, logger, Sizes, Spent
  <2> QED
    BY <2>1, QuietSizes, NameSizes, PurgeSizes, AppendSizes DEF Next, LoggerStep
<1>3. Shape /\ Typed /\ Sizes => FileSizeBounded
  <2> SUFFICES ASSUME Shape, Typed, Sizes, NEW f \in DOMAIN files
               PROVE  files[f].bytes <= Room(Cardinality(writers) * Limit, stuck)
    BY DEF FileSizeBounded, Room, Limit
  <2>1. PICK c : Spent(f, c)
    BY DEF Sizes
  <2>2. /\ writers \in SUBSET Loggers /\ IsFiniteSet(writers) /\ stuck \in Nat
        /\ files[f].bytes \in Nat
    BY RollingLogAssumption DEF Shape, Typed
  <2>3. /\ Cardinality(Used(writers, c)) \in Nat
        /\ Cardinality(Used(writers, c)) <= Cardinality(writers) * Limit
    BY <2>2, UsedIsBounded
  <2>4. Cardinality(writers) * Limit \in Nat
    BY <2>2, FS_CardinalityType, LimitType, Products
  <2>5. /\ Room(Cardinality(Used(writers, c)), stuck)
              <= Room(Cardinality(writers) * Limit, stuck)
        /\ Room(Cardinality(Used(writers, c)), stuck) \in Nat
        /\ Room(Cardinality(writers) * Limit, stuck) \in Nat
    BY <2>2, <2>3, <2>4, RoomGrows, RoomType
  <2> QED
    BY <2>1, <2>2, <2>5 DEF Spent
<1>4. IInv => Shape
  BY DEF IInv
<1> QED
  BY <1>1, <1>2, <1>3, <1>4, Invariance, AlwaysTyped, AlwaysFew, PTL DEF Spec

-----------------------------------------------------------------------------
(* The latest lines *)

\* The lines that the newest k files of fs hold.
HeldBy(fs, k) == UNION {fs[f].first .. fs[f].last : f \in Top(DOMAIN fs, k)}

\* Each file has been given lines, and from any line they hold the files that are
\* to be kept hold all lines to the last.
Unbroken ==
    /\ \A f \in DOMAIN files : 1 <= files[f].first /\ files[f].first <= files[f].last
    /\ Keep > 0 =>
          /\ lines > 0 => lines \in HeldBy(files, Keep)
          /\ \A a \in HeldBy(files, Keep) : \A x \in a..lines : x \in HeldBy(files, Keep)

\* The newest files stay the newest when others go.
LEMMA TopOfPart ==
    ASSUME NEW F \in SUBSET Numbered, IsFiniteSet(F), NEW k \in Nat,
           NEW G \in SUBSET F, Top(F, k) \subseteq G
    PROVE  Top(G, k) = Top(F, k)
<1>1. G \in SUBSET Numbered /\ IsFiniteSet(G)
  BY FS_Subset
<1>2. ASSUME NEW g \in Top(F, k) PROVE g \in Top(G, k)
  <2>1. g \in F /\ g \in G /\ Cardinality(Newer(F, g)) < k
    BY <1>2 DEF Top
  <2>2. Newer(G, g) \in SUBSET Newer(F, g)
    BY DEF Newer
  <2>3. /\ Cardinality(Newer(G, g)) <= Cardinality(Newer(F, g))
        /\ Cardinality(Newer(G, g)) \in Nat /\ Cardinality(Newer(F, g)) \in Nat
    BY <1>1, <2>1, <2>2, NewerSubset, FS_Subset
  <2> QED
    BY <2>1, <2>3 DEF Top
<1>3. ASSUME NEW g \in Top(G, k), g \notin Top(F, k) PROVE FALSE
  <2>1. g \in G /\ g \in F /\ Cardinality(Newer(G, g)) < k
    BY <1>3 DEF Top
  <2>2. k <= Cardinality(Top(F, k)) /\ \A h \in Top(F, k) : Older(g, h)
    BY <1>3, <2>1, TopIsFull
  <2>3. Top(F, k) \in SUBSET Newer(G, g)
    BY <2>2 DEF Newer
  <2>4. /\ Cardinality(Top(F, k)) <= Cardinality(Newer(G, g))
        /\ Cardinality(Newer(G, g)) \in Nat
    BY <1>1, <2>1, <2>3, NewerSubset, FS_Subset
  <2>5. Cardinality(Top(F, k)) \in Nat
    BY TopIsSmall
  <2> QED
    BY <2>1, <2>2, <2>4, <2>5
<1> QED
  BY <1>2, <1>3

\* The newest of all files is among the k newest; another that is among them was so
\* before this one came.
LEMMA TopWithNewest ==
    ASSUME NEW F \in SUBSET Numbered, IsFiniteSet(F), NEW k \in Nat, k > 0,
           NEW p \in Numbered, \A g \in F : ~Older(p, g)
    PROVE  /\ p \in Top(F \cup {p}, k)
           /\ \A f \in Top(F \cup {p}, k) \ {p} : f \in Top(F, k)
<1> DEFINE G == F \cup {p}
<1>1. G \in SUBSET Numbered /\ IsFiniteSet(G)
  BY FS_AddElement
<1>2. p \in Top(G, k)
  <2>1. Newer(G, p) = {}
    BY OlderOrders DEF Newer
  <2> QED
    BY <2>1, FS_EmptySet DEF Top
<1>3. ASSUME NEW f \in Top(G, k) \ {p} PROVE f \in Top(F, k)
  <2>1. f \in G /\ f \in F /\ Cardinality(Newer(G, f)) < k
    BY DEF Top
  <2>2. Newer(F, f) \in SUBSET Newer(G, f)
    BY DEF Newer
  <2> HIDE DEF G
  <2>3. /\ Cardinality(Newer(F, f)) <= Cardinality(Newer(G, f))
        /\ Cardinality(Newer(F, f)) \in Nat /\ Cardinality(Newer(G, f)) \in Nat
    BY <1>1, <2>1, <2>2, NewerSubset, FS_Subset
  <2> QED
    BY <2>1, <2>3 DEF Top
<1> QED
  BY <1>2, <1>3

\* A line is held by a file.
LEMMA HeldBySome ==
    ASSUME NEW fs, NEW k, NEW x
    PROVE  x \in HeldBy(fs, k) <=>
              \E f \in Top(DOMAIN fs, k) : x \in fs[f].first .. fs[f].last
BY DEF HeldBy

\* Whatever goes of the others, and whatever is given to the newest file, the lines
\* stay unbroken.
LEMMA UnbrokenGiven ==
    ASSUME Shape, Unbroken, NEW p \in Numbered, InOrder(files),
           \A g \in DOMAIN files : ~Older(p, g) /\ files[g].last <= lines,
           NEW kept, PartOf(kept), Top(DOMAIN files, Keep) \subseteq DOMAIN kept,
           \/ files' = kept /\ UNCHANGED lines
           \/ \E m, n : n \in Nat /\ n > 0 /\ files' = Given(kept, p, m, n) /\ lines' = lines + n
    PROVE  Unbroken'
<1>1. /\ DOMAIN files \in SUBSET Numbered /\ IsFiniteSet(DOMAIN files)
      /\ DOMAIN kept \in SUBSET DOMAIN files
      /\ \A f \in DOMAIN kept : kept[f] = files[f]
      /\ lines \in Nat /\ Keep \in Nat
      /\ \A f \in DOMAIN files : files[f].first \in Nat /\ files[f].last \in Nat
  BY RollingLogAssumption DEF Shape, PartOf
<1>2. DOMAIN kept \in SUBSET Numbered /\ IsFiniteSet(DOMAIN kept)
  BY <1>1, FS_Subset
<1>3. Top(DOMAIN kept, Keep) = Top(DOMAIN files, Keep)
  BY <1>1, TopOfPart
<1>4. \A x : x \in HeldBy(kept, Keep) <=> x \in HeldBy(files, Keep)
  <2> TAKE x
  <2>1. \A f \in Top(DOMAIN files, Keep) : kept[f] = files[f]
    BY <1>1
  <2> QED
    BY <1>3, <2>1, HeldBySome
<1>5. CASE files' = kept /\ UNCHANGED lines
  <2>1. \A f \in DOMAIN files' : 1 <= files'[f].first /\ files'[f].first <= files'[f].last
    BY <1>1, <1>5 DEF Unbroken
  <2>2. ASSUME Keep > 0
        PROVE  /\ lines' > 0 => lines' \in HeldBy(files', Keep)
               /\ \A a \in HeldBy(files', Keep) : \A x \in a..lines' : x \in HeldBy(files', Keep)
    BY <1>4, <1>5, <2>2 DEF Unbroken
  <2> QED
    BY <2>1, <2>2 DEF Unbroken
<1>6. ASSUME NEW m, NEW n \in Nat, n > 0, files' = Given(kept, p, m, n), lines' = lines + n
      PROVE  Unbroken'
  <2>1. Grown(files', kept, p, n)
    BY <1>6, GivenShape
  <2>2. /\ DOMAIN files' = DOMAIN kept \cup {p}
        /\ \A g \in DOMAIN kept \ {p} : files'[g] = files[g]
        /\ files'[p].last = lines + n
        /\ files'[p].first = IF p \in DOMAIN kept THEN files[p].first ELSE lines + 1
    BY <2>1 DEF Grown
  <2>3. /\ \A f \in DOMAIN files : 1 <= files[f].first /\ files[f].first <= files[f].last
        /\ \A f \in DOMAIN files : files[f].last <= lines
    BY DEF Unbroken
  <2>4. /\ files'[p].first \in Nat /\ 1 <= files'[p].first /\ files'[p].first <= lines + 1
        /\ files'[p].first <= files'[p].last
    BY <1>1, <1>6, <2>2, <2>3
  <2>5. \A f \in DOMAIN files' : 1 <= files'[f].first /\ files'[f].first <= files'[f].last
    BY <1>1, <2>2, <2>3, <2>4
  <2>6. ASSUME Keep > 0
        PROVE  /\ lines' > 0 => lines' \in HeldBy(files', Keep)
               /\ \A a \in HeldBy(files', Keep) : \A x \in a..lines' : x \in HeldBy(files', Keep)
    <3>1. /\ p \in Top(DOMAIN files', Keep)
          /\ \A f \in Top(DOMAIN files', Keep) \ {p} : f \in Top(DOMAIN kept, Keep)
      BY <1>1, <1>2, <2>2, <2>6, TopWithNewest
    <3>2. \A x \in (files'[p].first)..(lines + n) : x \in HeldBy(files', Keep)
      BY <2>2, <3>1, HeldBySome
    <3>3. lines' \in HeldBy(files', Keep)
      <4>1. lines' \in (files'[p].first)..(lines + n)
        BY <1>1, <1>6, <2>2, <2>4
      <4> QED
        BY <3>2, <4>1
    <3>4. ASSUME NEW a \in HeldBy(files', Keep), NEW x \in a..lines'
          PROVE  x \in HeldBy(files', Keep)
      <4>1. PICK f \in Top(DOMAIN files', Keep) : a \in files'[f].first .. files'[f].last
        BY HeldBySome
      <4>2. f \in DOMAIN files'
        BY DEF Top
      <4>3. CASE f = p
        <5>1. x \in (files'[p].first)..(lines + n)
          BY <1>1, <1>6, <2>4, <4>1, <4>3
        <5> QED
          BY <3>2, <5>1
      <4>4. CASE f # p /\ x > lines
        <5>1. x \in (files'[p].first)..(lines + n)
          BY <1>1, <1>6, <2>4, <4>4
        <5> QED
          BY <3>2, <5>1
      <4>5. CASE f # p /\ ~(x > lines)
        <5>1. /\ f \in Top(DOMAIN files, Keep) /\ f \in DOMAIN files
              /\ files'[f] = files[f]
          BY <1>1, <1>3, <2>2, <3>1, <4>2, <4>5
        <5>2. a \in HeldBy(files, Keep) /\ x \in a..lines /\ a \in Nat /\ x \in Nat
              /\ files[f].first <= a /\ a <= x
          <6>1. a \in files[f].first .. files[f].last
            BY <4>1, <5>1
          <6>2. a \in Nat /\ files[f].first <= a
            BY <1>1, <5>1, <6>1
          <6>3. x \in a..lines /\ x \in Nat /\ a <= x
            BY <1>1, <1>6, <4>5, <6>2
          <6> QED
            BY <5>1, <6>1, <6>2, <6>3, HeldBySome
        <5>3. x \in HeldBy(files, Keep)
          BY <2>6, <5>2 DEF Unbroken
        <5>4. PICK g \in Top(DOMAIN files, Keep) : x \in files[g].first .. files[g].last
          BY <5>3, HeldBySome
        <5>5. g \in DOMAIN kept /\ g \in DOMAIN files /\ g \in DOMAIN files'
          BY <1>1, <1>3, <2>2 DEF Top
        <5>6. CASE g \in Top(DOMAIN files', Keep)
          <6>1. x \in files'[g].first .. files'[g].last
            <7>1. CASE g = p
              BY <1>1, <1>6, <2>2, <4>5, <5>2, <5>4, <5>5, <7>1
            <7>2. CASE g # p
              BY <2>2, <5>4, <5>5, <7>2
            <7> QED
              BY <7>1, <7>2
          <6> QED
            BY <5>6, <6>1, HeldBySome
        <5>7. CASE g \notin Top(DOMAIN files', Keep)
          <6>1. Older(g, f)
            <7>1. DOMAIN files' \in SUBSET Numbered /\ IsFiniteSet(DOMAIN files')
              BY <1>2, <2>2, FS_AddElement
            <7> QED
              BY <1>1, <5>5, <5>7, <7>1, TopIsFull
          <6>2. files[g].last < files[f].first
            BY <5>1, <5>5, <6>1 DEF InOrder
          <6>3. x <= files[g].last
            BY <1>1, <5>2, <5>4, <5>5
          <6> QED
            BY <1>1, <5>1, <5>2, <5>5, <6>2, <6>3
        <5> QED
          BY <5>6, <5>7
      <4> QED
        BY <4>3, <4>4, <4>5
    <3> QED
      BY <3>3, <3>4
  <2> QED
    BY <2>5, <2>6 DEF Unbroken
<1> QED
  BY <1>5, <1>6

LEMMA UnbrokenStep ==
    ASSUME Shape, NEW w \in Loggers, Sole(w), Unbroken, [Next]_vars, writers' \subseteq {w}
    PROVE  Unbroken'
<1>0. ASSUME UNCHANGED <<files, lines>> PROVE Unbroken'
  BY <1>0 DEF Unbroken
<1>1. /\ InOrder(files)
      /\ path[w] # NoFile =>
            \A g \in DOMAIN files : ~Older(path[w], g) /\ files[g].last <= lines
  BY DEF Sole
<1>2. CASE PurgeOldFiles(w)
  <2>1. /\ path[w] \in Numbered /\ path[w] # NoFile
        /\ list[w] = DOMAIN files
    BY <1>2 DEF PurgeOldFiles, Shape, Sole
  <2>2. PICK left \in SUBSET (FilesToDelete(w) \cap DOMAIN files) : \E kept :
           /\ PartOf(kept)
           /\ DOMAIN kept = (DOMAIN files \ FilesToDelete(w)) \cup left
           /\ Cardinality(left) \in Nat
           /\ \/ files' = kept /\ UNCHANGED <<lines, size>>
              \/ /\ Cardinality(left) > 0
                 /\ \E m \in Lines : AppendLine(w, kept, m, Cardinality(left))
    BY <1>2, PurgeEffect
  <2>3. PICK kept :
           /\ PartOf(kept)
           /\ DOMAIN files \ FilesToDelete(w) \subseteq DOMAIN kept
           /\ \/ files' = kept /\ UNCHANGED lines
              \/ \E m, n : /\ n \in Nat /\ n > 0
                           /\ files' = Given(kept, path[w], m, n) /\ lines' = lines + n
    BY <2>2 DEF AppendLine
  <2>4. Top(DOMAIN files, Keep) \subseteq DOMAIN kept
    <3> SUFFICES ASSUME NEW f \in Top(DOMAIN files, Keep) PROVE f \in DOMAIN kept
      OBVIOUS
    <3>1. f \in DOMAIN files /\ Cardinality(Newer(DOMAIN files, f)) < Keep
      BY DEF Top
    <3>2. Cardinality(Newer(DOMAIN files, f)) \in Nat /\ Keep \in Nat
      BY <3>1, NewerSubset, RollingLogAssumption DEF Shape
    <3>3. {g \in list[w] : Older(f, g)} = Newer(DOMAIN files, f)
      BY <2>1 DEF Newer
    <3>4. f \notin FilesToDelete(w)
      BY <3>1, <3>2, <3>3 DEF FilesToDelete
    <3> QED
      BY <2>3, <3>1, <3>4
  <2> QED
    BY <1>1, <2>1, <2>3, <2>4, UnbrokenGiven
<1>3. ASSUME NEW m \in Lines, Append(w, m) PROVE Unbroken'
  <2>1. /\ path[w] \in Numbered /\ path[w] # NoFile
        /\ PartOf(files)
        /\ files' = Given(files, path[w], m, 1) /\ lines' = lines + 1
    BY <1>3 DEF Append, AppendLine, Shape, PartOf
  <2>2. Top(DOMAIN files, Keep) \subseteq DOMAIN files
    BY DEF Top
  <2>3. \E a, n : n \in Nat /\ n > 0 /\ files' = Given(files, path[w], a, n) /\ lines' = lines + n
    <3>1. 1 \in Nat /\ 1 > 0
      OBVIOUS
    <3> QED
      BY <2>1, <3>1
  <2> QED
    BY <1>1, <2>1, <2>2, <2>3, UnbrokenGiven
<1>4. ASSUME NEW l \in Loggers \ {w}, LoggerStep(l) PROVE Unbroken'
  BY <1>0, <1>4, OthersRest
<1>5. CASE \/ NextDay \/ UNCHANGED vars \/ Write(w) \/ CalculateNewFileName(w)
           \/ NameThrows(w) \/ AppendFails(w) \/ Restart(w)
  BY <1>0, <1>5 DEF NextDay, vars, Write, CalculateNewFileName, NameThrows, AppendFails,
     Restart
<1> QED
  BY <1>2, <1>3, <1>4, <1>5 DEF Next, LoggerStep

\* A line that is held, and from which all are held to the last, is one of those
\* from the first to the last.
LEMMA HeldIsRun ==
    ASSUME NEW S \in SUBSET Nat, NEW n \in S, \A a \in S : a <= n /\ \A x \in a..n : x \in S
    PROVE  S = Min(S)..n
<1>1. PICK a \in S : \A y \in S : <<y, a>> \notin OpToRel(<, Nat)
  BY WFMin, NatLessThanWellFounded
<1>2. \A y \in S : a <= y
  <2>1. \A y \in S : ~(y < a)
    BY <1>1 DEF OpToRel
  <2> QED
    BY <2>1
<1>3. Min(S) \in S /\ \A y \in S : Min(S) <= y
  BY <1>2 DEF Min
<1>4. ASSUME NEW x \in Min(S)..n PROVE x \in S
  BY <1>3
<1>5. ASSUME NEW x \in S PROVE x \in Min(S)..n
  BY <1>3
<1> QED
  BY <1>4, <1>5

\* With one process, restarted at any point, the files that are to be kept hold an
\* unbroken run of lines that ends with the last one: whatever is deleted or fails to
\* be, a purge never takes one of the latest lines.
THEOREM LatestIsHeld == Spec => []HoldsTheLatest
<1> DEFINE Inv == \A w \in Loggers : writers \subseteq {w} => Unbroken
<1>1. Init => Inv
  <2> SUFFICES ASSUME Init PROVE Unbroken
    OBVIOUS
  <2>1. DOMAIN files = {} /\ lines = 0
    BY DEF Init
  <2>2. \A a : a \notin HeldBy(files, Keep)
    BY <2>1 DEF HeldBy, Top
  <2> QED
    BY <2>1, <2>2 DEF Unbroken
<1>2. IInv /\ Inv /\ [Next]_vars => Inv'
  <2> SUFFICES ASSUME IInv, Inv, [Next]_vars, NEW w \in Loggers, writers' \subseteq {w}
               PROVE  Unbroken'
    OBVIOUS
  <2>1. writers \subseteq writers'
    BY DEF Next, vars, NextDay, LoggerStep, Write, CalculateNewFileName, NameThrows,
       PurgeOldFiles, Append, AppendFails, Restart
  <2>2. Shape /\ Sole(w) /\ Unbroken
    BY <2>1 DEF IInv
  <2> QED
    BY <2>2, UnbrokenStep
<1>3. IInv /\ Inv => HoldsTheLatest
  <2> SUFFICES ASSUME IInv, Inv, Cardinality(writers) = 1, lines > 0, Keep > 0
               PROVE  LET held == UNION {files[f].first .. files[f].last : f \in Newest(Keep)}
                      IN  lines \in held /\ held = Min(held) .. lines
    BY DEF HoldsTheLatest
  <2>1. PICK held : held = UNION {files[f].first .. files[f].last : f \in Newest(Keep)}
    OBVIOUS
  <2>2. held = HeldBy(files, Keep)
    <3>1. Newest(Keep) = Top(DOMAIN files, Keep)
      BY DEF Newest, Top, Newer
    <3> QED
      BY <2>1, <3>1 DEF HeldBy
  <2>3. PICK w \in Loggers : writers = {w} /\ Sole(w)
    BY OneIsSole
  <2>4. Unbroken
    BY <2>3
  <2>5. lines \in held /\ \A a \in held : \A x \in a..lines : x \in held
    BY <2>2, <2>4 DEF Unbroken
  <2>6. ASSUME NEW a \in held PROVE a \in Nat /\ a <= lines
    <3>1. PICK f \in Top(DOMAIN files, Keep) : a \in files[f].first .. files[f].last
      BY <2>2, HeldBySome
    <3>2. f \in DOMAIN files /\ files[f].first \in Nat /\ files[f].last \in Nat
          /\ files[f].last <= lines /\ lines \in Nat
      BY <2>3 DEF Top, IInv, Shape, Sole
    <3> QED
      BY <3>1, <3>2
  <2>7. held = Min(held) .. lines
    <3>1. held \in SUBSET Nat
      BY <2>6
    <3> QED
      BY <2>5, <2>6, <3>1, HeldIsRun
  <2> QED
    BY <2>1, <2>5, <2>7
<1> HIDE DEF Inv
<1> QED
  BY <1>1, <1>2, <1>3, Invariance, PTL DEF Spec
=============================================================================
