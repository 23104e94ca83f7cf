----------------------------- MODULE CommandLine ------------------------------
(***************************************************************************)
(* One run of the binwalk program (cli/src/main.cpp): an entropy graph, or *)
(* the analysis of one file and, with --matryoshka, of everything its      *)
(* extraction brings out, in batches of concurrent workers; the JSON log   *)
(* and the exit status.  The first file is carved step by step (Carving),  *)
(* the graph is drawn step by step (Entropy), and a built-in extractor     *)
(* writes what it finds in the first file step by step (Chroot); what      *)
(* scans find and extractions end up with is any choice.  A path is the    *)
(* sequence of its names, from the first file's on; names are numbers, in  *)
(* their order.                                                            *)
(***************************************************************************)
EXTENDS Carving, FiniteSets, SequencesExt

CONSTANTS
  Extractions,     \* what the extractions of one file may come to: files brought out,
                   \* each at the offset of a result and then its names; the offsets
                   \* of results whose extraction failed; and the offsets of those
                   \* whose files are analysed too
  MaxDepth,        \* bound: no file this deep is extracted
  Workers,         \* worker_count
  Runs,            \* what is run on what: options, one of Inputs, the files that earlier
                   \* runs left in the directory, and what they left in the log
  Target, Levels, Width, Height,   \* see Entropy
  BuiltIn,         \* the names of results that a built-in extractor takes
  RawNames, Sanitized, RawPaths, LinkTargets, MaxWrites    \* see Chroot

ASSUME CommandAssumption ==
  /\ \A e \in Extractions :
       /\ e \in [made : SUBSET Seq(Nat), failed : SUBSET Nat, followed : SUBSET Nat]
       /\ IsFiniteSet(e.made) /\ \A p \in e.made : Len(p) >= 2
       /\ \A p, q \in e.made : p # q => ~IsPrefix(p, q)   \* a file is no directory
  /\ MaxDepth \in Nat /\ Workers \in Nat \ {0}
  /\ \A r \in Runs : /\ r.options \in [{"stdin", "extract", "carve", "matryoshka", "entropy",
                                       "png", "log"} -> BOOLEAN]
                     /\ ~(r.options.entropy /\ r.options.extract) /\ r.input \in Inputs
                     /\ IsFiniteSet(r.left) /\ r.left \subseteq Seq(Nat)
                     /\ r.earlier \in Seq(Seq(Int))

ASSUME GraphAssumption ==
  /\ Target \in Nat \ {0} /\ Levels \subseteq 0 .. 8
  /\ Width \in Nat /\ Height \in Nat

ASSUME ChrootAssumption ==
  /\ RawPaths \subseteq Seq(RawNames \cup {".", ".."})
  /\ LinkTargets \subseteq [absolute : BOOLEAN, path : Seq(RawNames \cup {".", ".."})]
  /\ Sanitized \in [RawNames -> STRING \ {"/"}] /\ MaxWrites \in Nat

VARIABLES
  start, blocks, lines, pen, plotting,   \* see Entropy
  entries, told,   \* see Chroot: the files in an extraction's directory, and the last answer
  options,
  stage,         \* where main is
  disk,          \* the files there are under the extraction directory
  nested,        \* history: of the files of one extraction, one was called as a
                 \* directory of another will be (see Nests)
  remade,        \* history: the files brought out again after they were queued
  pending,       \* the deque of paths
  seen,          \* the keys of the paths ever queued
  batch,         \* the workers launched and not yet collected, in launch order
  current,       \* the analysis main is about to process
  counted,       \* history: the analyses processed, file_count of them
  unread,        \* history: the paths no worker could read
  listed,        \* history: the files extractions brought out, when they were listed
  uncarved,      \* history: the files some part of which was not written
  carveFailed, logFailed, log,
  exit           \* the status, or Running

Graph == INSTANCE Entropy
Root == INSTANCE Chroot WITH fs <- entries, answer <- told

output == <<log, logFailed>>
tree == <<disk, nested, remade>>
queue == <<pending, seen, batch, unread, listed>>
graph == <<start, blocks, lines, pen, plotting>>
root == <<entries, told>>
vars == <<carvingVars, graph, root, options, stage, tree, queue, current, counted, uncarved,
          carveFailed, output, exit>>

Running == -1
MainFile == << 1 >>
Opening == << -1 >>    \* the log's "[", "," and "]"; a record is the path it is about
Comma == << -2 >>
Closing == << -3 >>

Analysis(path, found, recurse) == [path |-> path, found |-> found, recurse |-> recurse]

Init ==
  /\ CarvingInit /\ Graph!EntropyInit /\ Root!Init
  /\ \E r \in Runs :
       /\ r.input = [size |-> size, map |-> map] /\ options = r.options /\ disk = r.left
       /\ log = [started |-> FALSE, closed |-> FALSE, stream |-> "closed", text |-> r.earlier,
                 earlier |-> r.earlier]
  /\ stage = "open" /\ nested = FALSE /\ remade = {}
  /\ pending = << >> /\ batch = << >>
  /\ seen = IF options.stdin THEN {} ELSE {MainFile}
  /\ current = Analysis(MainFile, FALSE, {})
  /\ counted = << >> /\ unread = {} /\ listed = {} /\ uncarved = {}
  /\ carveFailed = FALSE /\ logFailed = FALSE
  /\ exit = Running

-----------------------------------------------------------------------------
(* json_logger: every operator gives the outcomes it can have.             *)

Outcome(l, ok) == [log |-> l, ok |-> ok]

\* What is written goes behind what the file has, also what an earlier run wrote.
\* A stream that failed once fails for good; one that could not be opened is
\* tried again.
Write(l, token) ==
  IF l.stream = "bad" THEN {Outcome(l, FALSE)}
  ELSE {Outcome([l EXCEPT !.stream = "open", !.text = Append(@, token)], TRUE),
        Outcome([l EXCEPT !.stream = "bad"], FALSE)}
       \cup (IF l.stream = "closed" THEN {Outcome(l, FALSE)} ELSE {})

\* Fault: a record whose separator could not be written does not count as one.
LogRecordLoosely(l, record) ==
  IF ~options.log THEN {Outcome(l, TRUE)}
  ELSE UNION {Write([o.log EXCEPT !.started = TRUE], record) :
                o \in Write(l, IF l.started THEN Comma ELSE Opening)}

\* log: the separator, then the record.
LogRecord(l, record) ==
  IF ~options.log THEN {Outcome(l, TRUE)}
  ELSE UNION {IF o.ok THEN Write(o.log, record) ELSE {o} :
                o \in Write([l EXCEPT !.started = TRUE],
                            IF l.started THEN Comma ELSE Opening)}

CloseLog(l) ==
  IF ~options.log \/ ~l.started \/ l.closed THEN {Outcome(l, TRUE)}
  ELSE Write([l EXCEPT !.closed = TRUE], Closing)

LogsTo(outcomes) ==
  \E o \in outcomes : log' = o.log /\ logFailed' = (logFailed \/ ~o.ok)

-----------------------------------------------------------------------------
(* The file to analyse, and the entropy branch.                            *)

OpenMain ==
  /\ stage = "open"
  /\ \/ /\ ~options.stdin
        /\ exit' = 1 /\ stage' = "exited"
     \/ /\ stage' = IF options.entropy THEN "entropy" ELSE "analyse"
        /\ exit' = exit
  /\ UNCHANGED <<carvingVars, graph, root, options, tree, queue, current, counted, uncarved,
                 carveFailed, output>>

PlotEntropy ==
  /\ stage = "entropy" /\ (options.png \/ plotting = "blocks") /\ Graph!PlotStep
  /\ plotting' = "lines" => options.png
  /\ UNCHANGED <<carvingVars, root, options, stage, tree, queue, current, counted, uncarved,
                 carveFailed, output, exit>>

\* The PNG was asked for and cannot be drawn or written.
PlotFails ==
  /\ stage = "entropy" /\ options.png
  /\ plotting = "drawn" \/ (Graph!BlocksDone /\ ~Graph!CanPlot)
  /\ exit' = 1 /\ stage' = "exited"
  /\ UNCHANGED <<carvingVars, graph, root, options, tree, queue, current, counted, uncarved,
                 carveFailed, output>>

LogEntropy ==
  /\ stage = "entropy" /\ IF options.png THEN plotting = "drawn" ELSE Graph!BlocksDone
  /\ LogsTo(LogRecord(log, MainFile))
  /\ counted' = << MainFile >>
  /\ stage' = "close"
  /\ UNCHANGED <<carvingVars, graph, root, options, tree, queue, current, uncarved, carveFailed, exit>>

-----------------------------------------------------------------------------
(* scanner::analyze.  The directories of the results that are extracted    *)
(* are made anew, whatever was there; the files they end up with are any.  *)

\* A name with ".extracted" behind it comes next.
Dotted(name) == name + 1

\* Fault: the directory is named after the file alone, wherever the file is.
ExtractionBaseByName(f) == << Dotted(f[Len(f)]) >>

\* The directories of a file's results are in one beside the file.
ExtractionBase(f) == [f EXCEPT ![Len(f)] = Dotted(@)]

OutputDirectory(f, offset) == Append(ExtractionBase(f), offset)

Under(f, offset) == {g \in disk : IsPrefix(OutputDirectory(f, offset), g)}

\* A file is where the directory must be.
Blocked(f) == \E g \in disk : IsPrefix(g, ExtractionBase(f))

Scanned(f, found) == [analysis |-> Analysis(f, found, {}), disk |-> disk, made |-> {}]

Extracted(f, e) ==
  LET made == {ExtractionBase(f) \o p : p \in e.made}
      succeeded == {Head(p) : p \in e.made}
  IN [analysis |-> Analysis(f, TRUE, succeeded \cap e.followed),
      disk |-> (disk \ UNION {Under(f, o) : o \in succeeded \cup e.failed}) \cup made,
      made |-> made]

\* What an analysis may report, and the files there are then.
Outcomes(f, found) ==
  {Scanned(f, found)}
  \cup IF ~options.extract \/ ~found \/ Len(f) >= MaxDepth \/ Blocked(f) THEN {}
       ELSE {Extracted(f, e) : e \in Extractions}

\* The second is in a directory beside the first that is called like the first, with
\* ".extracted" behind it.
Nests(g, h) ==
  /\ Len(g) < Len(h) /\ h[Len(g)] = Dotted(g[Len(g)])
  /\ \A k \in 1 .. Len(g) - 1 : g[k] = h[k]

LeavesFiles(outcome) ==
  /\ disk' = outcome.disk
  /\ nested' = (nested \/ \E g, h \in outcome.made : Nests(g, h))
  /\ remade' = remade \cup (outcome.made \cap seen)

\* A built-in extractor at work in its directory.
ExtractorWrites ==
  /\ stage = "analyse" /\ options.extract
  /\ \E i \in DOMAIN map : map[i].name \in BuiltIn
  /\ Root!Next
  /\ UNCHANGED <<carvingVars, graph, options, stage, tree, queue, current, counted, uncarved,
                 carveFailed, output, exit>>

\* The extractors are done; which files there are is known by name from here on.
AnalyseMain ==
  /\ stage = "analyse"
  /\ \E o \in Outcomes(MainFile, map # << >>) : current' = o.analysis /\ LeavesFiles(o)
  /\ stage' = IF options.carve THEN "carve" ELSE "process"
  /\ entries' = << >> /\ told' = [operation |-> "none", at |-> << >>, ok |-> FALSE]
  /\ UNCHANGED <<carvingVars, graph, options, queue, counted, uncarved, carveFailed, output, exit>>

CarveMain ==
  /\ stage = "carve" /\ CarveStep
  /\ UNCHANGED <<graph, root, options, stage, tree, queue, current, counted, uncarved, carveFailed,
                 output, exit>>

PartMissing == \E i \in DOMAIN parts : ~parts[i].success

MainCarved ==
  /\ stage = "carve" /\ carving = "end"
  /\ carveFailed' = (carveFailed \/ PartMissing)
  /\ uncarved' = IF PartMissing THEN uncarved \cup {MainFile} ELSE uncarved
  /\ stage' = "process"
  /\ parts' = << >> /\ lastKnown' = 0
  /\ UNCHANGED <<size, map, carving, graph, root, options, tree, queue, current, counted, output, exit>>

-----------------------------------------------------------------------------
(* process_result, with extracted_files and enqueue_extractions.           *)

Before(p, q) ==
  \E k \in 1 .. Len(q) : /\ \A j \in 1 .. k - 1 : j <= Len(p) /\ p[j] = q[j]
                         /\ k > Len(p) \/ p[k] < q[k]

\* These paths, sorted.
Sorted(paths) ==
  {s \in [1 .. Cardinality(paths) -> paths] :
     ToSet(s) = paths /\ \A i, j \in DOMAIN s : i < j => Before(s[i], s[j])}

\* Recursing into a directory finds the files of nested extractions as well.
ExtractedFiles(analysis) == UNION {Under(analysis.path, o) : o \in analysis.recurse}

ProcessResult(analysis) ==
  LET brought == IF options.matryoshka THEN ExtractedFiles(analysis) ELSE {}
      fresh == IF analysis.found THEN brought \ seen ELSE {}
  IN /\ counted' = Append(counted, analysis.path)
     /\ LogsTo(LogRecord(log, analysis.path))
     /\ \E files \in Sorted(fresh) : pending' = pending \o files
     /\ seen' = seen \cup fresh
     /\ listed' = listed \cup brought

ProcessMain ==
  /\ stage = "process"
  /\ ProcessResult(current)
  /\ stage' = "queue"
  /\ UNCHANGED <<carvingVars, graph, root, options, tree, batch, current, unread, uncarved,
                 carveFailed, exit>>

-----------------------------------------------------------------------------
(* The batches.                                                            *)

Smaller(a, b) == IF a < b THEN a ELSE b

\* Fault: what does not fit the batch is dropped with the queue.
LaunchDroppingRest ==
  /\ stage = "queue" /\ batch = << >> /\ pending # << >>
  /\ LET n == Smaller(Workers, Len(pending))
     IN /\ batch' = [i \in 1 .. n |-> [path |-> pending[i], at |-> "open", carved |-> TRUE,
                                       analysis |-> Analysis(pending[i], FALSE, {})]]
        /\ pending' = << >>
  /\ UNCHANGED <<carvingVars, graph, root, options, stage, tree, seen, unread, listed, current, counted,
                 uncarved, carveFailed, output, exit>>

Launch ==
  /\ stage = "queue" /\ batch = << >> /\ pending # << >>
  /\ LET n == Smaller(Workers, Len(pending))
     IN /\ batch' = [i \in 1 .. n |-> [path |-> pending[i], at |-> "open", carved |-> TRUE,
                                       analysis |-> Analysis(pending[i], FALSE, {})]]
        /\ pending' = SubSeq(pending, n + 1, Len(pending))
  /\ UNCHANGED <<carvingVars, graph, root, options, stage, tree, seen, unread, listed, current, counted,
                 uncarved, carveFailed, output, exit>>

\* analyze_file, first half: mapped_file::open maps the file, or reads it
\* whole, or neither.
WorkerOpens(i) ==
  /\ batch[i].at = "open"
  /\ \E at \in {"failed"} \cup (IF batch[i].path \in disk THEN {"analyse"} ELSE {}) :
       batch' = [batch EXCEPT ![i].at = at]
  /\ UNCHANGED <<carvingVars, graph, root, options, stage, tree, pending, seen, unread, listed, current,
                 counted, uncarved, carveFailed, output, exit>>

Analysed(worker, analysis, carved) ==
  [worker EXCEPT !.at = "done", !.analysis = analysis, !.carved = carved]

\* Second half: the scan, the extraction and the carving.
WorkerAnalyses(i) ==
  /\ batch[i].at = "analyse"
  /\ \E found, carved \in BOOLEAN :
       /\ carved \/ (options.carve /\ found)
       /\ \E o \in Outcomes(batch[i].path, found) :
            /\ LeavesFiles(o)
            /\ batch' = [batch EXCEPT ![i] = Analysed(@, o.analysis, carved)]
  /\ UNCHANGED <<carvingVars, graph, root, options, stage, pending, seen, unread, listed, current,
                 counted, uncarved, carveFailed, output, exit>>

\* Fault: a worker that failed is collected again and again.
CollectUnreadKeeping ==
  /\ stage = "queue" /\ batch # << >> /\ Head(batch).at = "failed"
  /\ unread' = unread \cup {Head(batch).path}
  /\ UNCHANGED <<carvingVars, graph, root, options, stage, tree, batch, pending, seen, listed, current,
                 counted, uncarved, carveFailed, output, exit>>

\* main collects the workers in the order it launched them.
CollectUnread ==
  /\ stage = "queue" /\ batch # << >> /\ Head(batch).at = "failed"
  /\ unread' = unread \cup {Head(batch).path}
  /\ batch' = Tail(batch)
  /\ UNCHANGED <<carvingVars, graph, root, options, stage, tree, pending, seen, listed, current,
                 counted, uncarved, carveFailed, output, exit>>

Collect ==
  /\ stage = "queue" /\ batch # << >> /\ Head(batch).at = "done"
  /\ carveFailed' = (carveFailed \/ ~Head(batch).carved)
  /\ uncarved' = IF Head(batch).carved THEN uncarved ELSE uncarved \cup {Head(batch).path}
  /\ ProcessResult(Head(batch).analysis)
  /\ batch' = Tail(batch)
  /\ UNCHANGED <<carvingVars, graph, root, options, stage, tree, unread, current, exit>>

QueueEmpty ==
  /\ stage = "queue" /\ batch = << >> /\ pending = << >>
  /\ stage' = "close"
  /\ UNCHANGED <<carvingVars, graph, root, options, tree, queue, current, counted, uncarved,
                 carveFailed, output, exit>>

Close ==
  /\ stage = "close"
  /\ LogsTo(CloseLog(log))
  /\ exit' = IF carveFailed \/ logFailed' THEN 1 ELSE 0
  /\ stage' = "exited"
  /\ UNCHANGED <<carvingVars, graph, root, options, tree, queue, current, counted, uncarved, carveFailed>>

Exited == stage = "exited" /\ UNCHANGED vars

Step == \/ OpenMain \/ PlotEntropy \/ PlotFails \/ LogEntropy
        \/ AnalyseMain \/ CarveMain \/ MainCarved \/ ProcessMain \/ Launch
        \/ \E i \in DOMAIN batch : WorkerOpens(i) \/ WorkerAnalyses(i)
        \/ CollectUnread \/ Collect \/ QueueEmpty \/ Close

Next == Step \/ ExtractorWrites \/ Exited

\* main and the workers it launched keep running; extractors end.
Spec == Init /\ [][Next]_vars /\ WF_vars(Step)

-----------------------------------------------------------------------------
(* Properties.                                                             *)

\* No file is analysed twice.  Between the moment a file is queued and the end of
\* its analysis no other analysis, of the same batch or another, removes it,
\* whatever earlier runs left in the directory, unless one extraction brought out
\* a file and, in the directory of that file's own extraction, another: then the
\* first one's extraction may empty the directory the second one waits in.
QueuedFilesStay ==
  /\ IsInjective(counted)
  /\ \/ nested
     \/ /\ ToSet(pending) \subseteq disk
        /\ \A i \in DOMAIN batch : batch[i].at \in {"open", "analyse"} => batch[i].path \in disk

\* The log of these records, as json_logger lays it out: a separator, a record,
\* and so on.
ArrayOf(records) ==
  [k \in 1 .. 2 * Len(records) |->
     IF k = 1 THEN Opening ELSE IF k % 2 = 1 THEN Comma ELSE records[k \div 2]] \o << Closing >>

\* Status 0 says that what this run wrote to the log, if one was asked for, is one
\* closed array of all analyses in the order they were processed, behind what the
\* file had; that no part to carve was refused by the disk; and that every path an
\* extraction brought out was analysed, or reported as one that cannot be read.
\* None was brought out again after it was queued, unless files nested as above:
\* the later file of that path is not analysed then.
StatusZeroIsTrue ==
  exit = 0 =>
    /\ options.log => log.text = log.earlier \o ArrayOf(counted)
    /\ uncarved = {}
    /\ listed \subseteq ToSet(counted) \cup unread
    /\ nested \/ remade = {}

\* The loop of line ends only when both coordinates meet the line's end in the
\* same turn: the pen never passes either, and never leaves the image.
PenStaysOnLine == Graph!PenStaysOnLine

\* However links, directories and removals follow each other, a link never
\* leads out of the directory of its extraction, directly or through others.
LinksStayInside == Root!LinksStayInside

\* What an operation of chroot says it did is there to be found by its own
\* path: a file with its bytes, a directory, a link or what stands in for it,
\* or nothing.
ChrootTellsTruth == Root!AnswerIsTrue

\* An operation of chroot makes, changes or removes no entry but the one its
\* path names and those above it: nothing is written through a link an earlier
\* entry made.  A file that is there is never emptied or replaced, only removed
\* on request.
OnlyNamedChanges == [][stage' # "analyse" \/ Root!OnlyNamedChange]_vars

\* A run ends, once extractions bring out no deeper files: main collects each
\* worker, whatever it met, and each line of the graph is drawn to its end.
RunEnds == <>(exit # Running)
=============================================================================
