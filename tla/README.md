# A TLA+ model of binwalk-cpp

binwalk-cpp looks for known file formats inside a block of bytes, reports where
each one starts, how long it is and how certain that is, and can extract what it
found and look again inside. The modules here model two kinds of its parts. The
first are those whose correctness rests on order: threads that share state, results
that are sorted and filtered after they were found out of order, handles that share
an object, memoised answers, a queue of files fed by its own workers. The second are
those that do what a file tells them: the parsers of all 111 signatures, which add
and multiply what they read, and the writing of files under names an archive chose.
TLC checks the models on small instances, and TLAPS proves the properties that
matter most for every value of the constants.

Paths below are those of the repository.

## 1. The system

### Components

| component | code | state | operations |
|---|---|---|---|
| task pool | `lib/src/detail/task_pool.{hpp,cpp}` | threads, a mutex, two condition variables, an atomic counter, the batch | constructor, `run`, destructor, the helpers' loop |
| literal matcher | `lib/src/detail/literal_matcher.{hpp,cpp}` | immutable transition table; per search: pending matches | `build_automaton`, `find`, `walk_windows_across_pool`, `walk_windows_on_this_thread`, `walk_without_interleaving`, `release_matches_ending_at_or_before` |
| scanner | `lib/src/scanner.cpp`, `include/binwalk/scanner.hpp` | signatures, patterns, matcher; an implementation counted by its copies; task pool and its lease | construct, copy, assign, destroy, `scan`, `extract`, `analyze` |
| extractors | `lib/src/extractor.cpp`, `lib/src/builtin_extractors.cpp`, `lib/src/process.cpp` | the directory of an extraction, a child process | `execute_extractor`, external command with a timeout, built-in recipes |
| confined output | `lib/src/chroot.cpp` | directory tree below a root | create files, links, devices, directories; resolve paths |
| codecs | `lib/src/codec/*.cpp` | input cursor, the library's stream, window of history, sink | `codec_decompress`, `codec_decompress_to_buffer` |
| common | `lib/src/common.cpp` | thread-local memo of `cstring_length`; none otherwise | checksums, checked arithmetic, strings, byte readers |
| entropy | `lib/src/entropy.cpp` | none | `entropy_blocks`, `write_entropy_png` |
| carving | `lib/src/carving.cpp` | none | `carve_file_map`: known and unknown parts of a file written out |
| formats | `lib/src/formats/b*.cpp` (about 14 000 lines) | none | one parser for each signature: bytes and offset to a result or nothing |
| command line | `cli/src/main.cpp`, `cli/src/mapped_file.hpp` | queue of files, set of seen paths, log file, exit status | the recursive ("Matryoshka") run, JSON log, memory mapping |
| topology | `lib/src/detail/cpu_topology.cpp` | cached count | number of useful threads |

How they interact. `main` maps a file, constructs one `scanner`, and hands
copies of it to `std::async` tasks, one per file of a batch. `analyze` is `scan`
followed by `extract`. `scan` borrows the implementation's task pool if nobody
has it (`try_lock`), asks the matcher for every literal, and the matcher runs its
lanes on the pool and calls a visitor back, in order; the visitor calls the
format's parser, which reads the data (and through `cstring_length`, the memo a
`cstring_length_memo` owns). `extract` calls a built-in recipe or an external process
under a directory of its own; files written there go back into the queue of
`main`.

### What is hard, and what makes each part correct

* **task pool**: a helper that wakes late must not run a body that is gone, take
  an index of the next batch, or be missed by the caller's wait; `run` must return,
  and the destructor too. Promised: after `run` nobody calls the body any more;
  every index is called once unless something threw; one exception comes back.
* **literal matcher**: it walks slices of one text side by side, in windows,
  rounds of windows, and lanes on several threads, with matches that straddle all
  of them. Promised: each match once, in order of end, then of length, then of
  pattern, stopping when the visitor says so, whatever way the text was cut.
* **automaton**: states numbered in place, rows completed from one another.
* **scan**: results arrive in the order of their magic, are sorted by where they
  start (which may be before the magic), ranked where they share an offset, and
  filtered where a confident one claimed the bytes. Promised by `README.md:17-18`:
  overlapping results are filtered.
* **scanner handles**: copies count references by hand with atomics.
* **cstring memo**: answers from memory verified by earlier calls; memory may be
  reused once the scope ended. Promised: same answers as without it, linear work.
* **extraction**: a directory is emptied before anyone knows the new attempt is
  better; a timed-out command is retried; a child may exit while it is being killed.
* **codecs**: a bounded window stands for an unbounded output; the loops around
  the libraries tell a stream that was cut off from a bad one and from one that
  makes no progress. Promised: what is left is the output, or nothing.
* **carving**: results may nest, be empty or lie outside the file. Promised: every
  byte is in some part, and an unknown part overlaps nothing.
* **entropy**: offsets and sizes become pixels by scaling and rounding, and a line
  is drawn by a loop that must meet its end exactly.
* **chroot**: an archive makes files, links and directories in any order, over and
  through each other. Promised: everything stays below the root, and what an
  operation returned is true.
* **format parsers**: sums of fields read from the file, which may wrap around; walks
  along entries that point at each other. Promised: what is claimed and read lies in the
  data, and every walk ends.
* **command line**: several files at once write into one tree, while others wait in
  the queue; an archive may name a file like the directory another file's extraction
  will empty; a failed write to the log, and a log that is there already. Promised, but
  for such names (section 6): no queued file is lost, and exit status 0 means that
  nothing went missing.

`PROJECT.json` lists each hazard at its line, with the properties that would
catch it.

## 2. The modules

### TaskPool, ParallelFor, TaskPoolProofs

`TaskPool` is `task_pool.cpp`: one caller, a set of helpers. A step is what one
thread does without giving another the chance to act: one critical section of
`state->mutex` (`Post`, `Look`, `SignOff`, ...), one `fetch_add` (`Claim`), one
comparison with `count` (`Compare`), one call of the body (`BodyReturns`,
`BodyThrows`), one notification outside the mutex (`Announce` and the others).
`pc[t]` is where a thread is. A wait on a condition variable is two places,
`waiting` (about to evaluate the predicate) and `asleep`; a notification moves
every sleeper to `waiting`, and a spurious wake-up may do so at any time.
`body` is the number of the batch whose function it points at, so that a function
called for the wrong batch can be told from the right one.

A `run` with no index, and a pool without helpers (both lines
`task_pool.cpp:104-109`), run inline on the caller: they are left out because
`lend_workers` makes only pools with helpers and the matcher asks `width() > 1`
before it runs lanes.

`ParallelFor` is what the pool promises, without threads: a batch starts, calls
of it begin and end, in any order, at most once for each index, and it returns
only with all calls over, either with all of them made or with an exception
one of them threw. `TaskPool!ImplementsParallelFor` is the refinement.

### MatchReport, LiteralMatcher, LiteralAutomaton, LiteralSearch, LiteralSearchProofs

`LiteralMatcher` is `find` (`literal_matcher.cpp`): `Enter` is the choice of the
path, `BeginRound`, `WalkLane`, `JoinRound` a round on the pool,
`WalkWindow` a window of `Walks` slices walked side by side in one thread, with
the wide and the narrow slice, `WalkTail` the rest, and `Deliver`/`EndRelease`
the sorted release of all matches that no later part can precede. Lanes of a
round finish in any order. Which bytes of a slice, with its look-ahead, yield
which matches is a set (`SliceMatches`); that walking bytes one by one through
the table gives this set is what `LiteralAutomaton` is about. `reach` records how
far a walk read.

`MatchReport` is what `find` promises: all occurrences, one at a time, in order,
until the visitor stops. `ImplementsMatchReport` is the refinement; the place of
each match in the order is decided by `MatchReport`, never by how the text is cut.

`LiteralAutomaton` is the constructor and `walk_without_interleaving` over a text.
`InsertByte` and `EndPattern` build the trie, a byte at a time; `CompleteNode` takes a node
from the queue, completes its row in place and hands failure and outputs to its children;
`NumberStates` numbers the reporting states last and fills the table by the new numbers;
`LayOutNode` fills the flat tables of what each reporting state reports, a node at a time. `ReportsExactly`
compares every walk with the literals that end at each place.

`LiteralSearch` is a matcher from its constructor to the return of `find`. The
two halves meet in one fact: what a walk over the table reports is what the search
takes a walk to see. The first is checked for every short list of literals, and the
search for one list whose matches straddle every cut; a product of both would only
repeat each for every choice of the other, so a behaviour has one of them at length
and the other in its least form.

### ScannerScan, ScannerScanProofs

`ScannerScan` is `scanner.cpp` `scan` from the short signatures at offset 0 to
the sizes filled in at the end. A parser is external to it: it answers nothing, or
any result a parser can make (`Parsed`): an offset at or before the magic, a size,
a confidence. The matcher delivers in its order (`ReportedBefore`). `ShortMiss`,
`ShortHit`, `VisitMiss`, `VisitHit` are the branches of the
two loops, `Rank`, `DropOverlapped`, `Accept` those of the filter loop, in the code's order of tests, `FillSize` and `EndFill` the last loop.
`BackOffsets` bounds how far before its magic a result starts: parsers such as
those of `b8b_volumes.cpp:116-186` (ext) and `b10b_executables.cpp:412-460`
(UEFI volume) have magics inside their headers, so 0 alone would be wrong.

### SharedScanner, SharedScannerProofs

The handles of `scanner.cpp`: construct (222-247), copy with `retain`
(260-262, 290-293), assignment (295-302), destructor and `release`
(264-268, 304-306), and of `scan` the lease of the task pool (249-258, 337-340).
Every atomic operation is a step: a copy reads the pointer, then counts; an
assignment counts the new one, then gives back the old one, perhaps deletes it,
then stores. An implementation's storage may be reused after `delete`. The
guards `Readable`, `Unused` are what C++ asks of every class: no thread writes a
scanner object another thread is using. Nothing is assumed of different scanner
objects that share one implementation. `try_lock` may fail though nobody holds it.
`memory_order` is not modelled: the atomics are sequentially consistent.

### CStringMemo (proofs in FormatsProofs)

`cstring_length` and the scopes `cstring_length_memo` opens (`common.cpp`, with
`lib/src/detail/cstring_length_memo.hpp`).
`Enter` and `Leave` are the constructor and destructor of the scope, nested as far
as `MaxDepth`. `CstringLength` has the code's branches: `ReadOutside` (no scope
over the bytes), `AnswerFromRun`, `ExtendRun`, `StartRun`. `Rewrite` is the world
changing bytes no open scope covers. `seen` records which bytes were read since the
scope was entered. The memo is thread-local, so one thread is the whole model.

### DecodedOutput, WindowWriter

`WindowWriter` is `codec_detail::window_writer` on an `output_sink`
(`codec.cpp`), with what `codec_decompress` and `codec_decompress_to_buffer` do
when the decoder is back. `AppendLiterals` and `CopyMatch` are the checks at the
top of `append` and `copy_match`; `ReserveRoom`, `DrainToHistory`, `DrainFails`
the three ways through `reserve_room`; `Insert` a byte of a chunk; `FlushAndReturn`,
`FlushFails`, `ReturnFailure` the ends of a decoder; `Keep`, `FinishFails`,
`DiscardFailure` what becomes of the file or the vector. The three sinks are one
module, as `medium` is all they differ in. The decoder is any client that stops
at the first refusal, as `decode_lz4_block_sequence` and `decompress_lzo` do.
Removing the file of a failed run is taken to succeed (the code does not ask).

`DecodedOutput` is the same decoder with the whole output in memory: a match
repeats the byte `distance` back from the end of everything. `ImplementsDecodedOutput`
is the refinement, with `stream` mapped to what was written and what is in the
window.

### StreamCodec, CodecCall, CodecCallProofs

`StreamCodec` is the loops around zlib, bzip2, liblzma, lz4 frames and zstd. The
libraries are external: a stream is a function `told` from the input taken to the
output that is determined by it, and where it ends or stops making sense. `Decode`
is any answer such a library can give; `Stall` is one that gets no further. `Feed`
and `FeedAll` are the top of the loops, `SinkRefuses` and `SinkTakes` what they do
with the answer, in their order, which differs between the codecs.

`CodecCall` is one call of `codec_decompress`, which dispatches on the codec: to a
decoder that writes through a window, or to one of these loops.

### Extraction, ExtractionProofs, Process

`Extraction` is `scanner::extract` and `execute_extractor`, one result of the file
map after the other. `Skip` and `Choose` are the top of the loop, `Record` and
`Widen` its end, with the second attempt; `Refuse`, `CannotCreate` and `Prepare` the
directory made for an attempt; `NotCarved`, `Carve` and `Finish` what
`run_external_extractor` does before and after the process; `Judge` the question
whether there is output, and the removal after a failure. A directory is the set
of the kinds of files in it, seen from the attempt at hand: `own`, `old` (of an
earlier attempt or an earlier run), `hollow` (no byte), the carved `input`, and what an
`orphan` wrote, a process that outlived the utility that started it. `stubborn`
directories hold something `remove_all` cannot remove, or
`contains_nonempty_output` cannot read: an archive may well contain such a thing.
In such a directory `Finish` may leave the carved input where it is, as nobody asks
whether it was removed (`extractor.cpp:148-149`); it then passes for output (237), and
`SuccessHasOutput` says that it does so nowhere else.

`Process` is `run_process` of POSIX, and `Extraction` has an instance of it: each
system call is a step, and the child, the kernel and the clock move in between.
SIGCHLD may be ignored, as a process inherits that; the child then leaves no zombie
and its exit is not told. The wait without a timeout (559-570) is left out, as
nobody in the library asks for it.

### Carving

`Carving` is `carve_file_map`: the loop over the results of one file, each with the
gap before it (`CarveSignature`), the results outside the data (`CarveInvalid`) and the
rest after the last one (`CarveRest`). `lastKnown` is `last_known_offset`, `parts` what
was returned, each part with whether the disk took it. `CarveNothing` is the return
without parts, for an empty map, empty data or a directory that cannot be made:
`main` has no part to find missing then, and exits with 0, as
`carving.cpp:104-107` makes it.

### Entropy

`entropy_blocks` block by block (`NextBlock`), the axes and the two ends of each line
from the code's rounded coordinates, and the drawing of a line pixel by pixel
(`BeginLine`, `MovePen`, `EndLine`), whose loop ends only when both coordinates meet
the end of the line in the same turn. The level of a block is any, in eighths.

### Chroot

`chroot.cpp`. `fs` maps the paths below the root to files, directories and links.
`SanitizeComponent`, `RelativeComponents`, `TraversesAboveRoot` are the handling of
names; `NeutralizeLinks`, `Prepare` and `PrepareParent` what every operation does to the
directories above its entry; then one action for each operation. Every operation may fail at
each call it makes, so what an operation shares with others is the set of outcomes it
can have (`MadeIn`, `WriteBytes`, `RemovedIn` and so on), each with the tree it leaves.

The walk of the operating system is not part of the code: `Positions` are the directory
the system is in, the names still before it and how many links it will still follow,
`Advance` takes one name, `Follow` says where the walk ends, and so where an operation
really writes (`Arrives`, `Place`). A walk that meets a name that is not there ends at
`Missing`, one that a link takes above the root at `Outside`; neither is a path, as no
name is "/". `answer` keeps what was asked, where it led and what was returned.
What links lead to is judged by the links' own text in the code, and by following them
in `LinksStayInside`.

### CommandLine, CommandLineProofs

One run of `main` after its options are parsed. `stage` is where `main` is: the entropy
branch (`PlotEntropy`, with `Entropy`), or the analysis of the first file (with `Chroot` as
its built-in extractor, `ExtractorWrites`), carving (with `Carving`), the first report, and
the queue. `disk` is the set of files under the extraction directory, `pending` the deque,
`seen` the keys of paths, `batch` the futures in the order they were launched. A worker opens
its file (`WorkerOpens`), then analyses it (`WorkerAnalyses`); `Collect` and
`CollectUnread` take them in order.

A path is the sequence of its names below the extraction directory. A name is a number, and
`Dotted`, its successor, is that name with ".extracted" behind it; so the first file is `<<1>>`,
and the result at offset 3 of a file `<<1>>` is extracted into `<<2, 3>>`, as
`extractor.cpp:208-213` names it (`ExtractionBase`, `OutputDirectory`). `Extractions` are the
outcomes an extraction may have: the files brought out, at any depth and under any names, those
that end in ".extracted" among them, and the offsets whose extraction failed. Each offset tried
loses what was under its directory first (`Under`, 215); a file where the base must be lets
nothing be extracted (`Blocked`, 217). `extracted_files` lists everything under a directory,
files of nested extractions too. Two history variables remember what the properties
except: `nested`, that one extraction brought out a file and, in the directory of that file's
own extraction, another (`Nests`); and `remade`, the paths brought out again after they were
queued.

`json_logger` is a stream that fails for good once it failed, and may fail at every write of a
separator or a record; `log.text` is what a reader of the file finds, `log.earlier` what was
there before, as the file is appended to (`main.cpp:318`). `Runs` says what is run on what: the
options, the first file and its map, what earlier runs left in the directory and in the log.

### Parsing, Formats, FormatsProofs and the families of parsers

`Parsing` is what all parsers share: the data's size, the offset asked for, checked
reads, the arithmetic of `common.cpp` on numbers of a width, and the result. A field of
the data holds any value of its width: parsers take it from `U8`, `U16`, `U32`, `U64`,
with 0, 1, values around the sizes of the data, and the largest the width has.
`W32` and `W64` stand for 2^32 and 2^64 (131 072 and 268 435 456, which TLC's integers
can multiply), so a sum that wraps around wraps here too. A checksum agrees or not, and a
search finds something at any of a few positions or nowhere (`Positions`: where it begins, a
little later, at the end of the data or just before; for a DMG, whose list is searched in all of
the data, also behind the footer). `walk` is the loop over
entries under way, `answer` what the parser returned: the claimed range, how far it read
without a check of its own, the size, and `total`, the sum or product it was computed
as, before anything wrapped.

| module | code |
|---|---|
| `Compression` | `b1_compression.cpp`, the gzip and zlib headers of `builtin_extractors.cpp` |
| `Media` | `b2_media.cpp` |
| `Constants` | `b3_constants.cpp` |
| `Encrypted` | `b4_encrypted.cpp` |
| `VendorHeaders`, `VendorCarve` | `b5_vendorhdr.cpp`, `b6_vendorcarve.cpp` with its extractors |
| `Archives` | `b7_archives.cpp`, `zip_structures.hpp` |
| `Filesystems` | `b8a_filesystems.cpp`, `b8b_volumes.cpp`, their built-in extractors |
| `FlashFilesystems` | `b9a_squashfs.cpp`, `b9b_jffs2_yaffs.cpp`, `b9c_ubi.cpp` |
| `Executables` | `b10a_kernels.cpp`, `b10b_executables.cpp` |

A parser without a loop is one action named after its format; one with a walk is an
action that begins it and one for each kind of entry. `Formats` is all of them, and has
their properties. `Unchecked` names the formats whose result is the header's size as it
stands, and which rely on `scanner.cpp` to drop a result that ends outside of the data; and
the answer of the Matter extractor for a payload that passes the data
(`b7_archives.cpp:1096-1109`: success, with nothing carved, which `execute_extractor` takes
back for want of output).

Reading the parsers side by side brought out differences that no property here forbids,
and that a maintainer may want to know:

* the fourth partition of a TRX header is not compared with the total size by its parser;
  its extractor refuses the sum that wraps (`b6_vendorcarve.cpp:252`);
* an MBR's partitions are extracted from the sectors of its table, and an MBR that was found
  inside a file declines where such a sector equals its own offset in the file
  (`b8b_volumes.cpp:316-320`);
* SquashFS compares the place of a table in the file, not in the image, with the size
  of its header (`b9a_squashfs.cpp:338-347`);
* the end of the last JFFS2 node and the total of a UBI image are not compared with
  the data by the parser; the dry run of `android_sparse` does not ask whether a chunk's data
  is there. The scanner's range check is what catches them.

## 3. The runs

| run | question | instance |
|---|---|---|
| `task_pool` | does the pool implement `ParallelFor`; is a straggler possible; does a batch change under a reader; do `run` and the destructor return | 2 helpers, 2 batches, up to 3 indices |
| `literal_search` | does the table report exactly the literals; is every match delivered once, in order, without reading past the end, and does `find` return | all lists of up to 3 literals over 2 bytes, the first of up to 3 bytes and the others of up to 2, all texts of up to 4; 2 walks, slices of 3 and 2, 2 lanes of up to 2 windows, 4 patterns, texts of 0 to 48 bytes with up to 2 marks |
| `scan` | order, ranking, filtering, sizes; what ends the search before its last match | 4 bytes, 3 matches, a short signature with 2 patterns, results up to a byte before their magic |
| `scan_early` | is every match looked at | violated, see 6 |
| `scan_overlap` | is what overlaps a confident result dropped | violated, see 6 |
| `cstring_memo` | is the memo sound when scopes nest and memory changes; same answers, linear work | 3 bytes, 2 scopes |
| `codec_call` | is the bounded window an unbounded output; is the result what is left behind; does `ok` stand for all of the stream and `truncated_data` for a missing end; do the loops end | history of 2, ceiling of 6, calls of up to 5 bytes at distances of up to 3, 2 byte values; streams of up to 3 bytes in and out, 2 at a time, ceilings 2 and 4, 6 codecs |
| `stream_deflate` | the same of raw deflate | violated, see 6 |
| `extraction` | does a success stand for its own output, does a failure leave anything, does `extract` return | maps of 2 results, one of them external with data beyond it, 3 exit codes |
| `command_line` | is every byte carved once; does a queued file stay until it was analysed; is status 0 true; does the pen stay in the graph; do links stay inside, and is what `chroot` answers and touches what it says; does the run end | files of 0, 1 and 5 bytes with every map of up to 3 results over 2 offsets, 5 outcomes of an extraction with up to 2 files brought out, one of them with a file in the directory of the other's extraction, paths of up to 5 names extracted no further, 2 workers, 2 sets of leftovers, a fresh log and one with an array in it, 2 blocks in an image of 128 by 128; 3 names, one of which sanitizes to another, in paths of up to 2, 5 targets of links |
| `formats` | is what parsers claim and read inside the data and exact, and does every walk move on | data of 8 sizes from 12 to 110 000 bytes, 6 offsets, fields of 4 to 6 values for each width, walks of up to 12 entries |
| `shared_scanner` | no use after delete, deleted by the last, one run at a time | 3 threads, 4 scanners, 2 implementations |

Why these bounds are enough. Two helpers are the least with which one can be
late while another signs off, and two batches the least with which "late" means
something; three indices let both helpers and the caller hold one. Slices as
short as the longest pattern let a match straddle a slice, a window, a lane and
the look-ahead, and the sizes were chosen to enter every loop: 48 bytes make two
rounds, then wide and narrow windows and a tail. Two equal patterns
make ties in the order, and a long one with the short one's byte in the middle,
left pending at the end of a window, must wait for the short one of the next. Three literals of up to three bytes give failure chains of length two and
outputs inherited through them. Four bytes with results of any size make two
results nest, touch, overlap or share an offset. Three threads make two
releases race with a copy; four scanners leave one free while two assignments
cross. Two results make one directory stand filled while the next is emptied, and
every kind of result comes before or after an external one; more would repeat
that. A call of five bytes spans three chunks of a window of two, so that the
window drains in the middle of a match, and a ceiling of six lets two such calls
meet it. A stream of three bytes of output in chunks of two fills a chunk, and
leaves one; three bytes of input in pieces of two are fed twice; the code's chunk of
64 KiB and its `max_feed` are constants. Two workers are the least that share the
disk, and files at two levels below the first one the least at which a file's directory has
another's inside it while both are queued; a file named like a directory of a sibling's
extraction, as a file and as a directory with another file in it, makes an extraction fail and
empties a directory in which a file waits. Three names of which two collide let an entry replace, hide,
contain or point to another in every order; a link to a link, followed by a write
through both, fits. The data sizes of `formats` lie below most headers, between a
header and its table, and above the largest fixed structure; each field takes the
values at which a comparison with these turns, and those at which a sum wraps.

The bounds are constants of the cfg files and named there; those that
occur in an action's guard are `MaxBatches`, `MaxCount`, `MaxMatches`, `MaxDepth`,
`MaxText`, `MaxRun`, `MaxDistance`, `MaxInput`, `MaxOutput`, `MaxWrites`, `MaxLinks` and
`MaxEntries`.

Deadlock is checked in every run. Where a run of the code ends (`Returned`,
`Finished`, `Exited`), the model stutters explicitly.

The type invariants of `TaskPool`, `ScannerScan`, `CStringMemo`, `SharedScanner`,
`WindowWriter` and `Extraction` are proved, and so not checked again by TLC. The
same holds for the lemmas of the bigger properties that have a theorem of their own:
`WorkIsCurrent`, `BatchIsStable`, `OffsetsIncrease`, `MemoIsSound`, `ReferencesAreExact`,
`NeverOutgrown`.

Each property has a mutant in `PROJECT.json`: a fault that could be in the code
(`Fault:` comments in the modules), with which TLC finds it violated.

### Fairness

`TaskPool!FairSpec` is weak fairness of each thread's own steps: the operating
system runs every thread that is ready, a mutex section ends, and the body
returns or throws. Nothing is asked of spurious wake-ups. A notification that
comes before the wait is lost, as with a real condition variable. A thread
asleep has no step of its own, so its waking is owed to the notification only.
`LiteralSearch!SearchSpec` is weak fairness of the search as a whole: it is one
call on one thread, or on the pool's lanes, which `RunReturns` covers.
`CodecCall!CallSpec` is weak fairness of a loop on one thread; the library
returns from each call, and may stall for ever.
`CommandLine!Spec` is weak fairness of `main` and its workers together, without the
built-in extractor's writes, so an extractor may be at work for any time but not for
ever, as the data it reads is finite. `main` waits for each worker it launched, and a
worker waits for nobody.
`Formats` states no fairness: that a parser returns follows from `WalksAdvance`, as
offsets are bounded by the data, and from the absence of a deadlock, as a walk that
cannot go on must answer.
`Extraction!FairSpec` is weak fairness of the thread that extracts, of the clock
(`TimePasses`) and of the death of what SIGKILL was sent to (`ChildDies`); a
built-in extractor returns. Nothing is asked of the utility, which may run
for ever, nor of what it leaves running.

## 4. What is proved

For every value of the constants that satisfies the modules' named assumptions:

* **TaskPoolProofs**: `TypeCorrect`, `NoStragglerLeft`, `WorkStaysCurrent`,
  `StableBatch`, and `Refinement` (every step of the pool is a step of
  `ParallelFor` or a stutter). The inductive invariant adds to `TypeOK`:
  a helper that has joined has joined the current batch (`JoinedIsCurrent`);
  `workersStillRunning` is the number of helpers that did not sign off
  (`CountsOwing`); while the caller is outside of `run` none is joined
  (`NoStraggler`); the body is that of the batch (`BodyIsCurrent`); no two threads
  hold one index (`DistinctIndices`). Without `CountsOwing` none of the others is
  inductive: the caller leaves its wait on a number, and only counting says that
  the number stands for the helpers.
* **ScannerScanProofs**: `TypeCorrect`, `ResultsAreOrdered`, `BestIsReported`,
  `NothingIsLost` (what was dropped starts
  in the bytes of a confident result that was the first found at its offset, and that offset is
  reported, by one at least as confident: possibly a shorter one, found later, as finding
  `scan_overlap` shows), `SizesAreUsable`, `OnlyClaimedEndIt` (the search ends early only for a result that starts and ends in
  claimed bytes), and `WholeWalk`: if no result starts before its magic, every match
  is visited. That hypothesis is what `scan_early` shows to be needed.
* **FormatsProofs**, of every parser and of the strings they read:
  * The parsers: `ParsersClaimWhatIsThere`, `ParsersReadWhatIsThere`, `ParsersClaimExactly` and
    `ParsersAdvance`, for data of any size, any offset, any width that holds the sum of some
    fields, and any values of the fields. None of the four properties is inductive: what an
    answer claims at the end of a walk depends on where the walk was let go. The invariant
    (`ParsersStayInShape`) has a predicate for each loop: `XzLoop`, `CpioLoop`
    keep the offset equal to what was added up and within the data; `MatterLoop`, `CsmanLoop`, `DtbLoop`,
    `RomfsLoop` keep the limit that the header set within the data, so that a test against the limit is a
    test against the end; `EfigptLoop`, `VxworksLoop` keep where the result began no later
    than where the walk is; `SparseLoop`, `Jffs2Loop` allow the walk as far beyond
    the end as one field of 32 bits reaches, as the code does, which still fits 64 bits. The step of each parser is one lemma (`...Keeps`)
    that ends in one of a few: an answer that is `Sound`, a rejection, a loop begun, a loop
    gone on to a later offset. That going on is progress follows from `is_offset_safe`
    alone where the code calls it (`OnwardWithin`): it answers false for the entry after one
    that pointed back. `RangeInBounds`, `CheckedAdd` and `CheckedMultiply` are used by what they
    guarantee (`ProductFits`: a product that is given is the product, and fits).
  * The strings: `MemoTypeCorrect`, `MemoStaysSound`, `AnswersAreUnchanged`, `WorkIsLinear` of
    `CStringMemo`, for any memory and any nesting. The invariant holds for the current run
    and for the run each open scope has put aside, as leaving a scope restores it; and it pins
    what was verified: memory can change only outside of every open scope.
* **SharedScannerProofs**: `TypeCorrect`, `CountsAreExact`, `NoUseAfterDelete`, `LastOneDeletes`,
  `OneRunAtATime`, for any number of threads, scanners and implementations. The
  invariant counts the owners of each implementation through every half-done copy,
  assignment and destruction (`Accounted`), says what a thread at each place of a call may
  hold (`Shape`), that no two calls use one scanner in a way the rule of C++
  forbids (`Exclusive`), and that the thread with the lease is the only one (`Leased`).
* **CodecCallProofs**: `TypeCorrect`, `NeverGrown`, `ResultIsTrue` and
  `Refinement`, for any history, ceiling and calls. The invariant counts every byte
  as written or in the window (`Counted`), holds what a call still owes to what the
  ceiling granted (`Granted`), and keeps `History` bytes in the window once
  anything was written (`HistoryKept`): that is why the byte a match refers
  to is the byte of the unbounded output. Of the loops around the libraries,
  `OkIsAllOfIt` and `CutOffIsMissing`, for any stream and chunk: the invariant relates
  what was fed, taken and given out to what the stream determines so far.
* **LiteralSearchProofs**: `NothingIsOverRead` and `Refinement`, for any literals, texts,
  slices, windows and lanes. What a slice, a window, a lane and a round collect is the same
  statement on stretches of different length (`Covers`: the matches that start in the
  stretch, each once), and it passes from tiles to the row of them (`TilesCover`). The invariant
  then says that everything that starts before the cursor was reported or is pending, once
  (`Kept`). A match may be released when it ends at or before the cursor, because one not
  seen yet starts there or later and has a byte.
  And `TableIsExact`: the table reports after any bytes what ends there, for any list of literals,
  empty and repeated ones included. The invariant (`AutomatonInv`) keeps a witness that no
  variable of the code holds: the word each node spells, which the trie fixes (`Trie`). While rows are
  completed it says which are (`Completing`): those of `done`, all of them shorter than or as long as
  what waits, and the queue holds the children of `done`, in order of length (`BreadthFirst`). A
  completed row leads from a word and a byte to the longest ending of both that is a node
  (`Longest`), and a failure link to the longest proper one. That is why a row may
  be completed from the row of its failure: it spells a shorter word, and so is
  complete already. Outputs are those of the word and of its endings, each once, because a
  proper ending is shorter and its outputs are of other literals (`ReportsBoth`). With all rows
  complete (`Exact`), a walk is at the longest ending of its text that is a node (`At`), by one byte at a time.
  The new numbers are a permutation of the nodes that keeps each side's order
  (`Numbering`), so that slot after slot is laid out in the order of nodes (`LaidOut`).
* **ExtractionProofs**: `TypeCorrect`, `TruthIsTold`, `SuccessStands`, `NothingIsLeft`
  and `EarlierOnesStay`, for any file maps, exit codes and leftovers of earlier
  runs, whatever the utilities write and leave running. The invariant says of each
  recorded result, and of the one judged but not recorded, what its directory
  holds (`Past`, `Judged`). That needs what the directory at hand may hold in between
  (`AtHand`: nothing old, and the carved input only while the utility runs, unless something
  could not be removed), what the directories still to come hold
  (`Untouched`: what an earlier run left), and where `run_process` may find its child
  (`Calls`).

* **CommandLineProofs**, of a whole run of the program:
  * Carving: `NoByteIsLost` and `UnknownIsUnclaimed`, for data of any size and any
    file map in order of offsets. The invariant says that the parts tile the bytes before
    `last_known_offset` (`Tiled`): each byte is in one, none that is valid ends beyond, and
    unknown ones overlap nothing. It needs that the results still to come start after every
    result that was carved (`Ordered`): that is why an unknown part never meets a later
    result, though a later result may well lie inside an earlier one.
  * Entropy: `PenKeepsToLine`, for data and an image of any size. Blocks end where the next begins
    or with the data (`BlocksInv`), so the scaled ends of a line lie in the image; and the
    error term tells how far the pen has come in either direction (`OnLine`), so a turn
    moves it in neither beyond the end.
  * The queue: `QueuedFilesAreKept`, for any outcomes of extractions, any names, number of
    workers and leftovers, as long as no file was brought out in the directory of a
    sibling's extraction (`nested`). That is the only exception, and what the proof turns on: names
    alone decide what an extraction reaches, so a file is in its way only if it lies below a
    name that is another file's with ".extracted" behind it, and then either the other's own
    extraction made it, after the other's analysis, or one extraction brought out both
    (`NestingIsRemembered`). `QueueInv` says that no path waits twice (`Distinct`); that, unless
    files nested, a file that waits is on the disk with nothing that was ever queued in its own
    directories (`Alone`), and that what is to be listed of an analysis is not nested either
    (`Kept`); and that what waits was seen and is not counted yet (`Once`).
  * The exit status: `StatusIsTrue`. `StatusInv` keeps for each way to fail the flag
    that remembers it, and the log as what it had, followed by the array of the records counted so
    far as long as no write failed: one more record, with its separator, is the array of one more
    (`ListingGrows`).
  * `Chroot`: `LinksKeepInside`, `AnswersAreTrue`, `OnlyNamedEntriesChange`, for any names, any way to
    sanitize them, any targets and any sequence of operations. The invariant (`TreeInv`) says
    that the entries form a tree below the root, and that every link, read from where it is,
    goes up no further than the root. `Follow` recurses over a graph that links
    may close to cycles: what is proved of it is proved by descent on the links still to follow, then
    on the names still before the walk (`WalkInduction`). An operation first clears
    its way of links (`Clear`), and a path whose way is clear leads to the place it names
    (`ArrivesAtDirectory`, `StraightWay`), or nowhere (`ArrivesNowhere`): so what the code
    checks by name and what the system then does meet at one place. What the loops over a
    path compute (`FoldLeft`) is reached through the row of their intermediate results
    (`Folding`, `FoldExists`). In an earlier form two guards of the `CASE` by which a link's
    target is resolved overlapped, for a step up that follows one out of the root; the
    proof could not choose, and they are ordered now as the code leaves its loop there
    (`chroot.cpp:573-576`).

The assumptions are those named `...Assumption` in the modules: finite sets of
threads, `None` outside of them, bounds that are naturals, a positive size,
finitely many bytes and literals made of them. Of the parsers, `WidthAssumption` asks that a
value of 64 bits holds twice the size of any data (the size of a file or of an
object is at most 2^63 - 1) and 1024 times one of 32, and that every field holds
a value of its width; the assumptions of the families give the bounds their types. TLC
evaluates all of them in the runs.

Only model-checked: the liveness properties, which rest on fairness and are out of the
provers' reach (`RunReturns`, `DestructorReturns`, `SearchReturns`, `LoopEnds`,
`ExtractReturns`, `RunEnds`); and the three violation runs. Every other property of a
run is a theorem.

## 5. Not modelled, and the plan

Still to be written, in this order:

1. The token loops of the lz4 block and lzo1x decoders, as clients of `WindowWriter`, and
   the growing buffer of lzfse.
2. The trees some built-in extractors write (`extract_romfs_entries`, CSMAN and the like):
   their walks are in `Filesystems`, and any sequence of operations of `Chroot` stands for
   what they write.
3. The moves of `mapped_file` from owner to owner.

Left out of what is modelled:

* Two different results carved under names that are equal once sanitized write to one
  file; names of carved files are not modelled, only their ranges.
* `make_executable` follows links on the way to its file; it changes a permission of
  something inside the root, as links stay inside.
* A file that is truncated by somebody else while it is mapped.
* In `CommandLine` an extraction's `remove_all` succeeds (in `Extraction` it may fail), and
  the files of a path are sorted name by name, by number, where the code compares whole strings:
  the order of the queue differs, and nothing is said of it but that it is some order.
* In runs in which files nested (`nested`), `QueuedFilesStay` says only that nothing is analysed
  twice, and `StatusZeroIsTrue` nothing of files that were brought out again. Every path is its own canonical form in `CommandLine`: links below the
  extraction directory are `Chroot`'s.
* The memory order of atomics; Windows branches.

Not planned: option parsing, the printed report and the reading of standard input; the
characters of texts, descriptions and names, and the polynomials of checksums; the
writing of PNG files; `cpu_topology` (reads the operating system's tables); the byte
views and readers beyond their checks; the tables of signatures (data).

## 6. Findings

* `scan_overlap`: `README.md:17-18` says overlapping results are filtered, and
  `b10a_kernels_test.cpp:1333-1334` that they are. When a confident result replaces
  the one kept at its offset, `scanner.cpp:398` leaves `next_non_overlapping_offset`
  where the replaced one put it, so results inside the new one are reported as well.
* `scan_early`: `README.md:369-372` says that a floor raised over one continuous
  walk gives the answer a search restarted after each confident result gave. When a
  confident result starts before its magic and ends at or below the floor, the
  visitor answers false (`scanner.cpp:376`), which ends the walk itself: matches
  beyond the floor are never looked at.
* `stream_deflate`: `tests/unit/codec_test.cpp:848` expects `ok` of the complete
  streams of every codec, deflate among them. A raw deflate stream has no checksum
  behind its last byte. When that byte tells more output than the chunk has room
  for, `zlib_codec.cpp:92` finds the input used up and answers `truncated_data`
  before zlib was asked for the rest, though nothing is missing.

Met while modelling, and kept in the properties as exceptions they name rather than as
runs of their own:

* An archive that brings out `a` and `a.extracted/0/b` queues both. When the result at the
  beginning of `a` is extracted, `extractor.cpp:215` empties the directory `b` waits in: `b` is
  gone before its analysis (`main.cpp:845` says that it cannot be read), or was analysed and
  another file takes its path, which `seen` (`main.cpp:798`) keeps from being analysed. The
  program exits with 0 all the same, although `README.md:5-6` says that it follows extracted
  files recursively (`nested` in `QueuedFilesStay` and `StatusZeroIsTrue`).
* `--log` opens its file for appending (`main.cpp:318`). A second run into the same file leaves
  one array behind another, and not the JSON array of `README.md:187`
  (`log.earlier` in `StatusZeroIsTrue`).
* The error of removing the carved input is not asked for (`extractor.cpp:148-149`): where a
  utility leaves its directory unwritable the input stays, and counts as its output
  (`SuccessHasOutput`).
