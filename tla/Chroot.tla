-------------------------------- MODULE Chroot --------------------------------
(***************************************************************************)
(* binwalk::chroot (lib/src/chroot.cpp): the files, directories and links  *)
(* an archive names are made below one root, whatever the names are and in *)
(* whatever order they come.  The root starts empty, as execute_extractor  *)
(* makes it.  A path in the file system is a sequence of names below the   *)
(* root; a link keeps its target as the steps up and the names down from   *)
(* the directory it is in, which the system follows when it is read.       *)
(***************************************************************************)
EXTENDS Integers, Sequences, SequencesExt, FiniteSets

CONSTANTS
  RawNames,      \* the names archives use
  Sanitized,     \* what sanitize_component makes of each
  RawPaths,      \* the paths asked for: sequences of names, "." and ".."
  LinkTargets,   \* [absolute |-> BOOLEAN, path |-> one of RawPaths]
  MaxWrites      \* bound: how often a file is appended to

VARIABLES
  fs,       \* path -> entry, for every path below the root where there is one
  answer    \* history: the last operation, where it led, and what it returned

vars == <<fs, answer>>

\* A name in the file system: sanitize_component leaves no separator in it.
Component == STRING \ {"/"}

Directory == [kind |-> "directory"]
NewFile == [kind |-> "file", data |-> << >>, exec |-> FALSE]
Link(up, down) == [kind |-> "link", up |-> up, down |-> down]

Init == /\ fs = << >>
        /\ answer = [operation |-> "none", at |-> << >>, ok |-> FALSE]

-----------------------------------------------------------------------------
(* Paths.                                                                  *)

SanitizeComponent(raw) == Sanitized[raw]

\* relative_components: ".." never leaves the root.
Climbed(stack, c) ==
  CASE c = "." -> stack
    [] c = ".." -> IF stack = << >> THEN << >> ELSE Front(stack)
    [] OTHER -> Append(stack, SanitizeComponent(c))

RelativeComponents(path) == FoldLeft(Climbed, << >>, path)

\* The depth a path reaches below the root it starts from, -1 once it has been
\* above it.
DepthReached(path) ==
  FoldLeft(LAMBDA depth, c :
             IF depth = -1 \/ c = "." THEN depth ELSE IF c = ".." THEN depth - 1 ELSE depth + 1,
           0, path)

TraversesAboveRoot(path) == DepthReached(path) = -1

\* The components of a link's target, seen from the directory `from`, or Escaped.
Escaped == <<"/">>

ResolvedStep(resolved, c) ==
  IF resolved = Escaped \/ c = "." THEN resolved
  ELSE IF c # ".." THEN Append(resolved, SanitizeComponent(c))
  ELSE IF resolved = << >> THEN Escaped ELSE Front(resolved)

ResolvedTarget(from, path) == FoldLeft(ResolvedStep, from, path)

\* path::lexically_relative.
Relative(target, from) ==
  LET common == CHOOSE n \in 0 .. Len(from) :
                  /\ n <= Len(target) /\ SubSeq(target, 1, n) = SubSeq(from, 1, n)
                  /\ n = Len(from) \/ n = Len(target) \/ target[n + 1] # from[n + 1]
  IN Link(Len(from) - common, SubSeq(target, common + 1, Len(target)))

-----------------------------------------------------------------------------
(* The file system.                                                        *)

EntryExists(f, p) == p = << >> \/ p \in DOMAIN f
IsDirectory(f, p) == p = << >> \/ (p \in DOMAIN f /\ f[p].kind = "directory")
IsKind(f, p, kind) == p \in DOMAIN f /\ f[p].kind = kind

With(f, p, entry) == [q \in DOMAIN f \cup {p} |-> IF q = p THEN entry ELSE f[q]]
\* Fault: the entry goes, what is below it stays.
WithoutEntry(f, p) == [q \in DOMAIN f \ {p} |-> f[q]]

Without(f, p) == [q \in {x \in DOMAIN f : ~IsPrefix(p, x)} |-> f[q]]

\* fs::create_directories of the first n components.
WithDirectories(f, components, n) ==
  LET new == {SubSeq(components, 1, k) : k \in 1 .. n} \ DOMAIN f
  IN [q \in DOMAIN f \cup new |-> IF q \in new THEN Directory ELSE f[q]]

Missing == <<"/">>
Outside == <<"/", "/">>
MaxLinks == 4   \* bound: the system gives up on longer chains

\* The system on its way: the directory it is in, the names before it, and how
\* many links it still follows.
Positions == [links : 0 .. MaxLinks, at : Seq(Component), rest : Seq(Component)]

Here(w) == Append(w.at, Head(w.rest))

Ends(f, w) ==
  \/ w.rest = << >>
  \/ Here(w) \notin DOMAIN f
  \/ f[Here(w)].kind = "link" /\ (w.links = 0 \/ f[Here(w)].up > Len(w.at))

End(f, w) ==
  IF w.rest = << >> THEN w.at
  ELSE IF Here(w) \notin DOMAIN f \/ w.links = 0 THEN Missing ELSE Outside

Advance(f, w) ==
  LET entry == f[Here(w)]
  IN IF entry.kind = "link"
     THEN [links |-> w.links - 1, at |-> SubSeq(w.at, 1, Len(w.at) - entry.up),
           rest |-> entry.down \o Tail(w.rest)]
     ELSE [links |-> w.links, at |-> Here(w), rest |-> Tail(w.rest)]

\* Where it arrives.
Follow(f) ==
  LET walk[w \in Positions] == IF Ends(f, w) THEN End(f, w) ELSE walk[Advance(f, w)]
  IN walk

Arrives(f, path) == Follow(f)[[links |-> MaxLinks, at |-> << >>, rest |-> path]]

\* Where the system finds an entry: the links on the way are followed.
Place(f, path) == Append(Arrives(f, Front(path)), Last(path))

-----------------------------------------------------------------------------
(* What operations share; each gives the outcomes it can have.             *)

Outcome(ok, f) == [ok |-> ok, fs |-> f]

\* Fault: links on the way are left where they are.
NeutralizeNothing(components, n) == {Outcome(TRUE, fs)}

\* neutralize_links: the first of n components that is no directory is absent,
\* or a link, which is removed if it can be, or in the way.
NeutralizeLinks(components, n) ==
  LET Prefix(k) == SubSeq(components, 1, k)
      others == {k \in 1 .. n : ~IsDirectory(fs, Prefix(k))}
      first == CHOOSE k \in others : \A j \in others : k <= j
  IN IF others = {} \/ ~EntryExists(fs, Prefix(first)) THEN {Outcome(TRUE, fs)}
     ELSE {Outcome(FALSE, fs)}
          \cup IF IsKind(fs, Prefix(first), "link") THEN {Outcome(TRUE, Without(fs, Prefix(first)))} ELSE {}

\* The directories above an entry, or the entry itself when it is to be one.
MadeIn(f, components, n) ==
  LET made == WithDirectories(f, components, n)
  IN {Outcome(IsDirectory(made, Arrives(made, SubSeq(components, 1, n))), made), Outcome(FALSE, f)}

Prepare(components, n) ==
  UNION {IF cleared.ok THEN MadeIn(cleared.fs, components, n) ELSE {cleared} :
           cleared \in NeutralizeLinks(components, n)}

PrepareParent(components) ==
  IF components = << >> THEN {Outcome(FALSE, fs)} ELSE Prepare(components, Len(components) - 1)

\* write_bytes to a file that is there or was just made: all of it, or none.
WriteBytes(f, p, file) ==
  {Outcome(TRUE, With(f, p, [file EXCEPT !.data = Append(@, "written")])),
   Outcome(FALSE, f), Outcome(FALSE, With(f, p, file))}

AfterParent(components, Then(_)) ==
  UNION {IF o.ok THEN Then(o.fs) ELSE {o} : o \in PrepareParent(components)}

FileIn(f, p) == IF EntryExists(f, p) THEN {Outcome(FALSE, f)} ELSE WriteBytes(f, p, NewFile)

FileOutcomes(components) == AfterParent(components, LAMBDA f : FileIn(f, Place(f, components)))

-----------------------------------------------------------------------------
(* The operations.                                                         *)

Answers(operation, components, outcomes) ==
  \E o \in outcomes :
    fs' = o.fs /\ answer' = [operation |-> operation, at |-> components, ok |-> o.ok]

\* create_file, and what stands in for devices, fifos and sockets.
CreateFile(path) == Answers("create", RelativeComponents(path), FileOutcomes(RelativeComponents(path)))

\* carve_file: nothing happens when the range is not in the data.
CarveFile(path) ==
  \E contained \in BOOLEAN :
    Answers("create", RelativeComponents(path),
            IF contained THEN FileOutcomes(RelativeComponents(path)) ELSE {Outcome(FALSE, fs)})

AppendedIn(f, p) ==
  IF IsKind(f, p, "file") THEN WriteBytes(f, p, f[p]) ELSE FileIn(f, p)

AppendToFile(path) ==
  LET c == RelativeComponents(path)
  IN /\ IsKind(fs, c, "file") => Len(fs[c].data) < MaxWrites
     /\ Answers("append", c, AfterParent(c, LAMBDA f : AppendedIn(f, Place(f, c))))

CreateDirectory(path) ==
  LET c == RelativeComponents(path)
  IN Answers("directory", c, IF c = << >> THEN {Outcome(TRUE, fs)} ELSE Prepare(c, Len(c)))

RemovedIn(f, p) ==
  {Outcome(TRUE, Without(f, p))} \cup IF EntryExists(f, p) THEN {Outcome(FALSE, f)} ELSE {}

RemoveDirectory(path) ==
  LET c == RelativeComponents(path)
  IN Answers("remove", c,
       IF c = << >> THEN {Outcome(FALSE, fs)}
       ELSE UNION {IF cleared.ok THEN RemovedIn(cleared.fs, Place(cleared.fs, c)) ELSE {cleared} :
                     cleared \in NeutralizeLinks(c, Len(c) - 1)})

\* Fault: a target is judged by where it ends.
RelativeLinkJudgedByEnd(path, target) ==
  LET c == RelativeComponents(path)
      resolved == RelativeComponents(Front(c) \o target.path)
  IN IF target.absolute \/ TraversesAboveRoot(path) \/ resolved = << >> THEN << >>
     ELSE << Link(Cardinality({k \in DOMAIN target.path : target.path[k] = ".."}), resolved) >>

\* The link create_symlink may make, if any: a relative target that stays
\* below the root, seen from a place that was not moved there.
RelativeLink(path, target) ==
  LET c == RelativeComponents(path)
      resolved == ResolvedTarget(Front(c), target.path)
  IN IF target.absolute \/ TraversesAboveRoot(path) \/ resolved \in {Escaped, << >>} THEN << >>
     ELSE << Relative(resolved, Front(c)) >>

\* A link that cannot be made becomes a file that tells the target; what the
\* first attempt left of links and directories stays.
LinkedIn(f, p, link) ==
  IF EntryExists(f, p) THEN {} ELSE {Outcome(TRUE, With(f, p, link))}

CreateSymlink(path, target) ==
  LET c == RelativeComponents(path)
      link == RelativeLink(path, target)
      linked == UNION {IF o.ok THEN LinkedIn(o.fs, Place(o.fs, c), link[1]) ELSE {} : o \in PrepareParent(c)}
  IN Answers("symlink", c,
             IF c = << >> THEN {Outcome(FALSE, fs)}
             ELSE FileOutcomes(c) \cup IF link = << >> THEN {} ELSE linked)

\* make_executable follows the links on the way, but not one at the end.
ExecutableIn(f, p) ==
  IF IsKind(f, p, "file") THEN {Outcome(TRUE, With(f, p, [f[p] EXCEPT !.exec = TRUE])), Outcome(FALSE, f)}
  ELSE {Outcome(IsDirectory(f, p), f), Outcome(FALSE, f)}

MakeExecutable(path) ==
  LET c == RelativeComponents(path)
  IN Answers("execute", c, IF c = << >> THEN {Outcome(FALSE, fs)} ELSE ExecutableIn(fs, Place(fs, c)))

Next == \E path \in RawPaths :
          \/ CreateFile(path) \/ CarveFile(path) \/ AppendToFile(path)
          \/ CreateDirectory(path) \/ RemoveDirectory(path) \/ MakeExecutable(path)
          \/ \E target \in LinkTargets : CreateSymlink(path, target)

-----------------------------------------------------------------------------
(* Properties.                                                             *)

\* However links, directories and removals follow each other, a link never
\* leads out of the root, directly or through other links.
LinksStayInside == \A p \in DOMAIN fs : Arrives(fs, p) # Outside

\* What an operation says it did is there to be found by its own path: a file
\* with its bytes, a directory, a link or what stands in for it, or nothing.
AnswerIsTrue ==
  answer.ok =>
    CASE answer.operation \in {"create", "append"} ->
           IsKind(fs, answer.at, "file") /\ fs[answer.at].data # << >>
      [] answer.operation = "directory" -> IsDirectory(fs, answer.at)
      [] answer.operation = "symlink" -> EntryExists(fs, answer.at)
      [] answer.operation = "remove" -> \A p \in DOMAIN fs : ~IsPrefix(answer.at, p)
      [] answer.operation = "execute" -> Arrives(fs, answer.at) # Missing

Unchanged(p) ==
  /\ p \in DOMAIN fs /\ p \in DOMAIN fs' /\ fs[p].kind = fs'[p].kind
  /\ IF IsKind(fs, p, "file") THEN fs[p].data = fs'[p].data ELSE fs[p] = fs'[p]

\* A step makes, changes or removes no entry but the one its path names and
\* those above it; a file that is there is only removed, or appended to.
OnlyNamedChange ==
  \A p \in DOMAIN fs \cup DOMAIN fs' :
    ~Unchanged(p) =>
      /\ IsPrefix(p, answer'.at) \/ (answer'.operation = "remove" /\ IsPrefix(answer'.at, p))
      /\ IsKind(fs, p, "file") /\ answer'.operation # "remove" =>
           answer'.operation = "append" /\ IsPrefix(fs[p].data, fs'[p].data)
=============================================================================
