---------------------------- MODULE MCCommandLine -----------------------------
(***************************************************************************)
(* Runs of the program over small data: every file map of up to three      *)
(* results, overlapping, nested, empty or out of range; every option that  *)
(* changes what main does; extractions two levels deep over what an        *)
(* earlier run left, in batches of two.  In a built-in extractor's hands   *)
(* three names, two of which are the same once sanitized, at most two      *)
(* deep: every order of entries that replace, nest in or point to each     *)
(* other.                                                                  *)
(***************************************************************************)
EXTENDS CommandLine

CONSTANT Sizes

\* The input that a built-in extractor takes.
MCArchive == {[size |-> 1, map |-> << [offset |-> 0, size |-> 1, name |-> "archive"] >>]}

\* Three results over two offsets, so that a nested one can be followed.
MCInputs ==
  LET Result(o, n) == [offset |-> o, size |-> n, name |-> "result"]
      Maps(s) == {<< >>} \cup {<< Result(o, n) >> : o \in 0 .. s, n \in 0 .. s}
                   \cup {<< Result(0, n), Result(1, m), Result(3, k) >> : n, m \in 0 .. s, k \in {0, 1}}
  IN MCArchive \cup UNION {{[size |-> s, map |-> m] : m \in Maps(s)} : s \in Sizes}

\* A name at both offsets; a name and that of the directory of its own extraction,
\* as a file and as a directory with another; a file nobody looks for; and failures,
\* beside a success and alone.
MCExtractions ==
  LET Extraction(made, failed, followed) == [made |-> made, failed |-> failed, followed |-> followed]
  IN {Extraction({<< 0, 10 >>, << 1, 10 >>}, {}, {0, 1}),
      Extraction({<< 0, 10 >>, << 0, Dotted(10) >>}, {1}, {0}),
      Extraction({<< 0, 10 >>, << 0, Dotted(10), 0, 20 >>}, {}, {0}),
      Extraction({<< 0, 20 >>, << 1, 30 >>}, {}, {1}),
      Extraction({}, {0, 1}, {})}

\* Files of two levels of extractions; a file where a directory must be.
MCLeftovers == {{<< 2, 0, 10 >>, << 2, 0, 11, 0, 20 >>, << 2, 1, 30 >>}, {<< 2 >>}}

MCEarlierLog == << Opening, MainFile, Closing >>

Flags(set) == [f \in {"stdin", "extract", "carve", "matryoshka", "entropy", "png", "log"} |-> f \in set]

MCRuns ==
  LET Run(o, in, left, earlier) ==
        [options |-> Flags(o), input |-> in, left |-> left, earlier |-> earlier]
      First(sets, inputs) == {Run(o, in, {}, << >>) : o \in sets, in \in inputs}
      Small == {in \in MCInputs \ MCArchive : in.size = 1 /\ Len(in.map) <= 1}
      Found == [size |-> 1, map |-> << [offset |-> 0, size |-> 1, name |-> "result"] >>]
  IN First({{"carve", "log"}}, MCInputs \ MCArchive)
     \cup First({{"entropy", "log"}, {"entropy", "png"}}, {in \in MCInputs : in.map = << >>})
     \cup First({{"extract", "log", "stdin"}}, Small)
     \cup First({{"extract"}}, MCArchive)
     \cup First({{"extract", "matryoshka", "log"}}, {Found})
     \cup {Run({"extract", "matryoshka", "log"}, Found, {}, MCEarlierLog)}
     \cup {Run({"extract", "matryoshka", "carve"}, Found, left, << >>) : left \in MCLeftovers}

MCSanitized == [n \in RawNames |-> IF n = "b?" THEN "b" ELSE n]

MCRawPaths == {<< >>, <<"a">>, <<"b">>, <<"b?">>, <<"a", "b">>, <<"b", ".", "a">>, <<"..", "a">>}

MCLinkTargets ==
  {[absolute |-> FALSE, path |-> p] :
      p \in {<<"b">>, <<"..", "b">>, <<"..", "..", "b", "a">>, <<"a", "..", "..", "..", "a">>}}
  \cup {[absolute |-> TRUE, path |-> <<"a">>]}
=============================================================================
