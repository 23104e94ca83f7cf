--------------------------- MODULE MCLiteralSearch ---------------------------
(***************************************************************************)
(* The search on texts of one letter with up to two places marked by the   *)
(* other: the patterns all contain the mark, so each mark, at every place  *)
(* of the text, makes several matches that end together or straddle        *)
(* slices.  The sizes reach every loop of the search: two rounds of the    *)
(* pool, a wide window, a narrow window and a tail.  The automaton for     *)
(* every list of up to three literals, the first of up to three bytes and  *)
(* the others of up to two, empty and repeated ones included, over two     *)
(* byte values.                                                            *)
(***************************************************************************)
EXTENDS LiteralSearch

CONSTANTS Sizes, MaxPatterns, MaxLength

MCPatterns == << <<"b", "a">>, <<"b">>, <<"a", "b", "a">>, <<"b">> >>

\* A mark at place 0 is outside the text.
MCTexts ==
  UNION {{[i \in 1 .. n |-> IF i \in marks THEN "b" ELSE "a"] :
            marks \in {{j, k} : j, k \in 0 .. n}} : n \in Sizes}

MCPatternLists ==
  LET Literals == UNION {[1 .. n -> Bytes] : n \in 0 .. MaxLength}
  IN {l \in UNION {[1 .. n -> Literals] : n \in 0 .. MaxPatterns} :
        \A i \in DOMAIN l : i > 1 => Len(l[i]) < MaxLength}
=============================================================================
