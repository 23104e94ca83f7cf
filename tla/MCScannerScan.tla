---------------------------- MODULE MCScannerScan ----------------------------
(***************************************************************************)
(* ScannerScan over four bytes: magics of one byte anywhere, two of them   *)
(* with the same bytes, and one of three bytes that is reported after      *)
(* matches that start later.                                               *)
(***************************************************************************)
EXTENDS ScannerScan

MCMatches == [start : 0 .. DataSize - 1, length : {1}, index : {1}]
               \cup {[start |-> 0, length |-> 3, index |-> 2],
                     [start |-> 1, length |-> 1, index |-> 3]}

MCNoShort == << >>
MCOneShort == << [magic |-> 1, patterns |-> 2] >>
=============================================================================
