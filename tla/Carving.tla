------------------------------- MODULE Carving -------------------------------
(***************************************************************************)
(* carve_file_map (lib/src/carving.cpp): the results of one scan, and the  *)
(* bytes none of them accounts for, are written to files of their own.     *)
(* One action per turn of its loop; a part that cannot be written is the   *)
(* file system's choice.                                                   *)
(***************************************************************************)
EXTENDS Integers, Sequences

CONSTANTS
  Inputs,   \* what is carved: [size |-> the data's, map |-> its results]
  Unknown   \* the name of a part no result accounts for

\* The file maps scanner::scan returns: one result for an offset, in their order.
ASSUME InputsAssumption ==
  \A in \in Inputs :
    /\ in.size \in Nat
    /\ in.map \in Seq([offset : Nat, size : Nat, name : STRING \ {Unknown}])
    /\ \A i, j \in DOMAIN in.map : i < j => in.map[i].offset < in.map[j].offset

VARIABLES
  size,        \* data.size()
  map,         \* the results not yet carved
  lastKnown,   \* last_known_offset
  parts,       \* the carved_results so far
  carving      \* "begin", "parts", "end"

carvingVars == <<size, map, lastKnown, parts, carving>>

CarvingInit == /\ \E in \in Inputs : size = in.size /\ map = in.map
               /\ lastKnown = 0 /\ parts = << >> /\ carving = "begin"

Later(a, b) == IF a > b THEN a ELSE b

-----------------------------------------------------------------------------
Usable(offset, n) == offset <= size /\ n <= size - offset

\* carve_one: the file is named after the source, the offset and the name.
Part(offset, n, name, written) ==
  [offset |-> offset, size |-> n, name |-> name, success |-> written /\ Usable(offset, n)]

\* The bytes from last_known_offset up to `upto`, if there are any.
Gap(upto, written) ==
  IF upto > lastKnown THEN << Part(lastKnown, upto - lastKnown, Unknown, written) >> ELSE << >>

CarveBegin ==
  /\ carving = "begin" /\ map # << >>
  /\ carving' = "parts"
  /\ UNCHANGED <<size, map, lastKnown, parts>>

\* An empty file map; or no directory could be made, which leaves no trace in
\* what is returned.
CarveNothing ==
  /\ carving = "begin"
  /\ carving' = "end"
  /\ UNCHANGED <<size, map, lastKnown, parts>>

CarveInvalid ==
  /\ carving = "parts" /\ map # << >> /\ ~Usable(Head(map).offset, Head(map).size)
  /\ parts' = Append(parts, Part(Head(map).offset, Head(map).size, Head(map).name, FALSE))
  /\ map' = Tail(map)
  /\ UNCHANGED <<size, lastKnown, carving>>

\* Fault: the end of a nested result takes the place of the end around it.
CarveForgettingOuter ==
  /\ carving = "parts" /\ map # << >> /\ Usable(Head(map).offset, Head(map).size)
  /\ \E gapWritten, written \in BOOLEAN :
       parts' = parts \o Gap(Head(map).offset, gapWritten)
                  \o << Part(Head(map).offset, Head(map).size, Head(map).name, written) >>
  /\ lastKnown' = Head(map).offset + Head(map).size
  /\ map' = Tail(map)
  /\ UNCHANGED <<size, carving>>

CarveSignature ==
  /\ carving = "parts" /\ map # << >> /\ Usable(Head(map).offset, Head(map).size)
  /\ \E gapWritten, written \in BOOLEAN :
       parts' = parts \o Gap(Head(map).offset, gapWritten)
                  \o << Part(Head(map).offset, Head(map).size, Head(map).name, written) >>
  /\ lastKnown' = Later(lastKnown, Head(map).offset + Head(map).size)
  /\ map' = Tail(map)
  /\ UNCHANGED <<size, carving>>

\* Fault: a last part of one byte is left out.
CarveRestShort ==
  /\ carving = "parts" /\ map = << >>
  /\ \E written \in BOOLEAN :
       parts' = parts \o (IF lastKnown + 1 < size THEN Gap(size, written) ELSE << >>)
  /\ carving' = "end"
  /\ UNCHANGED <<size, map, lastKnown>>

CarveRest ==
  /\ carving = "parts" /\ map = << >>
  /\ \E written \in BOOLEAN : parts' = parts \o Gap(size, written)
  /\ carving' = "end"
  /\ UNCHANGED <<size, map, lastKnown>>

CarveStep == CarveBegin \/ CarveNothing \/ CarveInvalid \/ CarveSignature \/ CarveRest

-----------------------------------------------------------------------------
(* Properties.                                                             *)

Valid(p) == Usable(p.offset, p.size)
Holds(p, byte) == Valid(p) /\ p.offset <= byte /\ byte < p.offset + p.size

\* Whatever results overlap, contain each other or lie outside the data, no
\* byte is lost: each is in some part of what carve_file_map returns.
EveryByteCarved ==
  carving = "end" /\ parts # << >> =>
    \A byte \in 0 .. size - 1 : \E i \in DOMAIN parts : Holds(parts[i], byte)

\* An unknown part holds no byte of any other part, and two parts that are
\* written never have the same file, whose name is made of the offset and name.
GapsAreUnknown ==
  \A i, j \in DOMAIN parts :
    i # j /\ Valid(parts[i]) /\ Valid(parts[j]) =>
      /\ parts[i].name = Unknown =>
           \/ parts[i].offset + parts[i].size <= parts[j].offset
           \/ parts[j].offset + parts[j].size <= parts[i].offset
      /\ parts[i].offset # parts[j].offset \/ parts[i].name # parts[j].name
=============================================================================
