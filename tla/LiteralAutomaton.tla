-------------------------- MODULE LiteralAutomaton ---------------------------
(***************************************************************************)
(* literal_matcher::build_automaton (lib/src/detail/literal_matcher.cpp)   *)
(* and one walk over it: the trie is built byte by byte, completed         *)
(* breadth first from the queue, renumbered so that a state reports        *)
(* exactly when its number is not below first_reporting_state_, laid out   *)
(* in the flat tables, and then driven by the bytes of a text, one per     *)
(* step.                                                                   *)
(***************************************************************************)
EXTENDS Integers, Sequences, FiniteSets, SequencesExt

CONSTANTS Bytes,          \* the byte values
          PatternLists,   \* the lists of literals an automaton is built from
          MaxText         \* bound: bytes walked

VARIABLES
  patterns,       \* the list this automaton is built from
  phase,          \* "inserting", "completing", "numbering", "layout", "walking"
  index,          \* the pattern inserted next
  read,           \* its bytes that are in the trie
  node,           \* the local of that name: the node they lead to; the node laid out next
  transitions,    \* trie.transitions: node -> byte -> node; 0 also means "none"
  nodeOutputs,    \* trie.node_outputs: node -> sequence of pattern indices
  failure,
  pending,        \* the queue of nodes whose row is to be completed
  table,          \* transitions_: state -> byte -> state
  firstReporting, \* first_reporting_state_
  begins,         \* reported_patterns_begin_
  flat,           \* reported_patterns_
  state,          \* where the walk is
  consumed        \* the bytes it read

inserted == <<index, read>>
numbered == <<table, firstReporting>>
laidOut == <<begins, flat>>
trie == <<transitions, nodeOutputs>>
walk == <<state, consumed>>
vars == <<patterns, phase, inserted, node, trie, failure, pending, numbered, laidOut, walk>>

Nodes == DOMAIN transitions
NoRow == [b \in Bytes |-> 0]

Init == /\ patterns \in PatternLists
        /\ phase = "inserting"
        /\ index = 1 /\ read = 0 /\ node = 0
        /\ transitions = [n \in {0} |-> NoRow]
        /\ nodeOutputs = [n \in {0} |-> << >>]
        /\ failure = [n \in {0} |-> 0]
        /\ pending = << >>
        /\ table = << >> /\ firstReporting = 0 /\ begins = << >> /\ flat = << >>
        /\ state = 0
        /\ consumed = << >>

-----------------------------------------------------------------------------
(* build_trie                                                              *)

\* A function with one more point.
With(f, x, y) == [n \in DOMAIN f \cup {x} |-> IF n = x THEN y ELSE f[n]]

Inserting == phase = "inserting" /\ index <= Len(patterns)

\* One byte of a pattern: follow the edge, or make the node it leads to.
InsertByte ==
  /\ Inserting /\ read < Len(patterns[index])
  /\ LET byte == patterns[index][read + 1]
         created == Cardinality(Nodes)
     IN IF transitions[node][byte] # 0
        THEN node' = transitions[node][byte] /\ UNCHANGED trie
        ELSE /\ transitions' = With([transitions EXCEPT ![node][byte] = created], created, NoRow)
             /\ nodeOutputs' = With(nodeOutputs, created, << >>)
             /\ node' = created
  /\ read' = read + 1
  /\ UNCHANGED <<patterns, phase, index, failure, pending, numbered, laidOut, walk>>

\* The end of a pattern; an empty one is passed over.
EndPattern ==
  /\ Inserting /\ read = Len(patterns[index])
  /\ nodeOutputs' = IF read = 0 THEN nodeOutputs
                    ELSE [nodeOutputs EXCEPT ![node] = Append(@, index)]
  /\ index' = index + 1 /\ read' = 0 /\ node' = 0
  /\ UNCHANGED <<patterns, phase, transitions, failure, pending, numbered, laidOut, walk>>

-----------------------------------------------------------------------------
(* complete_transitions_and_inherit_outputs                                *)

\* The sequence of a set's members from the least to the greatest, in a set.
Ascending(S) == {s \in [1 .. Cardinality(S) -> S] :
                   Range(s) = S /\ \A i, j \in DOMAIN s : i < j => s[i] < s[j]}

\* The children a row holds, in the order of their bytes.
Children(row) ==
  {[i \in DOMAIN bytes |-> row[bytes[i]]] : bytes \in Ascending({b \in Bytes : row[b] # 0})}

BeginCompletion ==
  /\ phase = "inserting" /\ index > Len(patterns)
  /\ phase' = "completing"
  /\ failure' = [n \in Nodes |-> 0]
  /\ pending' \in Children(transitions[0])
  /\ UNCHANGED <<patterns, inserted, node, trie, numbered, laidOut, walk>>

\* Fault: a child does not inherit what its failure node reports.
CompleteNodeWithoutOutputs ==
  /\ phase = "completing" /\ pending # << >>
  /\ LET completed == Head(pending)
         row == transitions[completed]
         failureRow == transitions[failure[completed]]
         ByteOf(n) == CHOOSE b \in Bytes : row[b] = n
     IN \E children \in Children(row) :
          /\ transitions' = [transitions EXCEPT ![completed] =
               [b \in Bytes |-> IF row[b] = 0 THEN failureRow[b] ELSE row[b]]]
          /\ failure' = [n \in Nodes |-> IF n \in Range(children)
                                         THEN failureRow[ByteOf(n)] ELSE failure[n]]
          /\ pending' = Tail(pending) \o children
  /\ UNCHANGED <<patterns, phase, inserted, node, nodeOutputs, numbered, laidOut, walk>>

\* One node of the queue: an absent edge goes where the failure's row goes, a
\* child fails to where the failure's row goes and inherits what is reported
\* there.
CompleteNode ==
  /\ phase = "completing" /\ pending # << >>
  /\ LET completed == Head(pending)
         row == transitions[completed]
         failureRow == transitions[failure[completed]]
         ByteOf(n) == CHOOSE b \in Bytes : row[b] = n
     IN \E children \in Children(row) :
          /\ transitions' = [transitions EXCEPT ![completed] =
               [b \in Bytes |-> IF row[b] = 0 THEN failureRow[b] ELSE row[b]]]
          /\ failure' = [n \in Nodes |-> IF n \in Range(children)
                                         THEN failureRow[ByteOf(n)] ELSE failure[n]]
          /\ nodeOutputs' = [n \in Nodes |->
               IF n \in Range(children)
               THEN nodeOutputs[n] \o nodeOutputs[failureRow[ByteOf(n)]]
               ELSE nodeOutputs[n]]
          /\ pending' = Tail(pending) \o children
  /\ UNCHANGED <<patterns, phase, inserted, node, numbered, laidOut, walk>>

EndCompletion ==
  /\ phase = "completing" /\ pending = << >>
  /\ phase' = "numbering"
  /\ UNCHANGED <<patterns, inserted, node, trie, failure, pending, numbered, laidOut, walk>>

-----------------------------------------------------------------------------
(* number_reporting_states_last and the tables build_automaton fills.      *)

Silent == {n \in Nodes : nodeOutputs[n] = << >>}
Reporting == Nodes \ Silent

\* How many members of S come before n.
Rank(S, n) == Cardinality({m \in S : m < n})

Renumbered(n) == IF n \in Silent THEN Rank(Silent, n)
                 ELSE Cardinality(Silent) + Rank(Reporting, n)

NumberStates ==
  /\ phase = "numbering"
  /\ phase' = "layout" /\ node' = 0
  /\ firstReporting' = Cardinality(Silent)
  /\ table' = [s \in {Renumbered(n) : n \in Nodes} |->
                 LET source == CHOOSE n \in Nodes : Renumbered(n) = s
                 IN [b \in Bytes |-> Renumbered(transitions[source][b])]]
  /\ begins' = <<0>> /\ flat' = << >>
  /\ UNCHANGED <<patterns, inserted, trie, failure, pending, walk>>

\* The slot of a node that reports follows the slot of the one before it.
LayOutNode ==
  /\ phase = "layout" /\ node \in Nodes
  /\ IF node \in Silent THEN UNCHANGED laidOut
     ELSE /\ begins' = Append(begins, Len(flat) + Len(nodeOutputs[node]))
          /\ flat' = flat \o nodeOutputs[node]
  /\ node' = node + 1
  /\ UNCHANGED <<patterns, phase, inserted, trie, failure, pending, numbered, walk>>

EndLayout ==
  /\ phase = "layout" /\ node \notin Nodes
  /\ phase' = "walking"
  /\ UNCHANGED <<patterns, inserted, node, trie, failure, pending, numbered, laidOut, walk>>

-----------------------------------------------------------------------------
(* The loop of walk_without_interleaving, and of every slice of a window.  *)

WalkByte ==
  /\ phase = "walking" /\ Len(consumed) < MaxText
  /\ \E byte \in Bytes : /\ state' = table[state][byte]
                         /\ consumed' = Append(consumed, byte)
  /\ UNCHANGED <<patterns, phase, inserted, node, trie, failure, pending, numbered, laidOut>>

\* The bytes are walked; TLC reports any other state without a step.
Walked == phase = "walking" /\ Len(consumed) = MaxText /\ UNCHANGED vars

Next == \/ InsertByte \/ EndPattern
        \/ BeginCompletion \/ CompleteNode \/ EndCompletion
        \/ NumberStates \/ LayOutNode \/ EndLayout
        \/ WalkByte \/ Walked

Spec == Init /\ [][Next]_vars

\* collect_matches: the patterns reported in the present state.
Collected ==
  IF state < firstReporting THEN << >>
  ELSE LET slot == state - firstReporting
       IN SubSeq(flat, begins[slot + 1] + 1, begins[slot + 2])

-----------------------------------------------------------------------------
(* Properties.                                                             *)

EndsWith(text, p) == Len(p) <= Len(text) /\ SubSeq(text, Len(text) - Len(p) + 1, Len(text)) = p

\* After any bytes, the patterns reported are those that end there: each once,
\* including the ones that end inside a longer pattern.
ReportsExactly ==
  phase = "walking" =>
    /\ Range(Collected) = {p \in DOMAIN patterns :
                             patterns[p] # << >> /\ EndsWith(consumed, patterns[p])}
    /\ IsInjective(Collected)
=============================================================================
