---------------------------- MODULE LiteralSearch ----------------------------
(***************************************************************************)
(* A literal_matcher (lib/src/detail/literal_matcher.cpp) from its         *)
(* constructor, which builds the automaton, to the return of find, which   *)
(* searches with it.  What a walk over the automaton reports              *)
(* (LiteralAutomaton) is what the search takes a walk to see               *)
(* (LiteralMatcher): automata are built from every short list of patterns, *)
(* and long texts are searched for one list.                               *)
(***************************************************************************)
EXTENDS LiteralMatcher, SequencesExt

CONSTANTS Bytes, PatternLists, MaxText

ASSUME BytesAssumption == Bytes \subseteq Nat /\ Bytes # {} /\ IsFiniteSet(Bytes)
ASSUME PatternsAssumption == PatternLists \subseteq Seq(Seq(Bytes))
ASSUME WalkAssumption == MaxText \in Nat

VARIABLES patterns, built, index, read, node, transitions, nodeOutputs, failure, queue,
          table, firstReporting, begins, flat, state, consumed

automaton == <<patterns, built, index, read, node, transitions, nodeOutputs, failure, queue,
               table, firstReporting, begins, flat, state, consumed>>

A == INSTANCE LiteralAutomaton WITH phase <- built, pending <- queue

\* The automaton is there, and was tried on a text.
Constructed == built = "walking" /\ Len(consumed) = MaxText

\* The search starts with an automaton that LiteralAutomaton has nothing to add to.
AutomatonGiven ==
  /\ patterns = << >> /\ built = "walking" /\ index = 1 /\ read = 0 /\ node = 1
  /\ transitions = [n \in {0} |-> A!NoRow] /\ failure = [n \in {0} |-> 0]
  /\ nodeOutputs = [n \in {0} |-> << >>]
  /\ queue = << >> /\ table = transitions /\ firstReporting = 1
  /\ begins = <<0>> /\ flat = << >> /\ state = 0
  /\ consumed \in [1 .. MaxText -> {CHOOSE b \in Bytes : TRUE}]

SearchInit == Init /\ \/ size = 0 /\ cursor = 0 /\ ~interleaved /\ ~pooled /\ A!Init
                      \/ AutomatonGiven

Construct == ~Constructed /\ A!Next /\ UNCHANGED vars
Search == Constructed /\ Step /\ UNCHANGED automaton
SearchReturned == Constructed /\ Returned /\ UNCHANGED automaton

SearchNext == Construct \/ Search \/ SearchReturned

\* The search runs on threads that run, and the callback returns.
SearchSpec == SearchInit /\ [][SearchNext]_<<vars, automaton>> /\ WF_<<vars, automaton>>(Search)

-----------------------------------------------------------------------------
(* The properties of the automaton, under the names LiteralAutomaton states *)
(* them by.                                                                 *)

\* After any bytes, the patterns reported are those that end there: each once,
\* including the ones that end inside a longer pattern.
ReportsExactly == A!ReportsExactly

\* find returns: every round and every window moves the cursor on.
SearchReturns == Constructed ~> (phase = "returned")
=============================================================================
