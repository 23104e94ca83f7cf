----------------------------- MODULE MCExtraction -----------------------------
(***************************************************************************)
(* Extraction of file maps of up to two results: every kind of result      *)
(* before and after an external one that does not reach the data's end.    *)
(***************************************************************************)
EXTENDS Extraction

Entry(k, n) == [kind |-> k, narrow |-> n]
External == Entry("external", TRUE)
MCMaps ==
  {<< External, Entry("internal", FALSE) >>, << Entry("internal", TRUE), External >>,
   << Entry("declined", TRUE), Entry("none", TRUE), Entry("unknown", FALSE) >>}
=============================================================================
