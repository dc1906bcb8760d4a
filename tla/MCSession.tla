------------------------------- MODULE MCSession -------------------------------
\* An instance of Session for TLC.
EXTENDS Session

\* Responses: text, replay data only, one call, two calls with ids that repeat
\* between responses.
MCPartLists ==
  {<<>>, <<TextPart("Clean")>>, <<CallPart("a", 0)>>,
   <<CallPart("b", 0), TextPart("Empty"), CallPart("a", 1)>>}

\* Nothing reported, one field, both; two of the larger counts overflow.
MCUsages ==
  {[input |-> {}, cache_read |-> {}], [input |-> {2}, cache_read |-> {}],
   [input |-> {1}, cache_read |-> {2}]}
=============================================================================
