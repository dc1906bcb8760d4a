----------------------------- MODULE MCPromptCheck -----------------------------
\* Instances of PromptCheck for TLC.
EXTENDS PromptCheck

\* No part; a text that is normalized and one that is too long; one call, in and out of
\* order; two calls, in either order of their ids, and with a repeated id.
MCPartLists ==
  {<<>>, <<TextPart("Raw")>>, <<TextPart("Long")>>, <<CallPart("a", 0)>>, <<CallPart("a", 1)>>,
   <<CallPart("a", 0), CallPart("b", 1)>>, <<CallPart("a", 0), CallPart("a", 1)>>,
   <<CallPart("b", 0), TextPart("Clean"), CallPart("a", 1)>>}
=============================================================================
