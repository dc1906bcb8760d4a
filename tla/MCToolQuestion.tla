----------------------------- MODULE MCToolQuestion -----------------------------
(* A small instance: one text of each sort, lists of up to one choice too many. *)
EXTENDS ToolQuestion

Text(n, e, c) == [length |-> n, escapes |-> e, clean |-> c]

\* Empty, plain, with a newline, with a control character, too long.
MCTexts == {Text(0, 0, TRUE), Text(1, 0, TRUE), Text(2, 1, TRUE), Text(1, 0, FALSE), Text(4, 0, TRUE)}
MCChoices ==
  {<<>>, <<Text(1, 0, TRUE)>>, <<Text(2, 1, TRUE)>>, <<Text(0, 0, TRUE)>>, <<Text(1, 0, FALSE)>>,
   <<Text(4, 0, TRUE)>>, <<Text(1, 0, TRUE), Text(2, 1, TRUE)>>,
   <<Text(1, 0, TRUE), Text(1, 0, TRUE), Text(1, 0, TRUE)>>}
MCFixedLength == [m \in Fixed |-> IF m = "tool output too large" THEN 3 ELSE 2]
=============================================================================
