-------------------------------- MODULE Messages --------------------------------
(***************************************************************************)
(* The values between a host's history and a model request: texts,         *)
(* assistant parts, messages, history items (src/value.rs,                 *)
(* src/model/message.rs, src/history.rs), how the default prompt provider  *)
(* projects an item (src/prompt.rs) and how ModelRequest checks one more   *)
(* message (src/model/request.rs).                                         *)
(*                                                                         *)
(* A text is the class the rules tell apart: Empty, Clean, Raw (some       *)
(* control character other than newline and tab) or Long (over the 256 KiB *)
(* ceiling, which a BoundedText cannot be).                                *)
(***************************************************************************)
EXTENDS Naturals, Sequences, FiniteSets

CONSTANTS
  CallIds,    \* ToolCallIds
  PartLists   \* the lists of assistant parts in use

Texts        == {"Empty", "Clean", "Raw", "Long"}
BoundedTexts == Texts \ {"Long"}

\* AssistantPart.  A part has all fields, those of another kind empty.
Parts ==
  [part : {"Text"}, text : Texts, id : {"None"}, index : {0}]
    \cup [part : {"Reasoning"}, text : {"Empty"}, id : {"None"}, index : {0}]
    \cup [part : {"ToolCall"}, text : {"Empty"}, id : CallIds, index : Nat]

ASSUME MessagesAssumption == PartLists \subseteq Seq(Parts) /\ "None" \notin CallIds

TextPart(t)   == [part |-> "Text", text |-> t, id |-> "None", index |-> 0]
CallPart(c, n) == [part |-> "ToolCall", text |-> "Empty", id |-> c, index |-> n]

\* HistoryItem, without the fields a prompt does not show; with `replay` an assistant item
\* becomes ModelMessage::AssistantWithReplay.
UserHistory(t)            == [item |-> "User", text |-> t]
AssistantHistory(ps, r)   == [item |-> "Assistant", parts |-> ps, replay |-> r]
ToolResultHistory(c)      == [item |-> "ToolResult", id |-> c]
SummaryHistory(t)         == [item |-> "Summary", text |-> t]

-----------------------------------------------------------------------------
(* Validation of one message. *)

\* Mutant: a lone CR passes as white space.
valid_text_any_control(t, allowEmpty) == t \in {"Clean", "Raw"} \/ (allowEmpty /\ t = "Empty")

\* valid_text at the absolute ceiling.
valid_text(t, allowEmpty) == t = "Clean" \/ (allowEmpty /\ t = "Empty")

\* normalize_model_text: control characters become white space.
normalize_model_text(t) == IF t = "Raw" THEN "Clean" ELSE t

normalize_parts(ps) == [i \in DOMAIN ps |-> [ps[i] EXCEPT !.text = normalize_model_text(@)]]

\* AssistantPart::validate.
ValidPart(p) == p.part = "Text" => valid_text(p.text, TRUE)

\* as_tool_call of every part.
CallPositions(ps) == {i \in DOMAIN ps : ps[i].part = "ToolCall"}
CallIdsOf(ps)     == {ps[i].id : i \in CallPositions(ps)}

\* The calls before position i, as their number.
CallsBefore(ps, i) == Cardinality({j \in CallPositions(ps) : j < i})

\* validate_tool_call_order: indices 0, 1, 2 ... in order, distinct ids.
validate_tool_call_order(ps) ==
  /\ \A i \in DOMAIN ps : ValidPart(ps[i])
  /\ \A i \in CallPositions(ps) :
       /\ ps[i].index = CallsBefore(ps, i)
       /\ \A j \in CallPositions(ps) : j < i => ps[j].id # ps[i].id

\* ModelMessage::validate.
ValidMessage(m) ==
  CASE m.role = "Assistant" -> (m.parts = <<>> => m.replay) /\ validate_tool_call_order(m.parts)
    [] m.role = "Tool"      -> TRUE
    [] OTHER                -> valid_text(m.text, FALSE)

-----------------------------------------------------------------------------
(* The default projection of one history item. *)

\* assistant_with_provider_replay before its validation.
AssistantMessage(ps, replay) ==
  [role |-> "Assistant", parts |-> normalize_parts(ps), replay |-> replay]

\* The message of an item.  A summary's prefix makes its text non-empty; a Raw summary
\* has its control character before the place where summary_message would cut.
MessageOf(h) ==
  CASE h.item = "User"       -> [role |-> "User", text |-> h.text]
    [] h.item = "Summary"    -> [role |-> "System", text |-> IF h.text = "Empty" THEN "Clean" ELSE h.text]
    [] h.item = "Assistant"  -> AssistantMessage(h.parts, h.replay)
    [] h.item = "ToolResult" -> [role |-> "Tool", id |-> h.id]

\* Assistant and summary messages are built by checked constructors, the others not.
Projects(h) == h.item \in {"Assistant", "Summary"} => ValidMessage(MessageOf(h))

-----------------------------------------------------------------------------
(* validate_tool_exchange, one message at a time. *)

ScanStart == [pending |-> {}, completed |-> {}, error |-> "None"]

ScanTool(s, c) ==
  IF c \in s.completed THEN [s EXCEPT !.error = "DuplicateToolResult"]
  ELSE IF c \notin s.pending THEN [s EXCEPT !.error = "OrphanToolResult"]
  ELSE [s EXCEPT !.pending = @ \ {c}, !.completed = @ \cup {c}]

\* Mutant: the answered calls of the exchange before are still remembered.
ScanOther_keeps_completed(s, m) ==
  IF s.pending # {} THEN [s EXCEPT !.error = "IncompleteToolExchange"]
  ELSE IF ~ValidMessage(m) THEN [s EXCEPT !.error = "InvalidMessage"]
  ELSE [s EXCEPT !.pending = IF m.role = "Assistant" THEN CallIdsOf(m.parts) ELSE {}]

ScanOther(s, m) ==
  IF s.pending # {} THEN [s EXCEPT !.error = "IncompleteToolExchange"]
  ELSE IF ~ValidMessage(m) THEN [s EXCEPT !.error = "InvalidMessage"]
  ELSE [s EXCEPT !.pending = IF m.role = "Assistant" THEN CallIdsOf(m.parts) ELSE {},
                 !.completed = {}]

ScanMessage(s, m) == IF m.role = "Tool" THEN ScanTool(s, m.id) ELSE ScanOther(s, m)

ScanEnd(s) == IF s.pending # {} THEN [s EXCEPT !.error = "IncompleteToolExchange"] ELSE s

-----------------------------------------------------------------------------
(* What the check has to decide, said without a scan. *)

\* The tool messages after position i, up to the next message of another role.
RunAfter(ms, i) ==
  {j \in DOMAIN ms : j > i /\ \A k \in DOMAIN ms : i < k /\ k <= j => ms[k].role = "Tool"}

CallsAt(ms, i) == IF ms[i].role = "Assistant" THEN CallIdsOf(ms[i].parts) ELSE {}

\* Every message is valid, and behind each stand exactly the results of its
\* calls, each once, in any order.
WellFormed(ms) ==
  /\ \A i \in DOMAIN ms : ValidMessage(ms[i])
  /\ 1 \in DOMAIN ms => ms[1].role # "Tool"
  /\ \A i \in DOMAIN ms : ms[i].role # "Tool" =>
       /\ {ms[j].id : j \in RunAfter(ms, i)} = CallsAt(ms, i)
       /\ \A j, k \in RunAfter(ms, i) : ms[j].id = ms[k].id => j = k

-----------------------------------------------------------------------------
(* The wire form (the Serialize and Deserialize implementations). *)

\* AssistantPart's Deserialize normalizes text, then validates.
PartsReload(ps) == \A i \in DOMAIN ps : ValidPart(normalize_parts(ps)[i])

\* A HistoryItem, written and read back; only assistant text is touched.
ItemReloads(h) == h.item = "Assistant" => PartsReload(h.parts)
Reloaded(h) == IF h.item = "Assistant" THEN [h EXCEPT !.parts = normalize_parts(@)] ELSE h

\* A ModelMessage, written and read back: the parts are read first, then the message is
\* validated, by assistant_with_provider_replay when it has replay data.
MessageReloads(m) ==
  IF m.role = "Assistant"
    THEN PartsReload(m.parts) /\ ValidMessage(AssistantMessage(m.parts, m.replay))
    ELSE ValidMessage(m)
ReloadedMessage(m) == IF m.role = "Assistant" THEN AssistantMessage(m.parts, m.replay) ELSE m
=============================================================================
