------------------------------ MODULE PromptCheck ------------------------------
(***************************************************************************)
(* One prompt, from the history to an issued request: the provider         *)
(* (DefaultPromptProvider::prepare, or any other host code), prepare_prompt*)
(* and build_model_request with validate_tool_exchange.  The host's        *)
(* history is trusted, so it can be anything its public types can hold;    *)
(* another provider can return any messages.  The content of a summary is  *)
(* its length in bytes, the offsets at which a character begins or the     *)
(* text ends, and the offsets of its control characters, because           *)
(* summary_message cuts it.                                                *)
(***************************************************************************)
EXTENDS Messages

CONSTANTS
  SystemTexts,   \* system prompts of the default provider
  Ceiling,       \* MAX_MODEL_MESSAGE_TEXT_BYTES and BoundedText::MAX_BYTES
  Prefix,        \* SUMMARY_PREFIX.len()
  MaxItems,      \* bound: items of the history
  MaxMessages    \* bound: messages of another provider's prompt

ASSUME PromptAssumption ==
  /\ SystemTexts \subseteq BoundedTexts /\ MaxItems \in Nat /\ MaxMessages \in Nat
  /\ Ceiling \in Nat /\ Prefix \in 1 .. Ceiling

\* UTF-8: characters of one to four bytes, control characters of one or two.
Contents ==
  {t \in [length : 0 .. Ceiling, boundary : SUBSET (0 .. Ceiling), control : SUBSET (0 .. Ceiling)] :
     /\ t.boundary \subseteq 0 .. t.length
     /\ {0, t.length} \subseteq t.boundary
     /\ \A n \in 0 .. t.length : \E b \in t.boundary : b <= n /\ n < b + 4
     /\ t.control \subseteq t.boundary \ {t.length}
     /\ \A c \in t.control : {c + 1, c + 2} \cap t.boundary # {}}

VARIABLES
  provider,   \* "Default" or "Custom"
  system,     \* the default provider's system prompt
  history,    \* HistoryView: base and appended
  phase,      \* "Host", "Prepare", "Cut", "Build", "Check", "Issued" or "Failed"
  next,       \* the item or message looked at
  end,        \* where the content of a summary is cut
  messages,   \* PreparedPrompt::messages
  scan,       \* locals of validate_tool_exchange
  error       \* PromptError, or "Request" for a rejected request

promptVars == <<provider, system, history, phase, next, end, messages, scan, error>>

PromptInit ==
  /\ provider \in {"Default", "Custom"}
  /\ system \in SystemTexts
  /\ history = <<>>
  /\ phase = "Host"
  /\ next = 1
  /\ end = 0
  /\ messages = <<>>
  /\ scan = ScanStart
  /\ error = "None"

Fail(e) == phase' = "Failed" /\ error' = e

-----------------------------------------------------------------------------
(* The host. *)

\* An item comes into the history, from a loop's report or from the host's own hand.
HostAppends(h) ==
  /\ phase = "Host" /\ provider = "Default" /\ Len(history) < MaxItems
  /\ history' = Append(history, h)
  /\ UNCHANGED <<provider, system, phase, next, end, messages, scan, error>>

\* Another provider puts a message into its prompt.
CustomAppends(m) ==
  /\ phase = "Host" /\ provider = "Custom" /\ Len(messages) < MaxMessages
  /\ messages' = Append(messages, m)
  /\ UNCHANGED <<provider, system, history, phase, next, end, scan, error>>

CustomReturns ==
  /\ phase = "Host" /\ provider = "Custom"
  /\ IF messages = <<>> THEN Fail("EmptyPrompt") ELSE phase' = "Check" /\ UNCHANGED error
  /\ UNCHANGED <<provider, system, history, next, end, messages, scan>>

-----------------------------------------------------------------------------
(* DefaultPromptProvider::prepare. *)

\* It looks at its token and deadline once, before it is first polled.
PrepareRefuses ==
  /\ phase = "Host" /\ provider = "Default"
  /\ Fail("Cancelled")
  /\ UNCHANGED <<provider, system, history, next, end, messages, scan>>

PrepareBegins ==
  /\ phase = "Host" /\ provider = "Default"
  /\ phase' = "Prepare"
  /\ messages' = IF system = "Empty" THEN <<>> ELSE <<[role |-> "System", text |-> system]>>
  /\ UNCHANGED <<provider, system, history, next, end, scan, error>>

\* One turn of the loop over the history, for an item that is not a summary.
ProjectItem ==
  /\ phase = "Prepare" /\ next <= Len(history) /\ history[next].item # "Summary"
  /\ IF Projects(history[next])
       THEN /\ messages' = Append(messages, MessageOf(history[next]))
            /\ next' = next + 1
            /\ UNCHANGED <<phase, error>>
       ELSE Fail("InvalidHistory") /\ UNCHANGED <<messages, next>>
  /\ UNCHANGED <<provider, system, history, end, scan>>

\* summary_message: what fits with the prefix stays whole.
MeasureSummary ==
  /\ phase = "Prepare" /\ next <= Len(history) /\ history[next].item = "Summary"
  /\ IF Prefix + history[next].text.length > Ceiling
       THEN end' = Ceiling - Prefix /\ phase' = "Cut"
       ELSE end' = history[next].text.length /\ phase' = "Build"
  /\ UNCHANGED <<provider, system, history, next, messages, scan, error>>

is_char_boundary(n) == n \in history[next].text.boundary

\* Mutant: the cut moves back once more than it has to.
StepBack_once_more ==
  /\ phase = "Cut"
  /\ end' = IF end > 0 THEN end - 1 ELSE end
  /\ phase' = IF is_char_boundary(end) THEN "Build" ELSE "Cut"
  /\ UNCHANGED <<provider, system, history, next, messages, scan, error>>

\* One turn of the loop that looks for a boundary.
StepBack ==
  /\ phase = "Cut"
  /\ IF end > 0 /\ ~is_char_boundary(end)
       THEN end' = end - 1 /\ UNCHANGED phase
       ELSE phase' = "Build" /\ UNCHANGED end
  /\ UNCHANGED <<provider, system, history, next, messages, scan, error>>

\* What is left of a summary, as ModelMessage::system sees it.
CutText ==
  IF Prefix + end > Ceiling THEN "Long"
  ELSE IF \E c \in history[next].text.control : c < end THEN "Raw"
  ELSE "Clean"

\* The slice, which panics off a boundary, and ModelMessage::system.
BuildSummary ==
  LET message == [role |-> "System", text |-> CutText]
  IN  /\ phase = "Build"
      /\ IF is_char_boundary(end) /\ ValidMessage(message)
           THEN /\ messages' = Append(messages, message)
                /\ next' = next + 1 /\ phase' = "Prepare"
                /\ UNCHANGED error
           ELSE /\ Fail(IF is_char_boundary(end) THEN "InvalidHistory" ELSE "Panicked")
                /\ UNCHANGED <<messages, next>>
      /\ UNCHANGED <<provider, system, history, end, scan>>

PrepareEnds ==
  /\ phase = "Prepare" /\ next > Len(history)
  /\ next' = 1
  /\ IF messages = <<>> THEN Fail("EmptyPrompt") ELSE phase' = "Check" /\ UNCHANGED error
  /\ UNCHANGED <<provider, system, history, end, messages, scan>>

-----------------------------------------------------------------------------
(* ModelRequest::with_validated_tools. *)

CheckMessage ==
  /\ phase = "Check" /\ next <= Len(messages)
  /\ scan' = ScanMessage(scan, messages[next])
  /\ IF scan'.error = "None" THEN next' = next + 1 /\ UNCHANGED <<phase, error>>
                             ELSE Fail("Request") /\ UNCHANGED next
  /\ UNCHANGED <<provider, system, history, end, messages>>

CheckEnds ==
  /\ phase = "Check" /\ next > Len(messages)
  /\ scan' = ScanEnd(scan)
  /\ IF scan'.error = "None" THEN phase' = "Issued" /\ UNCHANGED error ELSE Fail("Request")
  /\ UNCHANGED <<provider, system, history, next, end, messages>>

PromptDone == phase \in {"Issued", "Failed"} /\ UNCHANGED promptVars

\* What the public types can hold, with the parts in use.
UsedItems ==
  [item : {"User"}, text : BoundedTexts]
    \cup [item : {"Summary"}, text : Contents]
    \cup [item : {"Assistant"}, parts : PartLists, replay : BOOLEAN]
    \cup [item : {"ToolResult"}, id : CallIds]
UsedMessages ==
  [role : {"System", "User"}, text : Texts]
    \cup [role : {"Assistant"}, parts : PartLists, replay : BOOLEAN]
    \cup [role : {"Tool"}, id : CallIds]

PromptNext ==
  \/ \E h \in UsedItems : HostAppends(h)
  \/ \E m \in UsedMessages : CustomAppends(m)
  \/ CustomReturns
  \/ PrepareRefuses
  \/ PrepareBegins
  \/ ProjectItem
  \/ MeasureSummary
  \/ StepBack
  \/ BuildSummary
  \/ PrepareEnds
  \/ CheckMessage
  \/ CheckEnds
  \/ PromptDone

PromptSpec == PromptInit /\ [][PromptNext]_promptVars

-----------------------------------------------------------------------------
(* Properties. *)

\* The check decides exactly well-formedness, whoever prepared the prompt: what goes to the
\* model has valid messages, and behind every assistant message the results of its calls,
\* each once (prompt.md, Core Enforcement); and nothing else is turned away, results in any
\* order and ids used again by a later exchange included.
CheckDecides ==
  /\ phase = "Issued" => messages # <<>> /\ WellFormed(messages)
  /\ error = "Request" => ~WellFormed(messages)

\* A host that wrote its history out and read it back, or an adapter that did so
\* with the request, gets the same prompt: whatever was issued, reloads, and is
\* issued again with the same messages.
WireIsInvisible ==
  phase = "Issued" =>
    /\ \A i \in DOMAIN messages :
         MessageReloads(messages[i]) /\ ReloadedMessage(messages[i]) = messages[i]
    /\ \A i \in DOMAIN history : history[i].item # "Summary" =>
         ItemReloads(history[i]) /\ MessageOf(Reloaded(history[i])) = MessageOf(history[i])

\* Of a summary's content everything is shown that fits, whole characters only, and it is
\* refused for a control character that the cut did not remove and for nothing else
\* (prompt.md: "only the content tail is truncated").
CutIsLongest ==
  /\ phase = "Build" =>
       /\ Prefix + end <= Ceiling
       /\ is_char_boundary(end)
       /\ \A b \in history[next].text.boundary : b > end => Prefix + b > Ceiling
  /\ error = "InvalidHistory" /\ history[next].item = "Summary" =>
       \E c \in history[next].text.control : Prefix + c < Ceiling
=============================================================================
