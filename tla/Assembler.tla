------------------------------- MODULE Assembler -------------------------------
(***************************************************************************)
(* Assembly of one provider stream into a ModelResponse                    *)
(* (src/model/driver/assembler.rs, value.rs::normalize_model_text,         *)
(* model/response.rs, model/message.rs).  The stream is the environment:   *)
(* any event in any order, cut into deltas anywhere.                       *)
(*                                                                         *)
(* Characters are what normalization tells apart, one byte each.  A tool   *)
(* call's argument text is its byte count; whether it parses to a JSON     *)
(* object within max_tool_arguments_bytes is the provider's choice.        *)
(***************************************************************************)
EXTENDS Naturals, Sequences, FiniteSets

CONSTANTS
  Chars,          \* characters the provider uses, a subset of Alphabet
  MaxDelta,       \* MAX_MODEL_EVENT_TEXT_BYTES
  MaxText,        \* max_model_text_bytes
  MaxReasoning,   \* max_model_reasoning_bytes
  MaxArguments,   \* MAX_JSON_BYTES
  ToolIds,        \* tool call ids the provider may use
  Offered,        \* names of the request's tools
  Unoffered,      \* other names
  MaxToolCalls,   \* max_tool_calls_per_response
  MaxEvents       \* bound on the events of the stream

\* "Ch" stands for every character that is kept, the tab included.
Alphabet == {"CR", "LF", "Ctrl", "Ch", "Space"}
Channels == {"Text", "Reasoning"}
Reasons  == {"Stop", "ToolCalls", "Length", "ContentFiltered", "Refused", "Unknown"}
Budget   == [c \in Channels |-> IF c = "Text" THEN MaxText ELSE MaxReasoning]

ASSUME AssemblerAssumption ==
  /\ Chars \subseteq Alphabet
  /\ MaxDelta \in Nat /\ MaxText \in Nat /\ MaxReasoning \in Nat /\ MaxArguments \in Nat
  /\ MaxToolCalls \in Nat /\ MaxEvents \in Nat
  /\ Offered \cap Unoffered = {}

VARIABLES
  status,         \* "Open", "Refused" (push or finish failed) or "Response"
  slots,          \* Assembler::slots
  text,           \* text and reasoning
  endedWithCr,    \* text_ended_with_cr and reasoning_ended_with_cr
  tools,          \* Assembler::tools
  usage,          \* whether usage is set
  replay,         \* whether provider_replay is set
  finishReason,   \* {} or the reason of Finish
  parts,          \* the parts of the ModelResponse
  events,         \* history: number of events pushed
  raw,            \* history: accepted deltas, concatenated
  forwarded       \* history: the progress deltas push returned, concatenated

assemblerVars == <<status, slots, text, endedWithCr, tools, usage, replay, finishReason, parts,
                   events, raw, forwarded>>

AssemblerInit ==
  /\ status = "Open"
  /\ slots = <<>>
  /\ text = [c \in Channels |-> <<>>]
  /\ endedWithCr = [c \in Channels |-> FALSE]
  /\ tools = <<>>
  /\ usage = FALSE
  /\ replay = FALSE
  /\ finishReason = {}
  /\ parts = <<>>
  /\ events = 0
  /\ raw = [c \in Channels |-> <<>>]
  /\ forwarded = [c \in Channels |-> <<>>]

-----------------------------------------------------------------------------
(* Text. *)

Translate(c) == CASE c = "CR" -> "LF" [] c = "Ctrl" -> "Space" [] OTHER -> c

\* normalize_model_text: the peeking loop.
normalize_model_text[s \in Seq(Alphabet)] ==
  IF s = <<>> THEN <<>>
  ELSE LET skip == IF Len(s) > 1 /\ s[1] = "CR" /\ s[2] = "LF" THEN 2 ELSE 1
       IN  <<Translate(s[1])>> \o normalize_model_text[SubSeq(s, skip + 1, Len(s))]

\* Mutant: each delta is normalized by itself.
normalized_delta_alone(delta, afterCr) == normalize_model_text[delta]

\* normalized_delta: the LF of a CRLF cut between two deltas is dropped.
normalized_delta(delta, afterCr) ==
  normalize_model_text[
    IF afterCr /\ delta # <<>> /\ delta[1] = "LF" THEN Tail(delta) ELSE delta]

\* An empty delta leaves the flag alone.
EndsWithCr(delta, before) == IF delta = <<>> THEN before ELSE delta[Len(delta)] = "CR"

-----------------------------------------------------------------------------
(* push. *)

\* Another event while the assembler is open.
Taking == status = "Open" /\ events < MaxEvents /\ finishReason = {}

Accept == events' = events + 1 /\ UNCHANGED <<status, parts>>

\* push, or later finish, returns an error: the attempt is over.
PushFails ==
  /\ status' = "Refused"
  /\ events' = events + 1
  /\ UNCHANGED <<slots, text, endedWithCr, tools, usage, replay, finishReason, parts, raw, forwarded>>

\* A channel gets one part, where its first visible delta arrived.
NewSlot(c) == text[c] = <<>>

\* append_bounded; the budget counts normalized bytes.
OverBudget(c, d) == Len(text[c]) + Len(d) > Budget[c]

\* Mutant: the progress goes out although the text is over its budget.
Delta_forwards_first(c, delta) ==
  LET d == normalized_delta(delta, endedWithCr[c])
  IN  /\ Taking
      /\ forwarded' = [forwarded EXCEPT ![c] = @ \o d]
      /\ IF OverBudget(c, d)
           THEN /\ status' = "Refused"
                /\ events' = events + 1
                /\ UNCHANGED <<slots, text, endedWithCr, parts, raw>>
           ELSE /\ Accept
                /\ endedWithCr' = [endedWithCr EXCEPT ![c] = EndsWithCr(delta, @)]
                /\ raw' = [raw EXCEPT ![c] = @ \o delta]
                /\ slots' = IF d # <<>> /\ NewSlot(c) THEN Append(slots, [part |-> c]) ELSE slots
                /\ text' = [text EXCEPT ![c] = @ \o d]
      /\ UNCHANGED <<tools, usage, replay, finishReason>>

\* TextDelta and ReasoningDelta.
Delta(c, delta) ==
  LET d == normalized_delta(delta, endedWithCr[c])
  IN  /\ Taking
      /\ IF Len(delta) > MaxDelta \/ OverBudget(c, d)
           THEN PushFails
           ELSE /\ Accept
                /\ endedWithCr' = [endedWithCr EXCEPT ![c] = EndsWithCr(delta, @)]
                /\ raw' = [raw EXCEPT ![c] = @ \o delta]
                /\ slots' = IF d # <<>> /\ NewSlot(c) THEN Append(slots, [part |-> c]) ELSE slots
                /\ text' = [text EXCEPT ![c] = @ \o d]
                /\ forwarded' = [forwarded EXCEPT ![c] = @ \o d]
                /\ UNCHANGED <<tools, usage, replay, finishReason>>

Started(id) == \E i \in DOMAIN tools : tools[i].id = id

MayStart(id, name) == name \in Offered /\ Len(tools) < MaxToolCalls /\ ~Started(id)

ToolCallStart(id, name) ==
  /\ Taking
  /\ IF ~MayStart(id, name)
       THEN PushFails
       ELSE /\ Accept
            /\ tools' = Append(tools, [id |-> id, name |-> name, arguments |-> 0, complete |-> FALSE,
                                       index |-> Len(tools)])
            /\ slots' = Append(slots, [part |-> "Tool", index |-> Len(tools) + 1])
            /\ UNCHANGED <<text, endedWithCr, usage, replay, finishReason, raw, forwarded>>

\* tool_mut.
Position(id) == CHOOSE i \in DOMAIN tools : tools[i].id = id

\* Started and not yet ended.
Running(id) == Started(id) /\ ~tools[Position(id)].complete

ToolCallArgumentsDelta(id, bytes) ==
  /\ Taking
  /\ IF bytes > MaxDelta \/ ~Running(id) \/ tools[Position(id)].arguments + bytes > MaxArguments
       THEN PushFails
       ELSE /\ Accept
            /\ tools' = [tools EXCEPT ![Position(id)].arguments = @ + bytes]
            /\ UNCHANGED <<slots, text, endedWithCr, usage, replay, finishReason, raw, forwarded>>

\* parses: the arguments are a JSON object within max_tool_arguments_bytes.
ToolCallEnd(id, parses) ==
  /\ Taking
  /\ IF ~Running(id) \/ tools[Position(id)].arguments = 0 \/ ~parses
       THEN PushFails
       ELSE /\ Accept
            /\ tools' = [tools EXCEPT ![Position(id)].complete = TRUE]
            /\ UNCHANGED <<slots, text, endedWithCr, usage, replay, finishReason, raw, forwarded>>

UsageEvent ==
  /\ Taking
  /\ IF usage
       THEN PushFails
       ELSE /\ Accept
            /\ usage' = TRUE
            /\ UNCHANGED <<slots, text, endedWithCr, tools, replay, finishReason, raw, forwarded>>

ProviderReplayEvent ==
  /\ Taking
  /\ IF replay
       THEN PushFails
       ELSE /\ Accept
            /\ replay' = TRUE
            /\ UNCHANGED <<slots, text, endedWithCr, tools, usage, finishReason, raw, forwarded>>

\* Mutant: Finish does not look at the tool calls.
AllComplete_unchecked == TRUE

AllComplete == \A i \in DOMAIN tools : tools[i].complete

Finish(reason) ==
  /\ Taking
  /\ IF ~AllComplete
       THEN PushFails
       ELSE /\ Accept
            /\ finishReason' = {reason}
            /\ UNCHANGED <<slots, text, endedWithCr, tools, usage, replay, raw, forwarded>>

\* Any event after Finish.
EventAfterFinish ==
  /\ status = "Open" /\ events < MaxEvents
  /\ finishReason # {}
  /\ PushFails

-----------------------------------------------------------------------------
(* finish, at the end of the stream. *)

Part(slot) ==
  IF slot.part = "Tool"
    THEN LET t == tools[slot.index]
         IN  [part |-> "Tool", id |-> t.id, name |-> t.name, index |-> t.index]
    ELSE [part |-> slot.part, text |-> text[slot.part]]

\* The finish reason agrees with the content, and there is content.
Agrees(reason) ==
  /\ tools # <<>> => reason \in {"ToolCalls", "Unknown"}
  /\ reason = "ToolCalls" => tools # <<>>
  /\ reason \in {"ContentFiltered", "Refused"} => text["Text"] # <<>>
  /\ slots # <<>> \/ replay

EndOfStream ==
  /\ status = "Open"
  /\ IF \E reason \in finishReason : Agrees(reason)
       THEN /\ status' = "Response"
            /\ parts' = [i \in DOMAIN slots |-> Part(slots[i])]
            /\ UNCHANGED <<slots, text, endedWithCr, tools, usage, replay, finishReason, events, raw,
                           forwarded>>
       ELSE PushFails

AssemblerDone == status # "Open" /\ UNCHANGED assemblerVars

Deltas == UNION {[1..n -> Chars] : n \in 0..MaxDelta + 1}

AssemblerNext ==
  \/ \E c \in Channels, delta \in Deltas : Delta(c, delta)
  \/ \E id \in ToolIds, name \in Offered \cup Unoffered : ToolCallStart(id, name)
  \/ \E id \in ToolIds, bytes \in 0..MaxDelta + 1 : ToolCallArgumentsDelta(id, bytes)
  \/ \E id \in ToolIds, parses \in BOOLEAN : ToolCallEnd(id, parses)
  \/ UsageEvent
  \/ ProviderReplayEvent
  \/ \E reason \in Reasons : Finish(reason)
  \/ EventAfterFinish
  \/ EndOfStream
  \/ AssemblerDone

AssemblerSpec == AssemblerInit /\ [][AssemblerNext]_assemblerVars

-----------------------------------------------------------------------------
(* Properties. *)

\* Reference: each LF that follows a CR is dropped, and what is kept is translated, in its place.
Kept(s)     == {i \in DOMAIN s : ~(s[i] = "LF" /\ i > 1 /\ s[i - 1] = "CR")}
Place(s, i) == Cardinality({k \in Kept(s) : k <= i})

IsCanonical(t, s) ==
  /\ Len(t) = Cardinality(Kept(s))
  /\ \A i \in Kept(s) : t[Place(s, i)] = Translate(s[i])

\* Where the provider cuts its text into deltas is invisible: the assembled text
\* is the normalization of everything received, CRLF pairs cut by an event
\* boundary (with empty deltas between, even) included.
ChunkingInvisible == \A c \in Channels : IsCanonical(text[c], raw[c])

\* The progress deltas the host sees, put together, are the text of the response:
\* nothing refused was shown, and nothing assembled was not.
ProgressIsText == forwarded = text

CallParts == {i \in DOMAIN parts : parts[i].part = "Tool"}

\* Every tool call that was started: once, complete, in the order of the starts, with
\* consecutive indices and distinct ids, for offered tools.
HoldsCalls ==
  /\ \A i \in CallParts : parts[i].index < Len(tools)
  /\ \A i, j \in CallParts : i < j => parts[i].index < parts[j].index /\ parts[i].id # parts[j].id
  /\ \A k \in DOMAIN tools :
       /\ tools[k].complete /\ tools[k].arguments > 0 /\ tools[k].name \in Offered
       /\ \E i \in CallParts : /\ parts[i].id = tools[k].id /\ parts[i].name = tools[k].name
                               /\ parts[i].index = k - 1

\* All the text of each channel, in one non-empty part.
HoldsText ==
  \A c \in Channels :
    LET held == {i \in DOMAIN parts : parts[i].part = c}
    IN  IF text[c] = <<>> THEN held = {}
                          ELSE \E i \in held : held = {i} /\ parts[i].text = text[c]

\* What the runner relies on: tool calls only with a reason that lets it run them, always
\* some with ToolCalls, never an empty message without replay data.
Actionable ==
  /\ \E reason \in finishReason :
       CallParts # {} => reason \in {"ToolCalls", "Unknown"}
  /\ "ToolCalls" \in finishReason => CallParts # {}
  /\ parts # <<>> \/ replay

\* A response is what was streamed, all of it and nothing else, within the budgets, and
\* the runner can act on it: every text, every call that was started, in order.
ResponseIsStream ==
  /\ \A c \in Channels : Len(text[c]) <= Budget[c]
  /\ status = "Response" => HoldsCalls /\ HoldsText /\ Actionable
=============================================================================
