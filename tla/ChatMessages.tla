---------------------------- MODULE ChatMessages -----------------------------
(***************************************************************************)
(* What the inference HTTP API makes of the messages of a request          *)
(* (bubblehub/http_api.py) before they reach a model, and what the shim    *)
(* for Anthropic clients makes of theirs (bubblehub/integrations).         *)
(*                                                                         *)
(* A text is the sequence of the pieces it was put together from: joining  *)
(* texts with line breaks is concatenation, and a text is blank when it    *)
(* has no piece.  An item of the list a client sends is a bare string, a   *)
(* message object, or something else, which is skipped.  The content of a  *)
(* message has a form: a string, an object or a list of parts.  A part of  *)
(* a list is a block {"text": ...} (their positions are the item's         *)
(* "blocks"), a block with input_text or output_text, or a bare string.    *)
(* "heading" is what a name or tool_call_id makes of "Tool result (...):". *)
(***************************************************************************)
EXTENDS Integers, Sequences, SequencesExt

CONSTANTS
  Blank,        \* a part without text
  Failed,       \* the text clients put where a turn of the assistant failed
  UnnamedTool,  \* the heading of an answer whose tool has no name
  Printed       \* what str() makes of an object

Message(role, text) == [role |-> role, text |-> text]

-----------------------------------------------------------------------------
(* One item.                                                               *)

\* _content_to_text and the strip that follows: parts without text go.
ContentToText(parts) ==
  FlattenSeq([i \in DOMAIN parts |-> IF parts[i] = Blank THEN <<>> ELSE <<parts[i]>>])

NormalizeRole(role) ==
  CASE role = "developer" -> "system"
    [] role \in {"system", "user", "assistant"} -> role
    [] OTHER -> "user"

IsFailedAssistantContent(text) == text = <<Failed>>

\* What an item adds: a message, a part of the system message, or nothing.
Role(item) == IF item.kind = "string" THEN "user" ELSE NormalizeRole(item.role)

Dropped(item) ==
  LET text == ContentToText(item.parts)
  IN  \/ item.kind = "other"
      \/ text = <<>>
      \/ item.kind = "message" /\ Role(item) = "assistant" /\ IsFailedAssistantContent(text)

Content(item) ==
  IF item.kind = "message" /\ item.role \in {"tool", "function"}
  THEN <<item.heading>> \o ContentToText(item.parts) ELSE ContentToText(item.parts)

Messages(item) ==
  IF Dropped(item) \/ Role(item) = "system" THEN <<>> ELSE <<Message(Role(item), Content(item))>>

SystemParts(item) ==
  IF Dropped(item) \/ Role(item) # "system" THEN <<>> ELSE <<Content(item)>>

-----------------------------------------------------------------------------
(* The whole list.                                                         *)

HasUser(ordered) == \E i \in DOMAIN ordered : ordered[i].role = "user"

\* A bug: an answer may come before any question.
Ordered_AnyStart(ordered, m) ==
  IF ordered # <<>> /\ Last(ordered).role = m.role
  THEN [ordered EXCEPT ![Len(ordered)].text = @ \o m.text]
  ELSE Append(ordered, m)

\* The body of the loop of _normalize_message_order.
Ordered(ordered, m) ==
  IF m.role = "assistant" /\ ~HasUser(ordered) THEN ordered
  ELSE IF ordered # <<>> /\ Last(ordered).role = m.role
       THEN [ordered EXCEPT ![Len(ordered)].text = @ \o m.text]
       ELSE Append(ordered, m)

NormalizeMessageOrder(messages, system) ==
  LET start == IF system = <<>> THEN <<>> ELSE <<Message("system", FlattenSeq(system))>>
      ordered[i \in 0..Len(messages)] ==
        IF i = 0 THEN start ELSE Ordered(ordered[i - 1], messages[i])
  IN  ordered[Len(messages)]

\* normalize_chat_messages.
NormalizeChatMessages(items) ==
  NormalizeMessageOrder(FlattenSeq([i \in DOMAIN items |-> Messages(items[i])]),
                        FlattenSeq([i \in DOMAIN items |-> SystemParts(items[i])]))

-----------------------------------------------------------------------------
(* The Anthropic shim makes messages of its own of those a client gives    *)
(* it, with a role and a text and nothing else; in a sandbox the session   *)
(* posts them to the API.                                                  *)

\* What create() keeps of a content: of a list the blocks with "text" alone.
AnthropicText(item) ==
  CASE item.form = "list" ->
         FlattenSeq([i \in DOMAIN item.parts |->
           IF item.parts[i] = Blank \/ i \notin item.blocks THEN <<>> ELSE <<item.parts[i]>>])
    [] item.form = "object" -> <<Printed>>
    [] OTHER -> ContentToText(item.parts)

AnthropicMessages(system, messages) ==
  (IF system = <<>> THEN <<>> ELSE <<Message("system", system)>>)
    \o [i \in DOMAIN messages |-> Message(messages[i].role, AnthropicText(messages[i]))]

PlainItem(role, text) ==
  [kind |-> "message", role |-> role, form |-> "string", parts |-> text, blocks |-> {},
   heading |-> UnnamedTool]

Posted(messages) == [i \in DOMAIN messages |-> PlainItem(messages[i].role, messages[i].text)]

-----------------------------------------------------------------------------
(* Reference.                                                              *)

\* What a chat template accepts: one system message, first; then questions and
\* answers in turn, a question first; nothing blank.
WellFormed(messages) ==
  LET off == IF messages # <<>> /\ messages[1].role = "system" THEN 1 ELSE 0
  IN  \A i \in DOMAIN messages :
        /\ messages[i].text # <<>>
        /\ i > off => messages[i].role = IF (i - off) % 2 = 1 THEN "user" ELSE "assistant"

\* The pieces of the messages of some roles.
PiecesOf(messages, roles) ==
  FlattenSeq([i \in DOMAIN messages |-> IF messages[i].role \in roles THEN messages[i].text ELSE <<>>])

\* The pieces of the usable items, in order: those of the system, and those of
\* the conversation from its first question on.
SystemPieces(items) ==
  FlattenSeq([i \in DOMAIN items |->
    IF items[i].kind = "message" /\ items[i].role \in {"system", "developer"}
    THEN ContentToText(items[i].parts) ELSE <<>>])

Asks(item) ==
  /\ item.kind \in {"string", "message"}
  /\ item.kind = "message" => item.role \notin {"system", "developer", "assistant"}
  /\ ContentToText(item.parts) # <<>>

TalkPiece(item, asked) ==
  LET text == ContentToText(item.parts)
      from(roles) == item.kind = "message" /\ item.role \in roles
  IN  IF \/ item.kind = "other" \/ text = <<>>
         \/ from({"system", "developer"})
         \/ from({"assistant"}) /\ (text = <<Failed>> \/ ~asked)
      THEN <<>>
      ELSE IF from({"tool", "function"}) THEN <<item.heading>> \o text ELSE text

\* A message of which the shim loses nothing: its content is a string or blocks
\* with "text", and its tool, if it is the answer of one, has no name.
AnthropicReads(item) ==
  /\ item.kind = "message" /\ item.form # "object"
  /\ item.form = "list" => \A i \in DOMAIN item.parts : i \in item.blocks
  /\ item.role \in {"tool", "function"} => item.heading = UnnamedTool

TalkPieces(items) ==
  FlattenSeq([i \in DOMAIN items |-> TalkPiece(items[i], \E j \in 1..i : Asks(items[j]))])
=============================================================================
