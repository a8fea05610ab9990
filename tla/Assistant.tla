------------------------------ MODULE Assistant ------------------------------
(***************************************************************************)
(* The administrators' assistant: conversations with a language model, a   *)
(* turn of which stores a question, streams the answer to the browser, and *)
(* stores what was produced.                                               *)
(*                                                                         *)
(* A turn runs without interruption between two awaits; a statement is     *)
(* atomic.  An answer is as many pieces of text as have come; titles,      *)
(* token counts and the events that open and close the stream are left     *)
(* out.  save() inserts the row where it is gone.                          *)
(***************************************************************************)
EXTENDS Integers, FiniteSets

CONSTANTS
  Requests,          \* slots for turns in progress
  NONE,              \* SQL NULL, no row
  Admins,            \* administrators there are at first
  HistoryLimit,      \* HISTORY_LIMIT
  MaxConversations,  \* bound: rows of ai_conversations
  MaxMessages,       \* bound: rows of ai_messages
  MaxText,           \* bound: pieces of text in an answer
  MaxFaults          \* bound: statements that fail, restarts of the process

ConversationId == 1..MaxConversations
MessageId == 1..MaxMessages

ASSUME BoundsAssumption ==
  /\ HistoryLimit \in Nat \ {0}
  /\ MaxConversations \in Nat /\ MaxMessages \in Nat /\ MaxText \in Nat /\ MaxFaults \in Nat
  /\ NONE \notin Nat /\ NONE \notin Admins

VARIABLES
  admins,         \* the administrators
  conversations,  \* ai_conversations
  messages,       \* ai_messages
  nextConversation, nextMessage,  \* the next values of the id sequences
  turn,           \* the turns in progress
  deleted,        \* history: conversations that have been deleted
  faults          \* how many faults there have been

vars == <<admins, conversations, messages, nextConversation, nextMessage, turn, deleted,
          faults>>

-----------------------------------------------------------------------------
(* Types                                                                   *)

OrNone(S) == S \cup {NONE}

AiConversation == [admin: Admins]
\* `question`: the message an answer is to, a question itself.
AiMessage == [conversation: ConversationId, role: {"user", "assistant"},
              question: MessageId, text: 0..MaxText]

ASSUME RowAssumption == NONE \notin AiConversation \cup AiMessage

\* `text`: what the model has produced, `shown`: what of it the browser has been sent;
\* `gone`: the browser has closed the stream.
Turn == [at: {"idle", "resolve", "question", "history", "stream", "answer", "touch"},
         admin: OrNone(Admins), conversation: OrNone(ConversationId),
         question: OrNone(MessageId), history: SUBSET MessageId,
         text: 0..MaxText, shown: 0..MaxText, gone: BOOLEAN]
NoTurn == [at |-> "idle", admin |-> NONE, conversation |-> NONE, question |-> NONE,
           history |-> {}, text |-> 0, shown |-> 0, gone |-> FALSE]

TypeOK ==
  /\ admins \subseteq Admins
  /\ conversations \in [ConversationId -> OrNone(AiConversation)]
  /\ messages \in [MessageId -> OrNone(AiMessage)]
  /\ nextConversation \in 1..(MaxConversations + 1) /\ nextMessage \in 1..(MaxMessages + 1)
  /\ turn \in [Requests -> Turn]
  /\ deleted \subseteq ConversationId
  /\ faults \in 0..MaxFaults

-----------------------------------------------------------------------------

Exists(c) == conversations[c] # NONE
Owns(admin, c) == Exists(c) /\ conversations[c].admin = admin
MessagesOf(c) == {m \in MessageId : messages[m] # NONE /\ messages[m].conversation = c}

Goto(h, rec) == turn' = [turn EXCEPT ![h] = rec]
Finish(h) == Goto(h, NoTurn)
Tables == <<admins, conversations, messages, nextConversation, nextMessage, deleted>>

Insert(row) ==
  /\ nextMessage \in MessageId
  /\ messages' = [messages EXCEPT ![nextMessage] = row]
  /\ nextMessage' = nextMessage + 1

(* AssistantController.chat, AssistantService.chatStream                   *)

\* In a conversation, or to start one (NONE).
Chat(h, admin, c) ==
  /\ turn[h] = NoTurn
  /\ admin \in admins
  /\ Goto(h, [NoTurn EXCEPT !.at = "resolve", !.admin = admin, !.conversation = c])
  /\ UNCHANGED <<Tables, faults>>

\* The conversation must be the administrator's own; a turn whose browser has gone ends
\* with the event that tells it the id.
ResolveConversation(h) ==
  LET t == turn[h]
      c == IF t.conversation = NONE THEN nextConversation ELSE t.conversation
      found == IF t.conversation = NONE THEN t.admin \in admins ELSE Owns(t.admin, c)
  IN  /\ t.at = "resolve"
      /\ c \in ConversationId
      /\ IF t.conversation = NONE /\ found
         THEN /\ conversations' = [conversations EXCEPT ![c] = [admin |-> t.admin]]
              /\ nextConversation' = nextConversation + 1
         ELSE UNCHANGED <<conversations, nextConversation>>
      /\ IF found /\ ~t.gone THEN Goto(h, [t EXCEPT !.at = "question", !.conversation = c])
         ELSE Finish(h)
      /\ UNCHANGED <<admins, messages, nextMessage, deleted, faults>>

SaveQuestion(h) ==
  LET t == turn[h]
  IN  /\ t.at = "question"
      /\ IF Exists(t.conversation)
         THEN /\ Insert([conversation |-> t.conversation, role |-> "user",
                         question |-> nextMessage, text |-> 0])
              /\ Goto(h, [t EXCEPT !.at = "history", !.question = nextMessage])
         ELSE Finish(h) /\ UNCHANGED <<messages, nextMessage>>
      /\ UNCHANGED <<admins, conversations, nextConversation, deleted, faults>>

Recent(S) == {m \in S : Cardinality({n \in S : n > m}) < HistoryLimit}
FromQuestion(S) == {m \in S : \E n \in S : n <= m /\ messages[n].role = "user"}

\* Mutant: an answer may come first.
History_Untrimmed(c) == Recent(MessagesOf(c))
\* The last messages, in order; the model expects the first to be a question.
History(c) == FromQuestion(Recent(MessagesOf(c)))

LoadHistory(h) ==
  /\ turn[h].at = "history"
  /\ Goto(h, [turn[h] EXCEPT !.at = "stream", !.history = History(turn[h].conversation)])
  /\ UNCHANGED <<Tables, faults>>

\* A piece of text, passed on; with the browser gone, the controller stops the generator.
Delta(h) ==
  LET t == [turn[h] EXCEPT !.text = @ + 1]
  IN  /\ turn[h].at = "stream"
      /\ turn[h].text < MaxText
      /\ Goto(h, IF t.gone THEN [t EXCEPT !.at = "answer"] ELSE [t EXCEPT !.shown = t.text])
      /\ UNCHANGED <<Tables, faults>>

\* Mutant: only an answer that has come to its end is stored.
StreamEnds_OrDrops(h) ==
  /\ turn[h].at = "stream"
  /\ \/ turn[h].text > 0 /\ Goto(h, [turn[h] EXCEPT !.at = "answer"])
     \/ Finish(h)
  /\ UNCHANGED <<Tables, faults>>
\* The answer is complete, or the model fails, is slow or is not configured: finally.
StreamEnds(h) ==
  /\ turn[h].at = "stream"
  /\ IF turn[h].text > 0 THEN Goto(h, [turn[h] EXCEPT !.at = "answer"]) ELSE Finish(h)
  /\ UNCHANGED <<Tables, faults>>

SaveAnswer(h) ==
  LET t == turn[h]
  IN  /\ t.at = "answer"
      /\ IF Exists(t.conversation)
         THEN /\ Insert([conversation |-> t.conversation, role |-> "assistant",
                         question |-> t.question, text |-> t.text])
              /\ Goto(h, [t EXCEPT !.at = "touch"])
         ELSE Finish(h) /\ UNCHANGED <<messages, nextMessage>>
      /\ UNCHANGED <<admins, conversations, nextConversation, deleted, faults>>

\* conversation.updatedAt: the row is saved as it was loaded.
Touch(h) ==
  LET t == turn[h]
  IN  /\ t.at = "touch"
      /\ conversations' = IF t.admin \notin admins THEN conversations
                          ELSE [conversations EXCEPT ![t.conversation] = [admin |-> t.admin]]
      /\ Finish(h)
      /\ UNCHANGED <<admins, messages, nextConversation, nextMessage, deleted, faults>>

\* A tab is closed, an answer is aborted.
CloseStream(h) ==
  /\ turn[h] # NoTurn /\ ~turn[h].gone
  /\ Goto(h, [turn[h] EXCEPT !.gone = TRUE])
  /\ UNCHANGED <<Tables, faults>>

\* A statement fails, or the process restarts in the middle of an answer.
Fault(h) ==
  /\ turn[h] # NoTurn
  /\ faults < MaxFaults
  /\ faults' = faults + 1
  /\ Finish(h)
  /\ UNCHANGED Tables

(* The rest                                                                *)

\* ON DELETE CASCADE.
Drop(S) ==
  /\ conversations' = [c \in ConversationId |-> IF c \in S THEN NONE ELSE conversations[c]]
  /\ messages' = [m \in MessageId |->
       IF messages[m] # NONE /\ messages[m].conversation \in S THEN NONE ELSE messages[m]]
  /\ deleted' = deleted \cup S

DeleteConversation(admin, c) ==
  /\ admin \in admins /\ Owns(admin, c)
  /\ Drop({c})
  /\ UNCHANGED <<admins, nextConversation, nextMessage, turn, faults>>

RemoveAdmin(admin) ==
  /\ admin \in admins
  /\ admins' = admins \ {admin}
  /\ Drop({c \in ConversationId : Owns(admin, c)})
  /\ UNCHANGED <<nextConversation, nextMessage, turn, faults>>

\* What a reload shows.
GetMessages(admin, c) == IF Owns(admin, c) THEN MessagesOf(c) ELSE {}

-----------------------------------------------------------------------------

Init ==
  /\ admins = Admins
  /\ conversations = [c \in ConversationId |-> NONE]
  /\ messages = [m \in MessageId |-> NONE]
  /\ nextConversation = 1 /\ nextMessage = 1
  /\ turn = [h \in Requests |-> NoTurn]
  /\ deleted = {}
  /\ faults = 0

Proceed(h) ==
  \/ ResolveConversation(h) \/ SaveQuestion(h) \/ LoadHistory(h)
  \/ Delta(h) \/ StreamEnds(h) \/ SaveAnswer(h) \/ Touch(h)

Next ==
  \/ \E h \in Requests :
       \/ \E admin \in Admins, c \in OrNone(ConversationId) : Chat(h, admin, c)
       \/ Proceed(h) \/ CloseStream(h) \/ Fault(h)
  \/ \E admin \in Admins, c \in ConversationId : DeleteConversation(admin, c)
  \/ \E admin \in Admins : RemoveAdmin(admin)

Spec == Init /\ [][Next]_vars

-----------------------------------------------------------------------------
(* Properties                                                              *)

(* "A partial answer the user already saw survives a reload": when a turn  *)
(* ends, by itself, by the model's failure or by the browser's closing the *)
(* stream, what the browser was sent is in the conversation, unless that   *)
(* was deleted or storing it failed.                                       *)
SeenSurvives ==
  [][\A h \in Requests :
       LET t == turn[h]
       IN  t.shown > 0 /\ turn'[h] = NoTurn /\ faults' = faults =>
             \/ t.conversation \in deleted
             \/ \E m \in GetMessages(t.admin, t.conversation) :
                  /\ messages[m].role = "assistant" /\ messages[m].question = t.question
                  /\ messages[m].text >= t.shown]_vars

(* What the model is asked with: no more than the limit, beginning with a  *)
(* question, the question of this turn in it, and nothing missing between; *)
(* also while other turns of the conversation store theirs, unless they    *)
(* have filled the limit since.                                            *)
HistoryIsUsable ==
  [][\A h \in Requests :
       turn[h].at = "history" /\ turn'[h].at = "stream" =>
         LET S == turn'[h].history
         IN  /\ Cardinality(S) <= HistoryLimit
             /\ turn[h].conversation \notin deleted =>
                  /\ \/ turn[h].question \in S
                     \/ turn[h].question \notin Recent(MessagesOf(turn[h].conversation))
                  /\ \E m \in S : messages[m].role = "user" /\ \A n \in S : m <= n
                  /\ \A m \in MessagesOf(turn[h].conversation) \ S, n \in S : m < n]_vars
=============================================================================
