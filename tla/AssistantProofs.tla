---------------------------- MODULE AssistantProofs ----------------------------
(***************************************************************************)
(* What the browser was shown of an answer survives a reload, and what the *)
(* model is asked with is usable: for any number of administrators,        *)
(* conversations, turns in progress and faults.                            *)
(***************************************************************************)
EXTENDS Assistant, FiniteSetTheorems, WellFoundedInduction, TLAPS

\* Ids that are or were in use are below the next one.
ConversationNumbering ==
  \A c \in ConversationId : Exists(c) \/ c \in deleted => c < nextConversation
MessageNumbering == \A m \in MessageId : messages[m] # NONE => m < nextMessage

\* The turn has its conversation, or it was deleted.
Placed(t, convs, gone) ==
  t.at \in {"question", "history", "stream", "answer", "touch"} =>
    /\ t.conversation \in ConversationId /\ t.admin \in Admins
    /\ \/ t.conversation \in gone
       \/ convs[t.conversation] # NONE /\ convs[t.conversation].admin = t.admin

\* Nothing is shown that was not produced, nothing is produced before the question is stored.
Shown(t) ==
  /\ t.shown <= t.text
  /\ t.at \in {"idle", "resolve", "question", "history"} => t.shown = 0
  /\ t.at \in {"history", "stream", "answer", "touch"} => t.question \in MessageId
  /\ t.at = "resolve" => t.admin \in Admins

\* The answer of a turn in its last statement is stored.
Stored(t, msgs, gone) ==
  t.at = "touch" =>
    \/ t.conversation \in gone
    \/ \E m \in MessageId :
         /\ msgs[m] # NONE /\ msgs[m].conversation = t.conversation
         /\ msgs[m].role = "assistant" /\ msgs[m].question = t.question
         /\ msgs[m].text >= t.shown

TurnOk(t, convs, msgs, gone) ==
  t \in Turn /\ Placed(t, convs, gone) /\ Shown(t) /\ Stored(t, msgs, gone)

TurnsOk == \A h \in Requests : TurnOk(turn[h], conversations, messages, deleted)

Inv == TypeOK /\ ConversationNumbering /\ MessageNumbering /\ TurnsOk

\* Neither a row nor the answers in it go but by being deleted.
Keeps ==
  /\ deleted \subseteq deleted'
  /\ \A c \in ConversationId :
       Exists(c) => c \in deleted' \/ conversations'[c] = conversations[c]
  /\ \A m \in MessageId :
       messages[m] # NONE =>
         messages[m].conversation \in deleted' \/ messages'[m] = messages[m]

LEMMA Ids ==
  /\ ConversationId \subseteq Nat /\ MessageId \subseteq Nat
  /\ NONE \notin ConversationId /\ NONE \notin MessageId
BY BoundsAssumption DEF ConversationId, MessageId

LEMMA NoTurnOk ==
  ASSUME NEW convs, NEW msgs, NEW gone
  PROVE  TurnOk(NoTurn, convs, msgs, gone)
<1>1. NoTurn \in Turn
  BY BoundsAssumption DEF NoTurn, Turn, OrNone
<1> QED
  BY <1>1 DEF TurnOk, NoTurn, Placed, Shown, Stored

LEMMA SlotFrame ==
  ASSUME TypeOK, NEW h \in Requests, NEW rec, Goto(h, rec)
  PROVE  /\ turn'[h] = rec
         /\ \A g \in Requests \ {h} : turn'[g] = turn[g]
         /\ rec \in Turn => turn' \in [Requests -> Turn]
BY DEF TypeOK, Goto

(* The turns that do not move stay as they should be. *)
LEMMA OthersStay ==
  ASSUME Inv, Keeps, NEW g \in Requests
  PROVE  TurnOk(turn[g], conversations', messages', deleted')
<1> DEFINE t == turn[g]
<1>1. TurnOk(t, conversations, messages, deleted)
  BY DEF Inv, TurnsOk
<1>2. Placed(t, conversations', deleted')
  BY <1>1 DEF TurnOk, Placed, Keeps, Exists
<1>3. Stored(t, messages', deleted')
  BY <1>1 DEF TurnOk, Stored, Keeps
<1> QED
  BY <1>1, <1>2, <1>3 DEF TurnOk

LEMMA TurnMoves ==
  ASSUME Inv, Keeps, NEW h \in Requests, NEW rec, Goto(h, rec),
         TurnOk(rec, conversations', messages', deleted'),
         /\ admins' \subseteq Admins
         /\ conversations' \in [ConversationId -> OrNone(AiConversation)]
         /\ messages' \in [MessageId -> OrNone(AiMessage)]
         /\ nextConversation' \in 1..(MaxConversations + 1)
         /\ nextMessage' \in 1..(MaxMessages + 1)
         /\ deleted' \subseteq ConversationId
         /\ faults' \in 0..MaxFaults,
         ConversationNumbering', MessageNumbering'
  PROVE  Inv'
<1>1. /\ turn'[h] = rec
      /\ \A g \in Requests \ {h} : turn'[g] = turn[g]
      /\ turn' \in [Requests -> Turn]
  BY SlotFrame DEF Inv, TurnOk
<1>2. TypeOK'
  BY <1>1 DEF TypeOK
<1>3. TurnsOk'
  BY <1>1, OthersStay DEF TurnsOk
<1> QED
  BY <1>2, <1>3 DEF Inv

LEMMA OnlyMoves ==
  ASSUME Inv, NEW h \in Requests, NEW rec, Goto(h, rec), UNCHANGED Tables,
         TurnOk(rec, conversations, messages, deleted), faults' \in 0..MaxFaults
  PROVE  Inv'
<1>1. Keeps
  BY DEF Tables, Keeps
<1>2. ConversationNumbering' /\ MessageNumbering'
  BY DEF Inv, ConversationNumbering, MessageNumbering, Exists, Tables
<1>3. TurnOk(rec, conversations', messages', deleted')
  BY DEF Tables
<1> QED
  BY <1>1, <1>2, <1>3, TurnMoves DEF Inv, TypeOK, Tables

LEMMA Ended ==
  ASSUME Inv, NEW h \in Requests, Finish(h), UNCHANGED <<Tables, faults>>
  PROVE  Inv'
BY NoTurnOk, OnlyMoves DEF Finish, Inv, TypeOK

-----------------------------------------------------------------------------
(* The steps of a turn                                                     *)

LEMMA ChatInv ==
  ASSUME Inv, NEW h \in Requests, NEW admin \in Admins, NEW c \in OrNone(ConversationId),
         Chat(h, admin, c)
  PROVE  Inv'
<1> DEFINE rec == [NoTurn EXCEPT !.at = "resolve", !.admin = admin, !.conversation = c]
<1>1. NoTurn \in Turn /\ NoTurn.shown = 0 /\ NoTurn.text = 0
  BY NoTurnOk DEF TurnOk, NoTurn
<1> HIDE DEF NoTurn
<1>3. /\ rec \in Turn /\ rec.at = "resolve" /\ rec.shown = 0 /\ rec.text = 0
      /\ rec.admin = admin
  BY <1>1 DEF Turn, OrNone
<1>2. Goto(h, rec) /\ UNCHANGED <<Tables, faults>>
  BY DEF Chat
<1> HIDE DEF rec
<1>4. TurnOk(rec, conversations, messages, deleted)
  BY <1>3 DEF TurnOk, Placed, Shown, Stored
<1> QED
  BY <1>2, <1>4, OnlyMoves DEF Inv, TypeOK

(* A new conversation takes an id nobody has. *)
LEMMA ResolveInv ==
  ASSUME Inv, NEW h \in Requests, ResolveConversation(h)
  PROVE  Inv'
<1> DEFINE t == turn[h]
           c == IF t.conversation = NONE THEN nextConversation ELSE t.conversation
           rec == [t EXCEPT !.at = "question", !.conversation = c]
<1>1. t \in Turn /\ t.at = "resolve" /\ t.admin \in Admins /\ t.shown = 0 /\ t.shown <= t.text
  BY DEF ResolveConversation, Inv, TurnsOk, TurnOk, Shown
<1>2. /\ c \in ConversationId
      /\ UNCHANGED <<admins, messages, nextMessage, deleted, faults>>
  BY DEF ResolveConversation
<1>3. CASE UNCHANGED <<conversations, nextConversation>>
  <2>1. UNCHANGED <<Tables, faults>>
    BY <1>2, <1>3 DEF Tables
  <2>2. CASE Finish(h)
    BY <2>1, <2>2, Ended
  <2>3. CASE ~Finish(h)
    <3>1. Goto(h, rec) /\ t.conversation # NONE /\ Owns(t.admin, c)
      <4>1. t.conversation # NONE
        <5> SUFFICES ASSUME t.conversation = NONE PROVE FALSE
          OBVIOUS
        <5>1. nextConversation' = nextConversation + 1
          BY <2>3 DEF ResolveConversation
        <5>2. nextConversation \in Nat
          BY BoundsAssumption DEF Inv, TypeOK
        <5> QED
          BY <1>3, <5>1, <5>2
      <4> QED
        BY <2>3, <4>1 DEF ResolveConversation
    <3>2. /\ rec \in Turn /\ rec.at = "question" /\ rec.conversation = c /\ rec.admin = t.admin
          /\ rec.shown = 0 /\ rec.shown <= rec.text
      BY <1>1, <1>2 DEF Turn, OrNone
    <3> HIDE DEF rec
    <3>3. TurnOk(rec, conversations, messages, deleted)
      BY <1>1, <1>2, <3>1, <3>2 DEF TurnOk, Placed, Shown, Stored, Owns, Exists
    <3> QED
      BY <2>1, <3>1, <3>3, OnlyMoves DEF Inv, TypeOK
  <2> QED
    BY <2>2, <2>3
<1>4. CASE ~UNCHANGED <<conversations, nextConversation>>
  <2>1. /\ t.conversation = NONE /\ c = nextConversation
        /\ conversations' = [conversations EXCEPT ![c] = [admin |-> t.admin]]
        /\ nextConversation' = nextConversation + 1
        /\ Goto(h, rec) \/ Goto(h, NoTurn)
    BY <1>4 DEF ResolveConversation, Finish
  <2>2. nextConversation \in 1..MaxConversations
    BY <1>2, <2>1 DEF ConversationId
  <2>3. ~Exists(c)
    BY <1>2, <2>1, <2>2 DEF Inv, ConversationNumbering
  <2>4. /\ conversations' \in [ConversationId -> OrNone(AiConversation)]
        /\ conversations'[c] = [admin |-> t.admin]
        /\ \A b \in ConversationId \ {c} : conversations'[b] = conversations[b]
    BY <1>1, <1>2, <2>1 DEF Inv, TypeOK, OrNone, AiConversation
  <2>5. Keeps
    BY <1>2, <2>3, <2>4 DEF Keeps, Exists
  <2>6. nextConversation' \in 1..(MaxConversations + 1)
    BY <2>1, <2>2, BoundsAssumption
  <2>7. ConversationNumbering'
    <3> SUFFICES ASSUME NEW b \in ConversationId, conversations'[b] # NONE \/ b \in deleted'
                 PROVE  b < nextConversation'
      BY DEF ConversationNumbering, Exists
    <3>1. b \in Nat
      BY Ids
    <3>2. b = c \/ b < nextConversation
      BY <1>2, <2>4 DEF Inv, ConversationNumbering, Exists
    <3> QED
      BY <2>1, <2>2, <3>1, <3>2
  <2>8. MessageNumbering'
    BY <1>2 DEF Inv, MessageNumbering
  <2>9. /\ rec \in Turn /\ rec.at = "question" /\ rec.conversation = c /\ rec.admin = t.admin
        /\ rec.shown = 0 /\ rec.shown <= rec.text
    BY <1>1, <1>2 DEF Turn, OrNone
  <2> HIDE DEF rec
  <2>10. conversations'[c] # NONE /\ conversations'[c].admin = t.admin
    BY <1>1, <2>4, RowAssumption DEF AiConversation
  <2>11. TurnOk(rec, conversations', messages', deleted')
    BY <1>1, <1>2, <2>9, <2>10 DEF TurnOk, Placed, Shown, Stored
  <2> QED
    BY <1>2, <2>1, <2>4, <2>5, <2>6, <2>7, <2>8, <2>11, NoTurnOk, TurnMoves DEF Inv, TypeOK
<1> QED
  BY <1>3, <1>4

(* A new message takes an id nobody has. *)
LEMMA Inserted ==
  ASSUME Inv, NEW row \in AiMessage, Insert(row)
  PROVE  /\ nextMessage \in MessageId /\ messages[nextMessage] = NONE
         /\ messages' \in [MessageId -> OrNone(AiMessage)] /\ messages'[nextMessage] = row
         /\ \A m \in MessageId \ {nextMessage} : messages'[m] = messages[m]
         /\ nextMessage' \in 1..(MaxMessages + 1) /\ MessageNumbering'
<1>1. /\ nextMessage \in MessageId /\ nextMessage' = nextMessage + 1
      /\ messages' = [messages EXCEPT ![nextMessage] = row]
  BY DEF Insert
<1>2. nextMessage \in 1..MaxMessages
  BY <1>1 DEF MessageId
<1>3. messages[nextMessage] = NONE
  BY <1>1, <1>2 DEF Inv, MessageNumbering
<1>4. /\ messages' \in [MessageId -> OrNone(AiMessage)] /\ messages'[nextMessage] = row
      /\ \A m \in MessageId \ {nextMessage} : messages'[m] = messages[m]
  BY <1>1 DEF Inv, TypeOK, OrNone
<1>5. MessageNumbering'
  <2> SUFFICES ASSUME NEW m \in MessageId, messages'[m] # NONE PROVE m < nextMessage'
    BY DEF MessageNumbering
  <2>1. m \in Nat /\ (m = nextMessage \/ m < nextMessage)
    BY <1>4, Ids DEF Inv, MessageNumbering
  <2> QED
    BY <1>1, <1>2, <2>1
<1> QED
  BY <1>1, <1>2, <1>3, <1>4, <1>5, BoundsAssumption

LEMMA SaveQuestionInv ==
  ASSUME Inv, NEW h \in Requests, SaveQuestion(h)
  PROVE  Inv'
<1> DEFINE t == turn[h]
           rec == [t EXCEPT !.at = "history", !.question = nextMessage]
           row == [conversation |-> t.conversation, role |-> "user",
                   question |-> nextMessage, text |-> 0]
<1>1. t.at = "question" /\ TurnOk(t, conversations, messages, deleted)
  BY DEF SaveQuestion, Inv, TurnsOk
<1>2. CASE Finish(h) /\ UNCHANGED <<messages, nextMessage>>
  BY <1>2, Ended DEF SaveQuestion, Tables
<1>3. CASE ~(Finish(h) /\ UNCHANGED <<messages, nextMessage>>)
  <2>1. /\ Insert(row) /\ Goto(h, rec)
        /\ UNCHANGED <<admins, conversations, nextConversation, deleted, faults>>
    BY <1>3 DEF SaveQuestion
  <2>2. nextMessage \in MessageId
    BY <2>1 DEF Insert
  <2>3. row \in AiMessage
    BY <1>1, <2>2, BoundsAssumption DEF AiMessage, TurnOk, Placed
  <2>4. Keeps
    BY <2>1, <2>3, Inserted DEF Keeps
  <2>5. /\ rec \in Turn /\ rec.at = "history" /\ rec.question = nextMessage
        /\ rec.conversation = t.conversation /\ rec.admin = t.admin
        /\ rec.shown = t.shown /\ rec.text = t.text
    BY <1>1, <2>2 DEF TurnOk, Turn, OrNone
  <2> HIDE DEF rec, row
  <2>6. TurnOk(rec, conversations', messages', deleted')
    BY <1>1, <2>1, <2>2, <2>5 DEF TurnOk, Placed, Shown, Stored
  <2>7. ConversationNumbering'
    BY <2>1 DEF Inv, ConversationNumbering, Exists
  <2> QED
    BY <2>1, <2>3, <2>4, <2>6, <2>7, Inserted, TurnMoves DEF Inv, TypeOK
<1> QED
  BY <1>2, <1>3

(* A turn whose text and place do not change. *)
LEMMA Onward ==
  ASSUME Inv, NEW h \in Requests, NEW rec \in Turn, Goto(h, rec), UNCHANGED <<Tables, faults>>,
         rec.admin = turn[h].admin, rec.conversation = turn[h].conversation,
         rec.question = turn[h].question, rec.text = turn[h].text, rec.shown = turn[h].shown,
         \/ rec.at = turn[h].at
         \/ turn[h].at = "history" /\ rec.at = "stream"
         \/ turn[h].at = "stream" /\ rec.at = "answer"
  PROVE  Inv'
<1>1. TurnOk(turn[h], conversations, messages, deleted)
  BY DEF Inv, TurnsOk
<1>2. TurnOk(rec, conversations, messages, deleted)
  BY <1>1 DEF TurnOk, Placed, Shown, Stored
<1> QED
  BY <1>2, OnlyMoves DEF Inv, TypeOK

LEMMA LoadHistoryInv ==
  ASSUME Inv, NEW h \in Requests, LoadHistory(h)
  PROVE  Inv'
<1> DEFINE t == turn[h]
           seen == History(t.conversation)
           rec == [t EXCEPT !.at = "stream", !.history = seen]
<1>1. t \in Turn /\ t.at = "history"
  BY DEF LoadHistory, Inv, TypeOK
<1>2. seen \in SUBSET MessageId
  BY DEF History, FromQuestion, Recent, MessagesOf
<1>3. Goto(h, rec) /\ UNCHANGED <<Tables, faults>>
  BY DEF LoadHistory
<1> HIDE DEF seen
<1>4. /\ rec \in Turn /\ rec.at = "stream" /\ rec.admin = t.admin
      /\ rec.conversation = t.conversation
      /\ rec.question = t.question /\ rec.text = t.text /\ rec.shown = t.shown
  BY <1>1, <1>2 DEF Turn
<1> HIDE DEF rec
<1> QED
  BY <1>1, <1>3, <1>4, Onward

LEMMA DeltaInv ==
  ASSUME Inv, NEW h \in Requests, Delta(h)
  PROVE  Inv'
<1> DEFINE t == turn[h]
           n == t.text + 1
<1>1. t.at = "stream" /\ t.text < MaxText /\ TurnOk(t, conversations, messages, deleted)
  BY DEF Delta, Inv, TurnsOk
<1>2. t \in Turn /\ t.text \in Nat /\ t.shown \in Nat /\ n \in 0..MaxText
  BY <1>1, BoundsAssumption DEF TurnOk, Turn
<1>3. UNCHANGED <<Tables, faults>>
  BY DEF Delta
<1>4. ASSUME NEW rec \in Turn, Goto(h, rec), rec.at \in {"stream", "answer"},
             rec.admin = t.admin, rec.conversation = t.conversation, rec.question = t.question,
             rec.text = n, rec.shown \in {t.shown, n}
      PROVE  Inv'
  <2>1. rec.shown <= rec.text
    BY <1>1, <1>2, <1>4 DEF TurnOk, Shown
  <2>2. TurnOk(rec, conversations, messages, deleted)
    BY <1>1, <1>4, <2>1 DEF TurnOk, Placed, Shown, Stored
  <2> QED
    BY <1>3, <1>4, <2>2, OnlyMoves DEF Inv, TypeOK
<1>5. CASE t.gone
  <2> DEFINE rec == [[t EXCEPT !.text = n] EXCEPT !.at = "answer"]
  <2>1. Goto(h, rec)
    BY <1>2, <1>5 DEF Delta, Turn
  <2>2. /\ rec \in Turn /\ rec.at = "answer" /\ rec.admin = t.admin
        /\ rec.conversation = t.conversation /\ rec.question = t.question
        /\ rec.text = n /\ rec.shown = t.shown
    BY <1>2 DEF Turn
  <2> HIDE DEF rec
  <2> QED
    BY <1>4, <2>1, <2>2
<1>6. CASE ~t.gone
  <2> DEFINE rec == [[t EXCEPT !.text = n] EXCEPT !.shown = n]
  <2>1. Goto(h, rec)
    BY <1>2, <1>6 DEF Delta, Turn
  <2>2. /\ rec \in Turn /\ rec.at = "stream" /\ rec.admin = t.admin
        /\ rec.conversation = t.conversation /\ rec.question = t.question
        /\ rec.text = n /\ rec.shown = n
    BY <1>1, <1>2 DEF Turn
  <2> HIDE DEF rec
  <2> QED
    BY <1>4, <2>1, <2>2
<1> QED
  BY <1>5, <1>6

LEMMA StreamEndsInv ==
  ASSUME Inv, NEW h \in Requests, StreamEnds(h)
  PROVE  Inv'
<1> DEFINE t == turn[h]
           rec == [t EXCEPT !.at = "answer"]
<1>1. t \in Turn /\ t.at = "stream" /\ UNCHANGED <<Tables, faults>>
  BY DEF StreamEnds, Inv, TypeOK
<1>2. Finish(h) \/ Goto(h, rec)
  BY DEF StreamEnds
<1>3. /\ rec \in Turn /\ rec.at = "answer" /\ rec.admin = t.admin
      /\ rec.conversation = t.conversation
      /\ rec.question = t.question /\ rec.text = t.text /\ rec.shown = t.shown
  BY <1>1 DEF Turn
<1> HIDE DEF rec
<1> QED
  BY <1>1, <1>2, <1>3, Ended, Onward

LEMMA CloseStreamInv ==
  ASSUME Inv, NEW h \in Requests, CloseStream(h)
  PROVE  Inv'
<1> DEFINE t == turn[h]
           rec == [t EXCEPT !.gone = TRUE]
<1>1. t \in Turn /\ Goto(h, rec) /\ UNCHANGED <<Tables, faults>>
  BY DEF CloseStream, Inv, TypeOK
<1>2. /\ rec \in Turn /\ rec.at = t.at /\ rec.admin = t.admin
      /\ rec.conversation = t.conversation
      /\ rec.question = t.question /\ rec.text = t.text /\ rec.shown = t.shown
  BY <1>1 DEF Turn
<1> HIDE DEF rec
<1> QED
  BY <1>1, <1>2, Onward

LEMMA SaveAnswerInv ==
  ASSUME Inv, NEW h \in Requests, SaveAnswer(h)
  PROVE  Inv'
<1> DEFINE t == turn[h]
           rec == [t EXCEPT !.at = "touch"]
           row == [conversation |-> t.conversation, role |-> "assistant",
                   question |-> t.question, text |-> t.text]
<1>1. t.at = "answer" /\ TurnOk(t, conversations, messages, deleted)
  BY DEF SaveAnswer, Inv, TurnsOk
<1>2. CASE Finish(h) /\ UNCHANGED <<messages, nextMessage>>
  BY <1>2, Ended DEF SaveAnswer, Tables
<1>3. CASE ~(Finish(h) /\ UNCHANGED <<messages, nextMessage>>)
  <2>1. /\ Insert(row) /\ Goto(h, rec)
        /\ UNCHANGED <<admins, conversations, nextConversation, deleted, faults>>
    BY <1>3 DEF SaveAnswer
  <2>2. row \in AiMessage
    BY <1>1 DEF AiMessage, TurnOk, Placed, Shown, Turn
  <2>3. Keeps
    BY <2>1, <2>2, Inserted DEF Keeps
  <2>4. /\ rec \in Turn /\ rec.at = "touch" /\ rec.question = t.question
        /\ rec.conversation = t.conversation /\ rec.admin = t.admin
        /\ rec.shown = t.shown /\ rec.text = t.text
    BY <1>1 DEF TurnOk, Turn
  <2>5. /\ row # NONE /\ row.conversation = t.conversation /\ row.role = "assistant"
        /\ row.question = t.question /\ row.text = t.text
    BY <2>2, RowAssumption
  <2>6. t.text >= t.shown
    BY <1>1, BoundsAssumption DEF TurnOk, Turn, Shown
  <2>7. nextMessage \in MessageId /\ messages'[nextMessage] = row
    BY <2>1, <2>2, Inserted
  <2> HIDE DEF rec, row
  <2>8. Stored(rec, messages', deleted')
    BY <2>4, <2>5, <2>6, <2>7 DEF Stored
  <2>9. TurnOk(rec, conversations', messages', deleted')
    BY <1>1, <2>1, <2>4, <2>8 DEF TurnOk, Placed, Shown
  <2>10. ConversationNumbering'
    BY <2>1 DEF Inv, ConversationNumbering, Exists
  <2> QED
    BY <2>1, <2>2, <2>3, <2>9, <2>10, Inserted, TurnMoves DEF Inv, TypeOK
<1> QED
  BY <1>2, <1>3

(* The row is saved as it was loaded: it is the same, or comes back. *)
LEMMA TouchInv ==
  ASSUME Inv, NEW h \in Requests, Touch(h)
  PROVE  Inv'
<1> DEFINE t == turn[h]
           c == t.conversation
<1>1. /\ t.at = "touch" /\ Finish(h)
      /\ UNCHANGED <<admins, messages, nextConversation, nextMessage, deleted, faults>>
      /\ conversations' \in {conversations, [conversations EXCEPT ![c] = [admin |-> t.admin]]}
  BY DEF Touch
<1>2. /\ c \in ConversationId /\ t.admin \in Admins
      /\ c \in deleted \/ (conversations[c] # NONE /\ conversations[c].admin = t.admin)
  BY <1>1 DEF Inv, TurnsOk, TurnOk, Placed
<1>3. c \in deleted \/ conversations[c] = [admin |-> t.admin]
  <2>1. CASE conversations[c] # NONE /\ conversations[c].admin = t.admin
    <3>1. conversations[c] \in AiConversation
      BY <1>2, <2>1 DEF Inv, TypeOK, OrNone
    <3> QED
      BY <2>1, <3>1 DEF AiConversation
  <2> QED
    BY <1>2, <2>1
<1>4. /\ conversations' \in [ConversationId -> OrNone(AiConversation)]
      /\ \A b \in ConversationId \ {c} : conversations'[b] = conversations[b]
      /\ conversations'[c] \in {conversations[c], [admin |-> t.admin]}
  BY <1>1, <1>2 DEF Inv, TypeOK, OrNone, AiConversation
<1>5. Keeps
  BY <1>1, <1>3, <1>4 DEF Keeps, Exists
<1>6. ConversationNumbering'
  BY <1>1, <1>2, <1>4 DEF Inv, ConversationNumbering, Exists
<1>7. MessageNumbering'
  BY <1>1 DEF Inv, MessageNumbering
<1>8. Goto(h, NoTurn)
  BY <1>1 DEF Finish
<1> QED
  BY <1>1, <1>4, <1>5, <1>6, <1>7, <1>8, NoTurnOk, TurnMoves DEF Inv, TypeOK

LEMMA FaultInv ==
  ASSUME Inv, NEW h \in Requests, Fault(h)
  PROVE  Inv'
<1>1. Goto(h, NoTurn) /\ UNCHANGED Tables
  BY DEF Fault, Finish
<1>2. faults' \in 0..MaxFaults
  BY BoundsAssumption DEF Fault, Inv, TypeOK
<1> QED
  BY <1>1, <1>2, NoTurnOk, OnlyMoves

(* Deleting conversations, or an administrator with them. *)
LEMMA DropInv ==
  ASSUME Inv, NEW S \in SUBSET ConversationId, Drop(S),
         \A c \in S : Exists(c),
         admins' \subseteq Admins,
         UNCHANGED <<nextConversation, nextMessage, turn, faults>>
  PROVE  Inv'
<1>1. /\ conversations' = [c \in ConversationId |-> IF c \in S THEN NONE ELSE conversations[c]]
      /\ messages' = [m \in MessageId |->
           IF messages[m] # NONE /\ messages[m].conversation \in S THEN NONE ELSE messages[m]]
      /\ deleted' = deleted \cup S
  BY DEF Drop
<1>2. Keeps
  BY <1>1 DEF Keeps, Exists
<1>3. ConversationNumbering'
  BY <1>1 DEF Inv, ConversationNumbering, Exists
<1>4. MessageNumbering'
  BY <1>1 DEF Inv, MessageNumbering
<1>5. TypeOK'
  BY <1>1 DEF Inv, TypeOK, OrNone
<1>6. TurnsOk'
  BY <1>2, OthersStay DEF TurnsOk
<1> QED
  BY <1>3, <1>4, <1>5, <1>6 DEF Inv

LEMMA DeletionInv ==
  ASSUME Inv, NEW admin \in Admins,
         RemoveAdmin(admin) \/ \E c \in ConversationId : DeleteConversation(admin, c)
  PROVE  Inv'
<1>1. CASE RemoveAdmin(admin)
  <2> DEFINE S == {c \in ConversationId : Owns(admin, c)}
  <2>1. S \in SUBSET ConversationId /\ \A c \in S : Exists(c)
    BY DEF Owns
  <2>2. Drop(S) /\ UNCHANGED <<nextConversation, nextMessage, turn, faults>>
    BY <1>1 DEF RemoveAdmin
  <2>3. admins' \subseteq Admins
    BY <1>1 DEF RemoveAdmin, Inv, TypeOK
  <2> HIDE DEF S
  <2> QED
    BY <2>1, <2>2, <2>3, DropInv
<1>2. ASSUME NEW c \in ConversationId, DeleteConversation(admin, c) PROVE Inv'
  <2>1. {c} \in SUBSET ConversationId /\ \A b \in {c} : Exists(b)
    BY <1>2 DEF DeleteConversation, Owns
  <2>2. /\ Drop({c}) /\ UNCHANGED <<nextConversation, nextMessage, turn, faults>>
        /\ admins' \subseteq Admins
    BY <1>2 DEF DeleteConversation, Inv, TypeOK
  <2> QED
    BY <2>1, <2>2, DropInv
<1> QED
  BY <1>1, <1>2

LEMMA InvInit == Init => Inv
<1> SUFFICES ASSUME Init PROVE Inv
  OBVIOUS
<1>1. NoTurn \in Turn /\ \A h \in Requests : turn[h] = NoTurn
  BY NoTurnOk DEF Init, TurnOk
<1>2. TypeOK
  BY <1>1, BoundsAssumption DEF Init, TypeOK, OrNone
<1>3. TurnsOk
  BY <1>1, NoTurnOk DEF TurnsOk
<1> QED
  BY <1>2, <1>3 DEF Init, Inv, ConversationNumbering, MessageNumbering, Exists

LEMMA InvStep == Inv /\ [Next]_vars => Inv'
<1> SUFFICES ASSUME Inv, [Next]_vars PROVE Inv'
  OBVIOUS
<1>1. CASE UNCHANGED vars
  BY <1>1 DEF vars, Inv, TypeOK, ConversationNumbering, MessageNumbering, TurnsOk, Exists
<1>2. ASSUME NEW h \in Requests, Proceed(h) PROVE Inv'
  BY <1>2, ResolveInv, SaveQuestionInv, LoadHistoryInv, DeltaInv, StreamEndsInv, SaveAnswerInv,
     TouchInv DEF Proceed
<1> QED
  BY <1>1, <1>2, ChatInv, CloseStreamInv, FaultInv, DeletionInv DEF Next

(* Rows, messages and turns in progress keep their types, whatever turns    *)
(* overlap, fail, or have their conversation deleted under them.             *)
THEOREM TypesKept == Spec => []TypeOK
<1>1. Inv => TypeOK
  BY DEF Inv
<1> QED
  BY InvInit, InvStep, <1>1, PTL DEF Spec

-----------------------------------------------------------------------------

\* What SeenSurvives says of one turn.
Survives(h) ==
  LET t == turn[h]
  IN  t.shown > 0 /\ turn'[h] = NoTurn /\ faults' = faults =>
        \/ t.conversation \in deleted
        \/ \E m \in GetMessages(t.admin, t.conversation) :
             /\ messages[m].role = "assistant" /\ messages[m].question = t.question
             /\ messages[m].text >= t.shown

(* A turn that has shown something ends after it has stored it, or finds    *)
(* its conversation deleted.                                                 *)
LEMMA TurnSurvives ==
  ASSUME Inv, [Next]_vars, NEW h \in Requests
  PROVE  Survives(h)
<1> DEFINE t == turn[h]
<1> SUFFICES ASSUME t.shown > 0, turn'[h] = NoTurn, faults' = faults
             PROVE  \/ t.conversation \in deleted
                    \/ \E m \in GetMessages(t.admin, t.conversation) :
                         /\ messages[m].role = "assistant" /\ messages[m].question = t.question
                         /\ messages[m].text >= t.shown
  BY DEF Survives
<1>1. /\ TurnOk(t, conversations, messages, deleted)
      /\ t.at \in {"stream", "answer", "touch"} /\ t.text > 0
  <2>1. TurnOk(t, conversations, messages, deleted)
    BY DEF Inv, TurnsOk
  <2>2. t.at \in {"stream", "answer", "touch"}
    BY <2>1 DEF TurnOk, Shown, Turn
  <2>3. t.shown \in Nat /\ t.text \in Nat /\ t.shown <= t.text
    BY <2>1, BoundsAssumption DEF TurnOk, Shown, Turn
  <2> QED
    BY <2>1, <2>2, <2>3
<1>2. CASE t.at = "touch"
  BY <1>1, <1>2 DEF TurnOk, Placed, Stored, GetMessages, MessagesOf, Owns, Exists
<1>3. t # NoTurn /\ NoTurn.at = "idle"
  BY <1>1 DEF NoTurn
<1>4. ASSUME NEW g \in Requests, NEW rec, Goto(g, rec), g # h PROVE FALSE
  BY <1>3, <1>4, SlotFrame DEF Inv
<1>5. ASSUME NEW rec, Goto(h, rec), rec.at # "idle" PROVE FALSE
  BY <1>3, <1>5, SlotFrame DEF Inv
<1>6. PICK g \in Requests :
        \/ \E admin \in Admins, c \in OrNone(ConversationId) : Chat(g, admin, c)
        \/ Proceed(g) \/ CloseStream(g)
  <2>1. ~UNCHANGED turn
    BY <1>3
  <2>2. ASSUME NEW g \in Requests, Fault(g) PROVE FALSE
    <3>1. faults \in Nat /\ faults' = faults + 1
      BY <2>2, BoundsAssumption DEF Fault, Inv, TypeOK
    <3> QED
      BY <3>1
  <2>3. ASSUME NEW admin \in Admins,
               RemoveAdmin(admin) \/ \E c \in ConversationId : DeleteConversation(admin, c)
        PROVE  FALSE
    BY <2>1, <2>3 DEF RemoveAdmin, DeleteConversation
  <2>4. ~UNCHANGED vars
    BY <2>1 DEF vars
  <2> QED
    BY <2>2, <2>3, <2>4 DEF Next
<1>7. g = h
  BY <1>4, <1>6, Zenon DEF Proceed, Chat, CloseStream, ResolveConversation, SaveQuestion,
     LoadHistory, Delta, StreamEnds, SaveAnswer, Touch, Finish
<1>8. CASE t.at = "stream"
  <2>1. Delta(h) \/ StreamEnds(h) \/ CloseStream(h)
    BY <1>3, <1>6, <1>7, <1>8, Zenon DEF Proceed, Chat, ResolveConversation, SaveQuestion,
       LoadHistory, SaveAnswer, Touch
  <2>2. t \in Turn
    BY <1>1 DEF TurnOk
  <2>3. \E rec : Goto(h, rec) /\ rec.at # "idle"
    <3> DEFINE more == [t EXCEPT !.text = @ + 1]
    <3>1. CASE Delta(h)
      <4>1. /\ [more EXCEPT !.at = "answer"].at # "idle"
            /\ [more EXCEPT !.shown = more.text].at # "idle"
        BY <1>8, <2>2 DEF Turn
      <4>2. Goto(h, [more EXCEPT !.at = "answer"]) \/ Goto(h, [more EXCEPT !.shown = more.text])
        BY <3>1 DEF Delta
      <4> HIDE DEF more
      <4> QED
        BY <4>1, <4>2
    <3>2. CASE StreamEnds(h)
      <4>1. [t EXCEPT !.at = "answer"].at # "idle"
        BY <2>2 DEF Turn
      <4> QED
        BY <1>1, <3>2, <4>1 DEF StreamEnds
    <3>3. CASE CloseStream(h)
      <4>1. [t EXCEPT !.gone = TRUE].at # "idle"
        BY <1>8, <2>2 DEF Turn
      <4> QED
        BY <3>3, <4>1 DEF CloseStream
    <3> QED
      BY <2>1, <3>1, <3>2, <3>3
  <2> QED
    BY <1>5, <2>3
<1>9. CASE t.at = "answer"
  <2>1. SaveAnswer(h) \/ CloseStream(h)
    BY <1>3, <1>6, <1>7, <1>9, Zenon DEF Proceed, Chat, ResolveConversation, SaveQuestion,
       LoadHistory, Delta, StreamEnds, Touch
  <2>2. t \in Turn
    BY <1>1 DEF TurnOk
  <2>3. ~Exists(t.conversation)
    <3> SUFFICES ASSUME Exists(t.conversation) PROVE FALSE
      OBVIOUS
    <3>1. \E rec : Goto(h, rec) /\ rec.at # "idle"
      BY <1>9, <2>1, <2>2 DEF SaveAnswer, CloseStream, Turn
    <3> QED
      BY <1>5, <3>1
  <2> QED
    BY <1>1, <1>9, <2>3 DEF TurnOk, Placed, Exists
<1> QED
  BY <1>1, <1>2, <1>8, <1>9

(* "A partial answer the user already saw survives a reload": whatever      *)
(* turns overlap, however a stream ends and whenever a browser closes it,   *)
(* what was shown is stored, unless its conversation was deleted or storing *)
(* it failed.                                                                *)
THEOREM WhatWasSeenSurvives == Spec => SeenSurvives
<1>1. Inv /\ [Next]_vars => [\A h \in Requests : Survives(h)]_vars
  BY TurnSurvives
<1>2. Spec => [][\A h \in Requests : Survives(h)]_vars
  BY InvInit, InvStep, <1>1, PTL DEF Spec
<1> QED
  BY <1>2 DEF SeenSurvives, Survives

-----------------------------------------------------------------------------
(* The history a turn is answered from.  Every message after the last      *)
(* question of a conversation is the answer of a turn that had asked       *)
(* before, and whoever has answered asks again before answering again: so  *)
(* the answers at the end and the turns still to answer are no more than   *)
(* the turns there are.                                                    *)

\* No more turns at a time than messages the model is shown.
FewTurns == IsFiniteSet(Requests) /\ Cardinality(Requests) <= HistoryLimit

Unanswered == {"history", "stream", "answer"}
Answering(c) == {h \in Requests : turn[h].at \in Unanswered /\ turn[h].conversation = c}
Trailing(c) ==
  {m \in MessagesOf(c) : \A n \in MessagesOf(c) : m <= n => messages[n].role # "user"}

TailOk(c) ==
  c \notin deleted =>
    Cardinality(Trailing(c)) + Cardinality(Answering(c)) <= Cardinality(Requests)

\* The question of a turn that has not read the history yet is in its conversation.
Asked(t, msgs, gone) ==
  t.at = "history" =>
    \/ t.conversation \in gone
    \/ /\ msgs[t.question] # NONE /\ msgs[t.question].conversation = t.conversation
       /\ msgs[t.question].role = "user"

TailInv ==
  /\ \A c \in ConversationId : TailOk(c)
  /\ \A h \in Requests : Asked(turn[h], messages, deleted)

(* Numbers and finite sets                                                 *)

LEMMA SmallestNumber ==
  ASSUME NEW S \in SUBSET Nat, S # {}
  PROVE  \E x \in S : \A y \in S : x <= y
<1> DEFINE less == OpToRel(<, Nat)
<1>1. PICK x \in S : \A y \in S : ~(<<y, x>> \in less)
  BY NatLessThanWellFounded, WFMin, Zenon
<1>2. \A y \in S : y < x => <<y, x>> \in less
  BY DEF OpToRel
<1> HIDE DEF less
<1>3. \A y \in S : ~(y < x)
  BY <1>1, <1>2
<1>4. \A y \in S : x <= y
  BY <1>3
<1> QED
  BY <1>4

LEMMA FiniteMessages ==
  ASSUME NEW S \in SUBSET MessageId
  PROVE  IsFiniteSet(S) /\ Cardinality(S) \in Nat
<1>1. IsFiniteSet(MessageId)
  BY FS_Interval, BoundsAssumption DEF MessageId
<1>2. IsFiniteSet(S)
  BY <1>1, FS_Subset
<1> QED
  BY <1>2, FS_CardinalityType

LEMMA FiniteAnswering ==
  ASSUME FewTurns, NEW S \in SUBSET Requests
  PROVE  /\ IsFiniteSet(S) /\ Cardinality(S) \in Nat
         /\ Cardinality(Requests) \in Nat /\ Cardinality(S) <= Cardinality(Requests)
BY FS_Subset, FS_CardinalityType DEF FewTurns

(* The last messages are no more than the limit: those after the first of  *)
(* them are fewer.                                                         *)
LEMMA RecentBounded ==
  ASSUME NEW M \in SUBSET MessageId
  PROVE  Cardinality(Recent(M)) <= HistoryLimit
<1> DEFINE R == Recent(M)
<1>1. R \in SUBSET MessageId /\ R \in SUBSET Nat /\ M \in SUBSET Nat
  BY Ids DEF Recent
<1>2. HistoryLimit \in Nat \ {0}
  BY BoundsAssumption
<1>3. CASE R = {}
  BY <1>2, <1>3, FS_EmptySet
<1>4. CASE R # {}
  <2>1. PICK m \in R : \A n \in R : m <= n
    BY <1>1, <1>4, SmallestNumber
  <2> DEFINE later == {n \in M : n > m}
  <2>2. Cardinality(later) < HistoryLimit
    BY <2>1 DEF Recent
  <2>3. R \ {m} \subseteq later
    <3> SUFFICES ASSUME NEW n \in R, n # m PROVE n \in later
      OBVIOUS
    <3>1. n \in M /\ m \in M
      BY <2>1 DEF Recent
    <3>2. m <= n /\ m \in Nat /\ n \in Nat
      BY <1>1, <2>1, <3>1
    <3> QED
      BY <3>1, <3>2
  <2>4. later \in SUBSET MessageId
    OBVIOUS
  <2> HIDE DEF later, R
  <2>5. Cardinality(R \ {m}) <= Cardinality(later)
    BY <2>3, <2>4, FiniteMessages, FS_Subset
  <2>6. Cardinality(R \ {m}) = Cardinality(R) - 1
    BY <1>1, <2>1, FiniteMessages, FS_RemoveElement
  <2>7. Cardinality(R) \in Nat /\ Cardinality(later) \in Nat
    BY <1>1, <2>4, FiniteMessages
  <2> QED
    BY <1>2, <2>2, <2>5, <2>6, <2>7 DEF R
<1> QED
  BY <1>3, <1>4

(* What is asked of the history of a turn. *)
Usable(S, q, c) ==
  /\ Cardinality(S) <= HistoryLimit
  /\ c \notin deleted =>
       /\ q \in S \/ q \notin Recent(MessagesOf(c))
       /\ \E m \in S : messages[m].role = "user" /\ \A n \in S : m <= n
       /\ \A m \in MessagesOf(c) \ S, n \in S : m < n

LEMMA HistoryShape ==
  ASSUME Inv, TailInv, FewTurns, NEW h \in Requests, turn[h].at = "history"
  PROVE  Usable(History(turn[h].conversation), turn[h].question, turn[h].conversation)
<1> DEFINE c == turn[h].conversation
           q == turn[h].question
           M == MessagesOf(c)
           R == Recent(M)
           S == History(c)
<1>1. M \in SUBSET MessageId /\ M \in SUBSET Nat
  BY Ids DEF MessagesOf
<1>2. R \subseteq M /\ S \subseteq R
  BY DEF History, FromQuestion, Recent
<1>3. Cardinality(S) <= HistoryLimit
  <2>1. Cardinality(R) <= HistoryLimit
    BY <1>1, RecentBounded
  <2>2. IsFiniteSet(R) /\ Cardinality(R) \in Nat /\ Cardinality(S) \in Nat
    BY <1>1, <1>2, FiniteMessages
  <2>3. Cardinality(S) <= Cardinality(R)
    BY <1>2, <2>2, FS_Subset
  <2> HIDE DEF S, R
  <2> QED
    BY <2>1, <2>2, <2>3, BoundsAssumption
<1> SUFFICES ASSUME c \notin deleted
             PROVE  /\ q \in S \/ q \notin R
                    /\ \E m \in S : messages[m].role = "user" /\ \A n \in S : m <= n
                    /\ \A m \in M \ S, n \in S : m < n
  BY <1>3 DEF Usable
<1>4. q \in M /\ messages[q].role = "user"
  BY DEF TailInv, Asked, Inv, TurnsOk, TurnOk, Shown, MessagesOf
<1>5. \A m \in R : m \in S <=> \E n \in R : n <= m /\ messages[n].role = "user"
  BY <1>2 DEF History, FromQuestion
<1>6. \A m \in R : messages[m].role = "user" => m \in S
  BY <1>1, <1>2, <1>5
<1>7. q \in S \/ q \notin R
  BY <1>4, <1>6
<1>8. S # {}
  <2> DEFINE asks == {m \in M : messages[m].role = "user"}
             T == Trailing(c)
  <2>1. Cardinality(T) < HistoryLimit
    <3>1. c \in ConversationId
      BY DEF Inv, TurnsOk, TurnOk, Placed
    <3>2. Cardinality(T) + Cardinality(Answering(c)) <= Cardinality(Requests)
      BY <3>1 DEF TailInv, TailOk
    <3>3. h \in Answering(c) /\ Answering(c) \in SUBSET Requests
      BY DEF Answering, Unanswered
    <3>4. Cardinality(Answering(c)) \in Nat /\ Cardinality(Answering(c)) # 0
      BY <3>3, FiniteAnswering, FS_EmptySet
    <3>5. Cardinality(T) \in Nat
      BY <1>1, FiniteMessages DEF Trailing
    <3>6. Cardinality(Requests) \in Nat /\ Cardinality(Requests) <= HistoryLimit
      BY FiniteAnswering DEF FewTurns
    <3> HIDE DEF T
    <3> QED
      BY <3>2, <3>4, <3>5, <3>6, BoundsAssumption
  \* The last question: the greatest number but MaxMessages - m is the least.
  <2>2. PICK u \in asks : \A m \in asks : m <= u
    <3> DEFINE back == {MaxMessages - m : m \in asks}
    <3>1. \A m \in asks : m \in 1..MaxMessages
      BY <1>1 DEF MessageId
    <3>2. back \in SUBSET Nat /\ back # {}
      BY <1>4, <3>1, BoundsAssumption
    <3>3. PICK b \in back : \A d \in back : b <= d
      BY <3>2, SmallestNumber
    <3>4. PICK u \in asks : b = MaxMessages - u
      BY <3>3
    <3>5. ASSUME NEW m \in asks PROVE m <= u
      <4>1. b <= MaxMessages - m
        BY <3>3
      <4> QED
        BY <3>1, <3>4, <4>1, BoundsAssumption
    <3> QED
      BY <3>5
  <2>3. {n \in M : n > u} \subseteq T
    <3> SUFFICES ASSUME NEW n \in M, n > u, NEW k \in M, n <= k, messages[k].role = "user"
                 PROVE  FALSE
      BY DEF Trailing
    <3>1. k <= u
      BY <2>2
    <3>2. u \in Nat /\ n \in Nat /\ k \in Nat
      BY <1>1, <2>2
    <3> QED
      BY <3>1, <3>2
  <2>4. Cardinality({n \in M : n > u}) < HistoryLimit
    <3> DEFINE later == {n \in M : n > u}
    <3>1. T \in SUBSET MessageId /\ later \in SUBSET MessageId
      BY <1>1 DEF Trailing
    <3>2. Cardinality(later) \in Nat /\ Cardinality(T) \in Nat /\ IsFiniteSet(T)
      BY <3>1, FiniteMessages
    <3>3. Cardinality(later) <= Cardinality(T)
      BY <2>3, <3>2, FS_Subset
    <3> HIDE DEF later, T
    <3>4. Cardinality(later) < HistoryLimit
      BY <2>1, <3>2, <3>3, BoundsAssumption
    <3> QED
      BY <3>4 DEF later
  <2>5. u \in R
    BY <2>2, <2>4 DEF Recent
  <2> QED
    BY <1>6, <2>2, <2>5
<1>9. \E m \in S : messages[m].role = "user" /\ \A n \in S : m <= n
  <2>1. S \in SUBSET Nat
    BY <1>1, <1>2
  <2>2. PICK m \in S : \A n \in S : m <= n
    BY <1>8, <2>1, SmallestNumber
  <2>3. PICK k \in R : k <= m /\ messages[k].role = "user"
    BY <1>2, <1>5, <2>2
  <2>4. k \in S
    BY <1>6, <2>3
  <2>5. k = m
    BY <2>1, <2>2, <2>3, <2>4
  <2> QED
    BY <2>2, <2>3, <2>5
<1>10. ASSUME NEW m \in M \ S, NEW n \in S PROVE m < n
  <2>1. m \in Nat /\ n \in Nat /\ n \in R
    BY <1>1, <1>2
  <2>2. CASE m \in R
    <3>1. PICK k \in R : k <= n /\ messages[k].role = "user"
      BY <1>5, <2>1
    <3>2. ~(k <= m)
      BY <1>5, <1>10, <2>2, <3>1
    <3>3. k \in Nat
      BY <1>1, <1>2
    <3> QED
      BY <2>1, <3>1, <3>2, <3>3
  <2>3. CASE m \notin R
    <3> SUFFICES ASSUME n <= m PROVE FALSE
      BY <2>1
    <3> DEFINE afterM == {k \in M : k > m}
               afterN == {k \in M : k > n}
    <3>1. afterM \subseteq afterN
      BY <1>1, <2>1
    <3>2. afterM \in SUBSET MessageId /\ afterN \in SUBSET MessageId
      BY <1>1
    <3>3. ~(Cardinality(afterM) < HistoryLimit) /\ Cardinality(afterN) < HistoryLimit
      BY <2>1, <2>3 DEF Recent
    <3> HIDE DEF afterM, afterN
    <3>4. Cardinality(afterM) <= Cardinality(afterN)
      BY <3>1, <3>2, FiniteMessages, FS_Subset
    <3>5. Cardinality(afterM) \in Nat /\ Cardinality(afterN) \in Nat
      BY <3>2, FiniteMessages
    <3> QED
      BY <3>3, <3>4, <3>5, BoundsAssumption
  <2> QED
    BY <2>2, <2>3
<1> QED
  BY <1>7, <1>9, <1>10

-----------------------------------------------------------------------------
(* The steps keep the bound                                                *)

LEMMA TailShrinks ==
  ASSUME FewTurns, NEW c \in ConversationId, TailOk(c), deleted \subseteq deleted',
         Trailing(c)' \subseteq Trailing(c), Answering(c)' \subseteq Answering(c)
  PROVE  TailOk(c)'
<1> SUFFICES ASSUME c \notin deleted'
             PROVE  Cardinality(Trailing(c)') + Cardinality(Answering(c)')
                      <= Cardinality(Requests)
  BY DEF TailOk
<1>1. Cardinality(Trailing(c)) + Cardinality(Answering(c)) <= Cardinality(Requests)
  BY DEF TailOk
<1>2. Trailing(c) \in SUBSET MessageId /\ Answering(c) \in SUBSET Requests
  BY DEF Trailing, MessagesOf, Answering
<1>3. /\ IsFiniteSet(Trailing(c)) /\ Cardinality(Trailing(c)) \in Nat
      /\ IsFiniteSet(Answering(c)) /\ Cardinality(Answering(c)) \in Nat
      /\ Cardinality(Requests) \in Nat
  BY <1>2, FiniteMessages, FiniteAnswering
<1>4. /\ Cardinality(Trailing(c)') <= Cardinality(Trailing(c))
      /\ Cardinality(Answering(c)') <= Cardinality(Answering(c))
  BY <1>3, FS_Subset
<1>5. Cardinality(Trailing(c)') \in Nat /\ Cardinality(Answering(c)') \in Nat
  BY <1>2, FiniteMessages, FiniteAnswering
<1> QED
  BY <1>1, <1>3, <1>4, <1>5

\* A turn that goes on, or ends; it does not begin to be one that is to answer.
GoesOn(t, rec) ==
  /\ rec.at \in Unanswered => t.at \in Unanswered /\ rec.conversation = t.conversation
  /\ rec.at = "history" => t.at = "history" /\ rec.question = t.question

LEMMA FewerAnswer ==
  ASSUME Inv, NEW h \in Requests, NEW rec, Goto(h, rec), GoesOn(turn[h], rec),
         NEW c \in ConversationId
  PROVE  Answering(c)' \subseteq Answering(c)
BY SlotFrame DEF Inv, Answering, GoesOn

LEMMA StillAsked ==
  ASSUME Inv, TailInv, NEW h \in Requests, NEW rec, Goto(h, rec), GoesOn(turn[h], rec),
         deleted \subseteq deleted',
         \A m \in MessageId :
           messages[m] # NONE =>
             messages[m].conversation \in deleted' \/ messages'[m] = messages[m]
  PROVE  \A g \in Requests : Asked(turn'[g], messages', deleted')
<1> SUFFICES ASSUME NEW g \in Requests PROVE Asked(turn'[g], messages', deleted')
  OBVIOUS
<1>1. Asked(turn[g], messages, deleted)
  BY DEF TailInv
<1>2. turn[g].at = "history" => turn[g].question \in MessageId
  BY DEF Inv, TurnsOk, TurnOk, Shown
<1>3. Asked(turn[g], messages', deleted')
  BY <1>1, <1>2 DEF Asked
<1>4. turn'[g] = turn[g] \/ (g = h /\ turn'[g] = rec)
  BY SlotFrame DEF Inv
<1>5. CASE turn'[g] = turn[g]
  BY <1>3, <1>5
<1>6. CASE g = h /\ turn'[g] = rec
  BY <1>3, <1>6 DEF Asked, GoesOn, Unanswered
<1> QED
  BY <1>4, <1>5, <1>6

LEMMA QuietTail ==
  ASSUME Inv, TailInv, FewTurns, NEW h \in Requests, NEW rec, Goto(h, rec),
         GoesOn(turn[h], rec), messages' = messages, deleted' = deleted
  PROVE  TailInv'
<1>1. \A c \in ConversationId : TailOk(c)'
  <2> SUFFICES ASSUME NEW c \in ConversationId PROVE TailOk(c)'
    OBVIOUS
  <2>1. Trailing(c)' = Trailing(c)
    BY DEF Trailing, MessagesOf
  <2>2. TailOk(c)
    BY DEF TailInv
  <2> QED
    BY <2>1, <2>2, FewerAnswer, TailShrinks
<1>2. \A g \in Requests : Asked(turn'[g], messages', deleted')
  BY StillAsked
<1> QED
  BY <1>1, <1>2 DEF TailInv

LEMMA EndedTail ==
  ASSUME Inv, TailInv, FewTurns, NEW h \in Requests, Finish(h),
         messages' = messages, deleted' = deleted
  PROVE  TailInv'
<1>1. GoesOn(turn[h], NoTurn)
  BY DEF GoesOn, NoTurn, Unanswered
<1> QED
  BY <1>1, QuietTail DEF Finish

(* The turns' steps that store nothing *)
LEMMA MovesTail ==
  ASSUME Inv, TailInv, FewTurns, NEW h \in Requests,
         \/ \E admin \in Admins, c \in OrNone(ConversationId) : Chat(h, admin, c)
         \/ ResolveConversation(h) \/ LoadHistory(h) \/ Delta(h) \/ StreamEnds(h)
         \/ Touch(h) \/ CloseStream(h) \/ Fault(h)
  PROVE  TailInv'
<1> DEFINE t == turn[h]
<1>1. t \in Turn /\ NoTurn \in Turn
  BY NoTurnOk DEF Inv, TypeOK, TurnOk
<1>2. messages' = messages /\ deleted' = deleted
  BY Zenon DEF Chat, ResolveConversation, LoadHistory, Delta, StreamEnds, Touch, CloseStream, Fault,
         Tables
<1>3. ASSUME NEW rec, Goto(h, rec), rec.at \notin Unanswered PROVE TailInv'
  BY <1>2, <1>3, QuietTail DEF GoesOn, Unanswered
<1>4. ASSUME NEW rec, Goto(h, rec), t.at \in Unanswered,
             rec.conversation = t.conversation, rec.question = t.question,
             rec.at # "history" \/ t.at = "history"
      PROVE  TailInv'
  BY <1>2, <1>4, QuietTail DEF GoesOn
<1>5. ASSUME NEW admin \in Admins, NEW c \in OrNone(ConversationId), Chat(h, admin, c)
      PROVE  TailInv'
  <2>1. [NoTurn EXCEPT !.at = "resolve", !.admin = admin, !.conversation = c].at = "resolve"
    BY <1>1 DEF Turn
  <2> QED
    BY <1>3, <1>5, <2>1, Zenon DEF Chat, Unanswered
<1>6. CASE ResolveConversation(h)
  <2>1. \E c : Goto(h, [t EXCEPT !.at = "question", !.conversation = c]) \/ Finish(h)
    BY <1>6, Zenon DEF ResolveConversation
  <2>2. PICK c : Goto(h, [t EXCEPT !.at = "question", !.conversation = c]) \/ Finish(h)
    BY <2>1, Zenon
  <2>3. [t EXCEPT !.at = "question", !.conversation = c].at = "question"
    BY <1>1 DEF Turn
  <2> QED
    BY <1>2, <1>3, <2>2, <2>3, EndedTail DEF Unanswered
<1>7. CASE LoadHistory(h)
  <2> DEFINE seen == History(t.conversation)
             rec == [t EXCEPT !.at = "stream", !.history = seen]
  <2>1. t.at = "history" /\ Goto(h, rec)
    BY <1>7 DEF LoadHistory
  <2> HIDE DEF seen
  <2>2. rec.at = "stream" /\ rec.conversation = t.conversation /\ rec.question = t.question
    BY <1>1 DEF Turn
  <2> HIDE DEF rec
  <2> QED
    BY <1>4, <2>1, <2>2 DEF Unanswered
<1>8. CASE Delta(h)
  <2> DEFINE more == [t EXCEPT !.text = @ + 1]
  <2>1. /\ t.at = "stream"
        /\ Goto(h, [more EXCEPT !.at = "answer"]) \/ Goto(h, [more EXCEPT !.shown = more.text])
    BY <1>8 DEF Delta
  <2>2. /\ [more EXCEPT !.at = "answer"].conversation = t.conversation
        /\ [more EXCEPT !.at = "answer"].question = t.question
        /\ [more EXCEPT !.at = "answer"].at = "answer"
    BY <1>1 DEF Turn
  <2>3. /\ [more EXCEPT !.shown = more.text].conversation = t.conversation
        /\ [more EXCEPT !.shown = more.text].question = t.question
        /\ [more EXCEPT !.shown = more.text].at = t.at
    BY <1>1 DEF Turn
  <2> HIDE DEF more
  <2> QED
    BY <1>4, <2>1, <2>2, <2>3 DEF Unanswered
<1>9. CASE StreamEnds(h)
  <2>1. t.at = "stream" /\ (Goto(h, [t EXCEPT !.at = "answer"]) \/ Finish(h))
    BY <1>9 DEF StreamEnds
  <2>2. /\ [t EXCEPT !.at = "answer"].conversation = t.conversation
        /\ [t EXCEPT !.at = "answer"].question = t.question
        /\ [t EXCEPT !.at = "answer"].at = "answer"
    BY <1>1 DEF Turn
  <2> QED
    BY <1>2, <1>4, <2>1, <2>2, EndedTail DEF Unanswered
<1>10. CASE CloseStream(h)
  <2>1. Goto(h, [t EXCEPT !.gone = TRUE])
    BY <1>10 DEF CloseStream
  <2>2. /\ [t EXCEPT !.gone = TRUE].conversation = t.conversation
        /\ [t EXCEPT !.gone = TRUE].question = t.question
        /\ [t EXCEPT !.gone = TRUE].at = t.at
    BY <1>1 DEF Turn
  <2> QED
    BY <1>3, <1>4, <2>1, <2>2
<1>11. CASE Touch(h) \/ Fault(h)
  BY <1>2, <1>11, EndedTail DEF Touch, Fault
<1> QED
  BY <1>5, <1>6, <1>7, <1>8, <1>9, <1>10, <1>11

(* A message in another conversation leaves the end of this one alone. *)
LEMMA OtherTail ==
  ASSUME Inv, NEW row \in AiMessage, Insert(row), NEW c \in ConversationId,
         row.conversation # c
  PROVE  Trailing(c)' = Trailing(c)
<1>1. /\ nextMessage \in MessageId /\ messages[nextMessage] = NONE
      /\ messages'[nextMessage] = row
      /\ \A m \in MessageId \ {nextMessage} : messages'[m] = messages[m]
  BY Inserted
<1>2. MessagesOf(c)' = MessagesOf(c)
  BY <1>1 DEF MessagesOf
<1>3. nextMessage \notin MessagesOf(c)
  BY <1>1 DEF MessagesOf
<1>4. \A m \in MessagesOf(c) : messages'[m] = messages[m]
  BY <1>1, <1>3 DEF MessagesOf
<1> QED
  BY <1>2, <1>4 DEF Trailing

LEMMA InsertKeeps ==
  ASSUME Inv, NEW row \in AiMessage, Insert(row)
  PROVE  \A m \in MessageId : messages[m] # NONE => messages'[m] = messages[m]
BY Inserted

(* A question ends the tail it is asked in. *)
LEMMA SaveQuestionTail ==
  ASSUME Inv, TailInv, FewTurns, NEW h \in Requests, SaveQuestion(h)
  PROVE  TailInv'
<1> DEFINE t == turn[h]
           rec == [t EXCEPT !.at = "history", !.question = nextMessage]
           row == [conversation |-> t.conversation, role |-> "user",
                   question |-> nextMessage, text |-> 0]
<1>1. t.at = "question" /\ TurnOk(t, conversations, messages, deleted)
  BY DEF SaveQuestion, Inv, TurnsOk
<1>2. CASE Finish(h) /\ UNCHANGED <<messages, nextMessage>>
  BY <1>2, EndedTail DEF SaveQuestion
<1>3. CASE ~(Finish(h) /\ UNCHANGED <<messages, nextMessage>>)
  <2>1. Insert(row) /\ Goto(h, rec) /\ deleted' = deleted
    BY <1>3 DEF SaveQuestion
  <2>2. nextMessage \in MessageId
    BY <2>1 DEF Insert
  <2>3. row \in AiMessage /\ row.conversation = t.conversation /\ row.role = "user"
    BY <1>1, <2>2, BoundsAssumption DEF AiMessage, TurnOk, Placed
  <2>4. /\ rec.at = "history" /\ rec.question = nextMessage
        /\ rec.conversation = t.conversation
    BY <1>1, <2>2 DEF TurnOk, Turn
  <2>5. row # NONE
    BY <2>3, RowAssumption
  <2> HIDE DEF rec, row
  <2>6. /\ turn'[h] = rec
        /\ \A g \in Requests \ {h} : turn'[g] = turn[g]
    BY <2>1, SlotFrame DEF Inv
  <2>7. messages'[nextMessage] = row
    BY <2>1, <2>3, Inserted
  <2>8. ASSUME NEW c \in ConversationId, c # t.conversation PROVE TailOk(c)'
    <3>1. Trailing(c)' = Trailing(c)
      BY <2>1, <2>3, <2>8, OtherTail
    <3>2. Answering(c)' = Answering(c)
      BY <1>1, <2>4, <2>6, <2>8 DEF Answering, Unanswered
    <3>3. TailOk(c)
      BY DEF TailInv
    <3> QED
      BY <2>1, <3>1, <3>2, <3>3, TailShrinks
  <2>9. ASSUME NEW c \in ConversationId, c = t.conversation PROVE TailOk(c)'
    <3>1. nextMessage \in MessagesOf(c)' /\ messages'[nextMessage].role = "user"
      BY <2>2, <2>3, <2>5, <2>7, <2>9 DEF MessagesOf
    <3>2. \A m \in MessagesOf(c)' : m <= nextMessage
      <4> SUFFICES ASSUME NEW m \in MessagesOf(c)' PROVE m <= nextMessage
        OBVIOUS
      <4>1. m \in MessageId /\ messages'[m] # NONE
        BY DEF MessagesOf
      <4>2. m = nextMessage \/ messages[m] # NONE
        BY <2>1, <2>3, <4>1, Inserted
      <4>3. m = nextMessage \/ m < nextMessage
        BY <4>1, <4>2 DEF Inv, MessageNumbering
      <4> QED
        BY <2>2, <4>1, <4>3, Ids
    <3>3. Trailing(c)' = {}
      BY <3>1, <3>2 DEF Trailing
    <3>4. Answering(c)' \in SUBSET Requests
      BY DEF Answering
    <3>5. /\ Cardinality(Answering(c)') \in Nat /\ Cardinality(Requests) \in Nat
          /\ Cardinality(Answering(c)') <= Cardinality(Requests)
      BY <3>4, FiniteAnswering
    <3>6. Cardinality(Trailing(c)') = 0
      BY <3>3, FS_EmptySet
    <3> QED
      BY <3>5, <3>6 DEF TailOk
  <2>10. ASSUME NEW g \in Requests PROVE Asked(turn'[g], messages', deleted')
    <3>1. CASE g = h
      BY <2>2, <2>3, <2>4, <2>5, <2>6, <2>7, <3>1 DEF Asked
    <3>2. CASE g # h
      <4>1. turn'[g] = turn[g] /\ Asked(turn[g], messages, deleted)
        BY <2>6, <3>2 DEF TailInv
      <4>2. turn[g].at = "history" => turn[g].question \in MessageId
        BY DEF Inv, TurnsOk, TurnOk, Shown
      <4>3. \A m \in MessageId : messages[m] # NONE => messages'[m] = messages[m]
        BY <2>1, <2>3, InsertKeeps
      <4> QED
        BY <2>1, <4>1, <4>2, <4>3 DEF Asked
    <3> QED
      BY <3>1, <3>2
  <2>11. \A c \in ConversationId : TailOk(c)'
    BY <2>8, <2>9
  <2> QED
    BY <2>10, <2>11 DEF TailInv
<1> QED
  BY <1>2, <1>3

(* An answer more is a turn less that is to answer. *)
LEMMA SaveAnswerTail ==
  ASSUME Inv, TailInv, FewTurns, NEW h \in Requests, SaveAnswer(h)
  PROVE  TailInv'
<1> DEFINE t == turn[h]
           rec == [t EXCEPT !.at = "touch"]
           row == [conversation |-> t.conversation, role |-> "assistant",
                   question |-> t.question, text |-> t.text]
<1>1. t.at = "answer" /\ TurnOk(t, conversations, messages, deleted)
  BY DEF SaveAnswer, Inv, TurnsOk
<1>2. CASE Finish(h) /\ UNCHANGED <<messages, nextMessage>>
  BY <1>2, EndedTail DEF SaveAnswer
<1>3. CASE ~(Finish(h) /\ UNCHANGED <<messages, nextMessage>>)
  <2>1. Insert(row) /\ Goto(h, rec) /\ deleted' = deleted
    BY <1>3 DEF SaveAnswer
  <2>2. row \in AiMessage /\ row.conversation = t.conversation
    BY <1>1 DEF AiMessage, TurnOk, Placed, Shown, Turn
  <2>3. rec.at = "touch"
    BY <1>1 DEF TurnOk, Turn
  <2> HIDE DEF rec, row
  <2>4. GoesOn(t, rec)
    BY <2>3 DEF GoesOn, Unanswered
  <2>5. /\ turn'[h] = rec
        /\ \A g \in Requests \ {h} : turn'[g] = turn[g]
    BY <2>1, SlotFrame DEF Inv
  <2>6. \A m \in MessageId : messages[m] # NONE => messages'[m] = messages[m]
    BY <2>1, <2>2, InsertKeeps
  <2>7. ASSUME NEW c \in ConversationId, c # t.conversation PROVE TailOk(c)'
    <3>1. Trailing(c)' = Trailing(c)
      BY <2>1, <2>2, <2>7, OtherTail
    <3>2. Answering(c)' \subseteq Answering(c)
      BY <2>1, <2>4, FewerAnswer
    <3>3. TailOk(c)
      BY DEF TailInv
    <3> QED
      BY <2>1, <3>1, <3>2, <3>3, TailShrinks
  <2>8. ASSUME NEW c \in ConversationId, c = t.conversation PROVE TailOk(c)'
    <3> DEFINE T == Trailing(c)
               A == Answering(c)
               new == nextMessage
    <3> SUFFICES ASSUME c \notin deleted
                 PROVE  Cardinality(Trailing(c)') + Cardinality(Answering(c)')
                          <= Cardinality(Requests)
      BY <2>1 DEF TailOk
    <3>1. Cardinality(T) + Cardinality(A) <= Cardinality(Requests)
      BY DEF TailInv, TailOk
    <3>2. T \in SUBSET MessageId /\ A \in SUBSET Requests /\ h \in A
      BY <1>1, <2>8 DEF Trailing, MessagesOf, Answering, Unanswered
    <3>3. Answering(c)' \subseteq A \ {h}
      BY <2>3, <2>5 DEF Answering, Unanswered
    <3>4. Trailing(c)' \subseteq T \cup {new}
      <4> SUFFICES ASSUME NEW m \in Trailing(c)', m # new PROVE m \in T
        OBVIOUS
      <4>1. m \in MessageId /\ messages'[m] # NONE /\ messages'[m].conversation = c
        BY DEF Trailing, MessagesOf
      <4>2. messages[m] = messages'[m]
        BY <2>1, <2>2, <4>1, Inserted
      <4>3. m \in MessagesOf(c)
        BY <4>1, <4>2 DEF MessagesOf
      <4>4. ASSUME NEW n \in MessagesOf(c), m <= n PROVE messages[n].role # "user"
        <5>1. n \in MessageId /\ messages[n] # NONE /\ messages'[n] = messages[n]
          BY <2>6 DEF MessagesOf
        <5>2. n \in MessagesOf(c)'
          BY <5>1 DEF MessagesOf
        <5>3. messages'[n].role # "user"
          BY <4>4, <5>2 DEF Trailing
        <5> QED
          BY <5>1, <5>3
      <4> QED
        BY <4>3, <4>4 DEF Trailing
    <3>5. new \in MessageId
      BY <2>1 DEF Insert
    <3>6. /\ IsFiniteSet(T) /\ Cardinality(T) \in Nat
          /\ IsFiniteSet(A) /\ Cardinality(A) \in Nat /\ Cardinality(Requests) \in Nat
      BY <3>2, FiniteMessages, FiniteAnswering
    <3> HIDE DEF T, A, new
    <3>7. /\ IsFiniteSet(T \cup {new}) /\ Cardinality(T \cup {new}) <= Cardinality(T) + 1
          /\ IsFiniteSet(A \ {h}) /\ Cardinality(A \ {h}) = Cardinality(A) - 1
      <4>1. /\ IsFiniteSet(T \cup {new})
            /\ Cardinality(T \cup {new}) \in {Cardinality(T), Cardinality(T) + 1}
        BY <3>6, FS_AddElement
      <4>2. IsFiniteSet(A \ {h}) /\ Cardinality(A \ {h}) = Cardinality(A) - 1
        BY <3>2, <3>6, FS_RemoveElement
      <4> QED
        BY <3>6, <4>1, <4>2
    <3>8. /\ Cardinality(Trailing(c)') <= Cardinality(T \cup {new})
          /\ Cardinality(Answering(c)') <= Cardinality(A \ {h})
      BY <3>3, <3>4, <3>7, FS_Subset
    <3>9. Trailing(c)' \in SUBSET MessageId /\ Answering(c)' \in SUBSET Requests
      BY <3>2, <3>3, <3>4, <3>5
    <3>10. /\ Cardinality(Trailing(c)') \in Nat /\ Cardinality(Answering(c)') \in Nat
           /\ Cardinality(T \cup {new}) \in Nat
      BY <3>7, <3>9, FiniteMessages, FiniteAnswering, FS_CardinalityType
    <3> QED
      BY <3>1, <3>6, <3>7, <3>8, <3>10
  <2>9. \A g \in Requests : Asked(turn'[g], messages', deleted')
    BY <2>1, <2>4, <2>6, StillAsked
  <2>10. \A c \in ConversationId : TailOk(c)'
    BY <2>7, <2>8
  <2> QED
    BY <2>9, <2>10 DEF TailInv
<1> QED
  BY <1>2, <1>3

LEMMA DropTail ==
  ASSUME Inv, TailInv, FewTurns, NEW S \in SUBSET ConversationId, Drop(S), turn' = turn
  PROVE  TailInv'
<1>1. /\ messages' = [m \in MessageId |->
           IF messages[m] # NONE /\ messages[m].conversation \in S THEN NONE ELSE messages[m]]
      /\ deleted' = deleted \cup S
  BY DEF Drop
<1>2. ASSUME NEW c \in ConversationId PROVE TailOk(c)'
  <2>1. CASE c \in S
    BY <1>1, <2>1 DEF TailOk
  <2>2. CASE c \notin S
    <3>1. MessagesOf(c)' = MessagesOf(c) /\ \A m \in MessagesOf(c) : messages'[m] = messages[m]
      BY <1>1, <2>2 DEF MessagesOf
    <3>2. Trailing(c)' = Trailing(c) /\ Answering(c)' = Answering(c)
      BY <3>1 DEF Trailing, Answering
    <3>3. TailOk(c)
      BY DEF TailInv
    <3> QED
      BY <1>1, <3>2, <3>3, TailShrinks
  <2> QED
    BY <2>1, <2>2
<1>3. ASSUME NEW g \in Requests PROVE Asked(turn'[g], messages', deleted')
  <2>1. Asked(turn[g], messages, deleted)
    BY DEF TailInv
  <2>2. turn[g].at = "history" => turn[g].question \in MessageId
    BY DEF Inv, TurnsOk, TurnOk, Shown
  <2> QED
    BY <1>1, <2>1, <2>2 DEF Asked
<1> QED
  BY <1>2, <1>3 DEF TailInv

LEMMA InitTail == ASSUME FewTurns, Init PROVE TailInv
<1>1. \A h \in Requests : turn[h] = NoTurn
  BY DEF Init
<1>2. \A h \in Requests : Asked(turn[h], messages, deleted)
  BY <1>1 DEF NoTurn, Asked
<1>3. ASSUME NEW c \in ConversationId PROVE TailOk(c)
  <2>1. Answering(c) = {}
    BY <1>1 DEF Answering, NoTurn, Unanswered
  <2>2. Trailing(c) = {}
    BY DEF Init, Trailing, MessagesOf
  <2>3. Cardinality(Requests) \in Nat
    BY FiniteAnswering
  <2> QED
    BY <2>1, <2>2, <2>3, FS_EmptySet DEF TailOk
<1> QED
  BY <1>2, <1>3 DEF TailInv

LEMMA NextTail == ASSUME FewTurns, Inv, TailInv, [Next]_vars PROVE TailInv'
<1>1. CASE UNCHANGED vars
  BY <1>1 DEF vars, TailInv, TailOk, Trailing, Answering, MessagesOf
<1>2. ASSUME NEW h \in Requests,
             \/ \E admin \in Admins, c \in OrNone(ConversationId) : Chat(h, admin, c)
             \/ Proceed(h) \/ CloseStream(h) \/ Fault(h)
      PROVE  TailInv'
  BY <1>2, MovesTail, SaveQuestionTail, SaveAnswerTail DEF Proceed
<1>3. ASSUME NEW admin \in Admins, RemoveAdmin(admin) PROVE TailInv'
  <2> DEFINE S == {c \in ConversationId : Owns(admin, c)}
  <2>1. S \in SUBSET ConversationId /\ Drop(S) /\ turn' = turn
    BY <1>3 DEF RemoveAdmin
  <2> HIDE DEF S
  <2> QED
    BY <2>1, DropTail
<1>4. ASSUME NEW admin \in Admins, NEW c \in ConversationId, DeleteConversation(admin, c)
      PROVE  TailInv'
  <2>1. {c} \in SUBSET ConversationId /\ Drop({c}) /\ turn' = turn
    BY <1>4 DEF DeleteConversation
  <2> QED
    BY <2>1, DropTail
<1> QED
  BY <1>1, <1>2, <1>3, <1>4 DEF Next

\* What HistoryIsUsable says of one turn.
UsableHistory(h) ==
  turn[h].at = "history" /\ turn'[h].at = "stream" =>
    LET S == turn'[h].history
    IN  /\ Cardinality(S) <= HistoryLimit
        /\ turn[h].conversation \notin deleted =>
             /\ \/ turn[h].question \in S
                \/ turn[h].question \notin Recent(MessagesOf(turn[h].conversation))
             /\ \E m \in S : messages[m].role = "user" /\ \A n \in S : m <= n
             /\ \A m \in MessagesOf(turn[h].conversation) \ S, n \in S : m < n

(* A turn that goes from reading the history to the model has read it. *)
LEMMA HistoryRead ==
  ASSUME Inv, [Next]_vars, NEW h \in Requests,
         turn[h].at = "history", turn'[h].at = "stream"
  PROVE  turn'[h].history = History(turn[h].conversation)
<1> DEFINE t == turn[h]
<1>1. t \in Turn /\ NoTurn.at = "idle"
  BY DEF Inv, TypeOK, NoTurn
<1>2. ASSUME NEW g \in Requests, NEW rec, Goto(g, rec), g # h PROVE FALSE
  BY <1>2, SlotFrame DEF Inv
<1>3. ASSUME NEW rec, Goto(h, rec), rec.at # "stream" PROVE FALSE
  BY <1>3, SlotFrame DEF Inv
<1>4. turn' # turn /\ ~UNCHANGED vars
  BY DEF vars
<1>5. PICK g \in Requests :
        \/ \E admin \in Admins, c \in OrNone(ConversationId) : Chat(g, admin, c)
        \/ Proceed(g) \/ CloseStream(g) \/ Fault(g)
  BY <1>4 DEF Next, RemoveAdmin, DeleteConversation
<1>6. g = h
  BY <1>2, <1>5, Zenon DEF Proceed, Chat, CloseStream, ResolveConversation, SaveQuestion,
     LoadHistory, Delta, StreamEnds, SaveAnswer, Touch, Finish, Fault
<1>7. ~Fault(h)
  BY <1>1, <1>3 DEF Fault, Finish
<1>8. ~CloseStream(h)
  <2>1. [t EXCEPT !.gone = TRUE].at = "history"
    BY <1>1 DEF Turn
  <2> QED
    BY <1>3, <2>1 DEF CloseStream
<1>9. LoadHistory(h)
  BY <1>1, <1>5, <1>6, <1>7, <1>8, Zenon DEF Proceed, Chat, ResolveConversation, SaveQuestion,
     Delta, StreamEnds, SaveAnswer, Touch
<1>10. turn'[h] = [t EXCEPT !.at = "stream", !.history = History(t.conversation)]
  BY <1>9, SlotFrame DEF LoadHistory, Inv
<1> QED
  BY <1>1, <1>10 DEF Turn

(* What the model is asked with is no more than the limit, begins with a   *)
(* question, and misses nothing in between, however many administrators,   *)
(* conversations and messages there are, whatever turns of a conversation  *)
(* overlap and whatever is deleted or fails: as long as no more turns are  *)
(* in progress than messages are shown.  With more of them the answers of  *)
(* the others may fill the limit, and nothing is left to ask with.         *)
THEOREM HistoryStaysUsable == FewTurns => (Spec => HistoryIsUsable)
<1> SUFFICES ASSUME FewTurns PROVE Spec => HistoryIsUsable
  OBVIOUS
<1>1. ASSUME Inv, TailInv, [Next]_vars, NEW h \in Requests PROVE UsableHistory(h)
  BY <1>1, HistoryShape, HistoryRead DEF UsableHistory, Usable
<1>2. Inv /\ TailInv /\ [Next]_vars => [\A h \in Requests : UsableHistory(h)]_vars
  BY <1>1
<1>3. Init => TailInv
  BY InitTail
<1>4. Inv /\ TailInv /\ [Next]_vars => TailInv'
  BY NextTail
<1>5. Spec => [][\A h \in Requests : UsableHistory(h)]_vars
  BY InvInit, InvStep, <1>2, <1>3, <1>4, PTL DEF Spec
<1> QED
  BY <1>5 DEF HistoryIsUsable, UsableHistory
=============================================================================
