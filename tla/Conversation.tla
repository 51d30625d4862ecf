---------------------------- MODULE Conversation ----------------------------
(* One user's thread with the dashboard assistant: a chat request loads the *)
(* stored messages, lets the model take at most MaxTurns turns, each a      *)
(* reply or one dispatched tool call, and stores the trimmed thread when    *)
(* the model has replied or asks for confirmation.  A message is reduced to *)
(* its role, the identifier of the tool calls or of the answered call in it *)
(* and the order in which it was written.  The model's choices are free.    *)
EXTENDS Naturals, Sequences
CONSTANTS Sessions,     \* chat requests that may be in flight at a time
          Campaigns,    \* campaigns a tool may return
          NoCampaign,   \* the empty active_campaign_id
          MaxMessages,  \* MAX_MESSAGES, 20 in the code
          MaxTurns,     \* _MAX_TURNS, 4 in the code
          MaxIds,       \* bound on the messages ever written
          MaxCalls      \* bound on the requests ever made
VARIABLES row,      \* whether the assistant_conversation row exists
          thread,   \* its messages
          active,   \* its active_campaign_id
          fresh,    \* the next message identifier
          cleared,  \* the value of fresh at the last "Start over"
          calls, raced, tx
vars == <<row, thread, active, fresh, cleared, calls, raced, tx>>

Idle == [busy |-> FALSE]

(* Messages: a question, a reply, an assistant turn holding tool_use blocks *)
(* (the model may emit two although it is told to pick one) and the user    *)
(* message holding the tool_result of the first of them.                    *)
Question(i) == [role |-> "user", at |-> i, uses |-> {}, answers |-> {}]
Reply(i)    == [role |-> "assistant", at |-> i, uses |-> {}, answers |-> {}]
ToolUse(i, n) == [role |-> "assistant", at |-> i, uses |-> {i} \X (1..n), answers |-> {}]
ToolResult(i) == [role |-> "user", at |-> i + 1, uses |-> {}, answers |-> {<<i, 1>>}]

KnownUses(messages) == UNION {messages[i].uses : i \in DOMAIN messages}

Init ==
  /\ row = FALSE /\ thread = <<>> /\ active = NoCampaign
  /\ fresh = 1 /\ cleared = 1 /\ calls = 0 /\ raced = FALSE
  /\ tx = [s \in Sessions |-> Idle]

Opens(messages) ==
  /\ Head(messages).role = "user"
  /\ Head(messages).answers \subseteq KnownUses(messages)

(* The thread cut without looking at where the cut falls. *)
TrimBlindly(messages) ==
  IF Len(messages) <= MaxMessages THEN messages
  ELSE SubSeq(messages, Len(messages) - MaxMessages + 1, Len(messages))

(* The thread cut at its end instead of its beginning. *)
TrimNewest(messages) ==
  IF Len(messages) <= MaxMessages THEN messages
  ELSE SubSeq(messages, 1, MaxMessages)

(* The longest suffix of at most MaxMessages that opens with a user message *)
(* none of whose results dangles.                                           *)
Trim(messages) ==
  IF Len(messages) <= MaxMessages THEN messages
  ELSE LET Suffix(i) == SubSeq(messages, i, Len(messages))
           starts == {i \in (Len(messages) - MaxMessages + 1)..Len(messages) :
                         Opens(Suffix(i))}
       IN IF starts = {} THEN <<>>
          ELSE Suffix(CHOOSE i \in starts : \A j \in starts : i <= j)

Overlaps == raced \/ \E o \in Sessions : tx[o].busy

(* The request begins: the history is read and the question appended. *)
LoadHistory(s) ==
  /\ ~tx[s].busy /\ calls < MaxCalls /\ fresh <= MaxIds
  /\ calls' = calls + 1 /\ raced' = Overlaps /\ fresh' = fresh + 1
  /\ tx' = [tx EXCEPT ![s] =
       [busy |-> TRUE, turn |-> 0, asked |-> fresh, focus |-> NoCampaign,
        row |-> TRUE, messages |-> Append(thread, Question(fresh))]]
  /\ UNCHANGED <<row, thread, active, cleared>>

(* The focus a request leaves: only a request that set it writes it. *)
Focused(s) == IF tx[s].focus = NoCampaign THEN active ELSE tx[s].focus

(* The focus of a first chat inserts the conversation row (tx[s].row turns  *)
(* FALSE): if another first chat has inserted it meanwhile, the commit fails.*)
RowFits(s) == tx[s].row \/ ~row

(* save_history and the commit of the request. *)
SaveHistory(s, messages) ==
  /\ RowFits(s)
  /\ row' = TRUE /\ thread' = Trim(messages) /\ active' = Focused(s)
  /\ tx' = [tx EXCEPT ![s] = Idle]
  /\ UNCHANGED <<cleared, calls, raced>>

Thinking(s) == tx[s].busy /\ tx[s].turn < MaxTurns /\ fresh <= MaxIds

(* The model talks: its reply ends the exchange. *)
Answer(s) ==
  /\ Thinking(s) /\ fresh' = fresh + 1
  /\ SaveHistory(s, Append(tx[s].messages, Reply(fresh)))

WithTool(s, n) == tx[s].messages \o <<ToolUse(fresh, n), ToolResult(fresh)>>

(* A tool runs, or fails with an error that becomes its result; a campaign  *)
(* in its data becomes the focus; the model gets the result next turn.      *)
DispatchTool(s, n, c) ==
  /\ Thinking(s) /\ fresh' = fresh + 2
  /\ tx' = [tx EXCEPT ![s].turn = @ + 1, ![s].messages = WithTool(s, n),
                      ![s].focus = IF c = NoCampaign THEN @ ELSE c,
                      ![s].row = @ /\ (c # NoCampaign => row)]
  /\ UNCHANGED <<row, thread, active, cleared, calls, raced>>

(* A tool asks for confirmation: the exchange ends with its result. *)
AskConfirmation(s, n) ==
  /\ Thinking(s) /\ fresh' = fresh + 2
  /\ SaveHistory(s, WithTool(s, n))

(* An unknown tool, or MaxTurns turns without a reply: AssistantError.  The *)
(* page answers 200, so what the tools wrote is committed, the exchange is  *)
(* not stored.                                                              *)
GiveUp(s) ==
  /\ tx[s].busy /\ RowFits(s)
  /\ active' = Focused(s) /\ row' = (row \/ tx[s].focus # NoCampaign)
  /\ tx' = [tx EXCEPT ![s] = Idle]
  /\ UNCHANGED <<thread, fresh, cleared, calls, raced>>

(* The model's API fails, or the row of two first chats collides: 500. *)
Fail(s) ==
  /\ tx[s].busy
  /\ tx' = [tx EXCEPT ![s] = Idle]
  /\ UNCHANGED <<row, thread, active, fresh, cleared, calls, raced>>

(* "Start over" that forgets the focus only. *)
ForgetFocus(messages) == messages
Forget(messages) == <<>>

ClearHistory ==
  /\ calls < MaxCalls /\ row
  /\ calls' = calls + 1 /\ raced' = Overlaps
  /\ thread' = Forget(thread) /\ active' = NoCampaign /\ cleared' = fresh
  /\ UNCHANGED <<row, fresh, tx>>

Next ==
  \/ \E s \in Sessions :
       \/ LoadHistory(s) \/ Answer(s) \/ GiveUp(s) \/ Fail(s)
       \/ \E n \in 1..2 : AskConfirmation(s, n)
       \/ \E n \in 1..2, c \in Campaigns \cup {NoCampaign} : DispatchTool(s, n, c)
  \/ ClearHistory

Spec == Init /\ [][Next]_vars

(* The thread memory.py:107 promises the model: at most MAX_MESSAGES, the   *)
(* first message is the user's, and every tool_result answers a tool_use of *)
(* the message right before it, whatever exchanges were trimmed away.       *)
ThreadReplayable ==
  /\ Len(thread) <= MaxMessages
  /\ thread # <<>> => thread[1].role = "user" /\ thread[1].answers = {}
  /\ \A i \in 2..Len(thread) : thread[i].answers \subseteq thread[i - 1].uses

(* "newest messages are always preserved": a stored thread still holds the  *)
(* question it answers, so one exchange never fills the window by itself.   *)
NewestKeptStep ==
  thread' # thread /\ thread' # <<>> =>
    \E s \in Sessions : tx[s].busy /\
      \E i \in DOMAIN thread' : thread'[i] = Question(tx[s].asked)

(* After "Start over" (clear_history) no message written before it comes    *)
(* back, unless a chat was in flight at the time.                           *)
StartedOver ==
  raced \/ \A i \in DOMAIN thread : thread[i].at >= cleared
=============================================================================
