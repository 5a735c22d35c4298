---------------------------- MODULE SavedAnswers ----------------------------
(***************************************************************************)
(* The bookmarks of a user (saved_answers.py) and the deletion of the      *)
(* conversations the answers stand in (conversations.py).  Rows are        *)
(* deleted softly, and saving again takes the deleted row back; a partial  *)
(* unique index allows one active row per user and answer.  A call reads   *)
(* in one step and writes in the next.                                     *)
(***************************************************************************)
EXTENDS Integers, FiniteSets

CONSTANTS
  Req,            \* the calls that may be in flight at the same time
  Users,
  Conversations,  \* ids of conversations, and of the answer in each (bounds)
  Rows,           \* ids of saved_answers (a bound)
  Nobody

VARIABLES
  thread,   \* conversations: owner, deleted, and whether a message is readable
  saved,    \* saved_answers
  txn,      \* the calls in flight
  cleared   \* history: users who deleted all and wrote nothing since

vars == <<thread, saved, txn, cleared>>

-----------------------------------------------------------------------------
NoThread == [owner |-> Nobody, deleted |-> FALSE, readable |-> FALSE]
NoSaved  == [user |-> Nobody, answer |-> Nobody, deleted |-> FALSE]

Idle == [call |-> "none"]

Free(r) == txn[r] = Idle

\* _get_owned_answer, _get_owned_conversation
Owned(u, c) == thread[c].owner = u /\ ~ thread[c].deleted

\* _owned_history_conversations_stmt: messages kept without history do not count
History(u) == {c \in Conversations : Owned(u, c) /\ thread[c].readable}

Active(u, c) == {i \in Rows : saved[i] = [user |-> u, answer |-> c, deleted |-> FALSE]}

Deleted(u, c) == {i \in Rows : saved[i] = [user |-> u, answer |-> c, deleted |-> TRUE]}

\* a new row has an id of its own
Unused ==
  {i \in Rows : saved[i] = NoSaved /\ \A q \in Req : txn[q].call = "save" => txn[q].row # i}

-----------------------------------------------------------------------------
\* a chat request is answered (ChatStream): a new conversation, or one more
\* message, readable or not
Chat(r, u, c, history) ==
  /\ Free(r)
  /\ thread[c] = NoThread \/ Owned(u, c)
  /\ thread' = [thread EXCEPT ![c] =
       [owner |-> u, deleted |-> FALSE, readable |-> @.readable \/ history]]
  /\ cleared' = IF history THEN cleared \ {u} ELSE cleared
  /\ UNCHANGED <<saved, txn>>

\* the row save_answer takes back, or a new one
RowToSave(u, c) == IF Deleted(u, c) # {} THEN Deleted(u, c) ELSE Unused

\* save_answer: an active row is all it wants
Save(r, u, c) ==
  /\ Free(r)
  /\ Owned(u, c)
  /\ Active(u, c) = {}
  /\ \E i \in RowToSave(u, c) :
       txn' = [txn EXCEPT ![r] = [call |-> "save", row |-> i, user |-> u, answer |-> c]]
  /\ UNCHANGED <<thread, saved, cleared>>

\* uq_saved_answers_user_answer_active
IndexAllows(u, c, i) == Active(u, c) \subseteq {i}

CommitSave(r) ==
  LET t == txn[r]
  IN  /\ t.call = "save"
      /\ IF IndexAllows(t.user, t.answer, t.row)
         THEN saved' = [saved EXCEPT ![t.row] =
                          [user |-> t.user, answer |-> t.answer, deleted |-> FALSE]]
         ELSE UNCHANGED saved
      /\ txn' = [txn EXCEPT ![r] = Idle]
      /\ UNCHANGED <<thread, cleared>>

\* unsave_answer, whether its conversation was deleted or not
Unsave(r, u, i) ==
  /\ Free(r)
  /\ saved[i].user = u /\ ~ saved[i].deleted
  /\ txn' = [txn EXCEPT ![r] = [call |-> "unsave", row |-> i]]
  /\ UNCHANGED <<thread, saved, cleared>>

CommitUnsave(r) ==
  /\ txn[r].call = "unsave"
  /\ saved' = [saved EXCEPT ![txn[r].row].deleted = TRUE]
  /\ txn' = [txn EXCEPT ![r] = Idle]
  /\ UNCHANGED <<thread, cleared>>

\* delete_conversation, readable or not
DeleteConversation(r, u, c) ==
  /\ Free(r)
  /\ Owned(u, c)
  /\ txn' = [txn EXCEPT ![r] = [call |-> "delete", user |-> u, threads |-> {c}, all |-> FALSE]]
  /\ UNCHANGED <<thread, saved, cleared>>

\* delete_all_conversations
DeleteAll(r, u) ==
  /\ Free(r)
  /\ txn' = [txn EXCEPT ![r] =
       [call |-> "delete", user |-> u, threads |-> History(u), all |-> TRUE]]
  /\ UNCHANGED <<thread, saved, cleared>>

CommitDelete(r) ==
  LET t == txn[r]
  IN  /\ t.call = "delete"
      /\ thread' = [c \in Conversations |->
                      IF c \in t.threads THEN [thread[c] EXCEPT !.deleted = TRUE] ELSE thread[c]]
      /\ cleared' = IF t.all THEN cleared \union {t.user} ELSE cleared
      /\ txn' = [txn EXCEPT ![r] = Idle]
      /\ UNCHANGED saved

Abort(r) ==
  /\ ~ Free(r)
  /\ txn' = [txn EXCEPT ![r] = Idle]
  /\ UNCHANGED <<thread, saved, cleared>>

-----------------------------------------------------------------------------
Init ==
  /\ thread = [c \in Conversations |-> NoThread]
  /\ saved = [i \in Rows |-> NoSaved]
  /\ txn = [r \in Req |-> Idle]
  /\ cleared = {}

Next ==
  \E r \in Req :
    \/ \E u \in Users, c \in Conversations :
         \/ \E history \in BOOLEAN : Chat(r, u, c, history)
         \/ Save(r, u, c)
         \/ DeleteConversation(r, u, c)
    \/ \E u \in Users, i \in Rows : Unsave(r, u, i)
    \/ \E u \in Users : DeleteAll(r, u)
    \/ CommitSave(r) \/ CommitUnsave(r) \/ CommitDelete(r)
    \/ Abort(r)

Spec == Init /\ [][Next]_vars

-----------------------------------------------------------------------------
(* Properties.                                                             *)

\* However saves, removals and deletions of conversations overlap: a user has
\* an answer saved once, and saved answers only from conversations of their own.
SavedOnceByOwner ==
  \A i, j \in Rows :
    /\ saved[i] # NoSaved => thread[saved[i].answer].owner = saved[i].user
    /\ saved[i] # NoSaved /\ saved[i] = saved[j] /\ ~ saved[i].deleted => i = j

\* One call at a time, saving again always takes the same row back, so its
\* saved_at and its audit trail stay with it.
RowIsTakenBack ==
  \A i, j \in Rows :
    saved[i] # NoSaved /\ saved[i].user = saved[j].user /\ saved[i].answer = saved[j].answer =>
      i = j

\* One call at a time: after deleting all, a user's history is empty until the
\* next message that is kept (conversation-history.md).
HistoryIsCleared ==
  \A u \in cleared : History(u) = {}

=============================================================================
