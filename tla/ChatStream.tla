----------------------------- MODULE ChatStream -----------------------------
(***************************************************************************)
(* ChatStreamingService (chat_streaming.py): one task per stream runs the  *)
(* answer workflow, stores its result and speaks to the client through a   *)
(* queue, while the client may read, go away, cancel and come back.        *)
(*                                                                         *)
(* Putting an event on the unbounded queue does not suspend a task, so a   *)
(* task runs without interruption to the await of the workflow, and from   *)
(* there to its end: neither a cancellation nor a disconnect of the stream *)
(* can come in between.  The database can change at any time: other        *)
(* replicas share it.  The workflow is the one AnswerTask describes.       *)
(*                                                                         *)
(* This is one instance of the service and the streams of users who signed *)
(* in.  The API builds an instance for every request, so there CancelStream*)
(* and Reconnect never find the stream: those two actions are what the     *)
(* service offers whoever keeps an instance, as its unit tests do.         *)
(***************************************************************************)
EXTENDS Naturals, SequencesExt

CONSTANTS
  Streams,        \* the streams that may be started
  Conversations,  \* the ids of conversations
  ConversationOf, \* each stream's conversation
  Users,          \* the users who ask
  UserOf,         \* each stream's user
  Nobody          \* the owner of a conversation that does not exist

ASSUME RequestAssumption ==
  /\ ConversationOf \in [Streams -> Conversations]
  /\ UserOf \in [Streams -> Users]
  /\ Nobody \notin Users

VARIABLES
  pc,            \* where the stream's task stands
  cancel,        \* the streams whose cancel_event is set
  orch,          \* the outcome of the workflow of each stream (AnswerTask)
  history,       \* _event_history
  active,        \* _active_handles
  completed,     \* _completed_streams
  connected,     \* the streams whose client reads the response
  read,          \* how many events its queue has handed out
  view,          \* the events the client has seen, over all its connections
  conversation,  \* conversations, with the streams whose messages they hold
  answers        \* the streams whose answer is stored

taskVars == <<pc, orch, history, active, completed>>
clientVars == <<cancel, connected, read, view>>
dbVars == <<conversation, answers>>
vars == <<taskVars, clientVars, dbVars>>

Task == INSTANCE AnswerTask WITH Requests <- Streams, outcome <- orch

-----------------------------------------------------------------------------
Events == {"accepted", "classifying", "retrieving", "verifying", "final_answer",
           "completed", "cancelled", "error", "complete"}

\* the task: created, waiting for the workflow, or storing its result with the
\* conversation there or not there when it looked
Places == {"none", "created", "waiting", "inserting", "appending", "ended"}

Absent == [status |-> "absent", owner |-> Nobody, messages |-> {}]

\* _emit; in the order of the statements
Emit(s, events) == history' = [history EXCEPT ![s] = @ \o events]

\* seeded fault: the handle of an ended stream is not dropped
EndKeepsHandle(s) ==
  /\ pc' = [pc EXCEPT ![s] = "ended"]
  /\ completed' = completed \union {s}
  /\ UNCHANGED active

\* the finally clause: the queue is closed
End(s) ==
  /\ pc' = [pc EXCEPT ![s] = "ended"]
  /\ completed' = completed \union {s}
  /\ active' = active \ {s}

-----------------------------------------------------------------------------
(* The task of a stream.                                                   *)

StartStream(s) ==
  /\ pc[s] = "none"
  /\ pc' = [pc EXCEPT ![s] = "created"]
  /\ active' = active \union {s}
  /\ connected' = connected \union {s}
  /\ UNCHANGED <<orch, history, completed, cancel, read, view, dbVars>>

\* up to the await of the workflow
Accept(s) ==
  /\ pc[s] = "created"
  /\ \/ /\ s \in cancel
        /\ Emit(s, <<"accepted", "cancelled", "complete">>)
        /\ End(s)
        /\ UNCHANGED orch
     \/ /\ s \notin cancel
        /\ Emit(s, <<"accepted", "classifying", "retrieving">>)
        /\ pc' = [pc EXCEPT ![s] = "waiting"]
        /\ orch' = [orch EXCEPT ![s] = "running"]
        /\ UNCHANGED <<active, completed>>
  /\ UNCHANGED <<clientVars, dbVars>>

\* the workflow ends; no statement that runs cancels it
Answer(s) ==
  /\ Task!Finish(s)
  /\ orch'[s] # "cancelled"
  /\ UNCHANGED <<pc, history, active, completed, clientVars, dbVars>>

\* the stream ends without another event: an exception nobody catches
Crash(s) ==
  /\ End(s)
  /\ UNCHANGED <<orch, history, clientVars, dbVars>>

\* seeded fault: only results are waited for
ResultsOnly(s) == FALSE

WorkflowRaises(s) ==
  /\ pc[s] = "waiting"
  /\ orch[s] = "raised"
  /\ Crash(s)

\* seeded fault: the event is not looked at again after the workflow
NoticedAtStartOnly(s) == FALSE

Cancelled(s) == s \in cancel

NoticeCancel(s) ==
  /\ pc[s] = "waiting"
  /\ orch[s] \in Task!Statuses
  /\ Cancelled(s)
  /\ Emit(s, <<"cancelled", "complete">>)
  /\ End(s)
  /\ UNCHANGED <<orch, clientVars, dbVars>>

\* _persist_result looks for the conversation
LoadConversation(s) ==
  LET c == conversation[ConversationOf[s]]
  IN  /\ pc[s] = "waiting"
      /\ orch[s] \in Task!Statuses
      /\ ~ Cancelled(s)
      /\ IF c.status = "deleted" \/ c.owner \notin {Nobody, UserOf[s]}
         THEN Emit(s, <<"verifying", "error">>) /\ End(s)
         ELSE /\ Emit(s, <<"verifying">>)
              /\ pc' = [pc EXCEPT ![s] = IF c.status = "absent" THEN "inserting"
                                                                ELSE "appending"]
              /\ UNCHANGED <<active, completed>>
      /\ UNCHANGED <<orch, clientVars, dbVars>>

\* the events after the commit
Report(s) ==
  Emit(s, IF orch[s] = "completed" THEN <<"final_answer", "completed", "complete">>
                                   ELSE <<"completed", "complete">>)

\* seeded fault: an INSERT over the row another stream inserted goes through
Upserts(s) == TRUE

\* the primary key of conversations
InsertSucceeds(s) ==
  pc[s] = "inserting" => conversation[ConversationOf[s]].status = "absent"

\* uow.commit(); a failed workflow has no answer to store
Persist(s) ==
  LET c   == ConversationOf[s]
      row == conversation[c]
      new == IF row.status = "absent"
             THEN [status |-> "live", owner |-> UserOf[s], messages |-> {s}]
             ELSE [row EXCEPT !.messages = @ \union {s}]
  IN  /\ pc[s] \in {"inserting", "appending"}
      /\ InsertSucceeds(s)
      /\ conversation' = [conversation EXCEPT ![c] = new]
      /\ answers' = IF orch[s] = "failed" THEN answers ELSE answers \union {s}
      /\ Report(s)
      /\ End(s)
      /\ UNCHANGED <<orch, clientVars>>

\* seeded fault: the error is swallowed and the stream goes on
SwallowsError(s) ==
  /\ pc[s] \in {"inserting", "appending"}
  /\ Report(s)
  /\ End(s)
  /\ UNCHANGED <<orch, clientVars, dbVars>>

\* the commit fails: the conversation was inserted meanwhile, or the database does
PersistFails(s) ==
  /\ pc[s] \in {"inserting", "appending"}
  /\ Crash(s)

-----------------------------------------------------------------------------
(* The client, through the API (external), and the conversation history.   *)

\* while a task stores its result its event loop runs nothing else
LoopFree(s) == pc[s] \notin {"none", "inserting", "appending"}

\* the iterator hands out the next event, or ends with the queue
Receive(s) ==
  /\ s \in connected
  /\ LoopFree(s)
  /\ \/ /\ read[s] < Len(history[s])
        /\ view' = [view EXCEPT ![s] = Append(@, history[s][read[s] + 1])]
        /\ read' = [read EXCEPT ![s] = @ + 1]
        /\ UNCHANGED connected
     \/ /\ read[s] = Len(history[s])
        /\ pc[s] = "ended"
        /\ connected' = connected \ {s}
        /\ UNCHANGED <<view, read>>
  /\ UNCHANGED <<cancel, taskVars, dbVars>>

\* the finally clause of event_stream cancels a task that is not done, unless
\* the client left before the first event and event_stream never began
Disconnect(s) ==
  /\ s \in connected
  /\ LoopFree(s)
  /\ connected' = connected \ {s}
  /\ \/ cancel' = IF pc[s] = "ended" THEN cancel ELSE cancel \union {s}
     \/ read[s] = 0 /\ UNCHANGED cancel
  /\ UNCHANGED <<read, view, taskVars, dbVars>>

CancelStream(s) ==
  /\ s \in active
  /\ LoopFree(s)
  /\ cancel' = cancel \union {s}
  /\ UNCHANGED <<connected, read, view, taskVars, dbVars>>

\* seeded fault: the last event the client has is replayed again
ReplayFromLast(s, seen) ==
  IF seen = 0 THEN history[s] ELSE SubSeq(history[s], seen, Len(history[s]))

\* get_snapshot: the events after the given one
Replay(s, seen) == SubSeq(history[s], seen + 1, Len(history[s]))

\* a client that lost its response asks for what follows its last event
Reconnect(s) ==
  /\ s \notin connected
  /\ LoopFree(s)
  /\ view' = [view EXCEPT ![s] = @ \o Replay(s, Len(@))]
  /\ UNCHANGED <<cancel, connected, read, taskVars, dbVars>>

DeleteConversation(c) ==
  /\ conversation[c].status = "live"
  /\ conversation' = [conversation EXCEPT ![c].status = "deleted"]
  /\ UNCHANGED <<answers, taskVars, clientVars>>

-----------------------------------------------------------------------------
Init ==
  /\ pc = [s \in Streams |-> "none"]
  /\ cancel = {}
  /\ Task!Init
  /\ history = [s \in Streams |-> << >>]
  /\ active = {}
  /\ completed = {}
  /\ connected = {}
  /\ read = [s \in Streams |-> 0]
  /\ view = [s \in Streams |-> << >>]
  /\ conversation = [c \in Conversations |-> Absent]
  /\ answers = {}

RunTask(s) ==
  \/ Accept(s)
  \/ WorkflowRaises(s)
  \/ NoticeCancel(s)
  \/ LoadConversation(s)
  \/ Persist(s)
  \/ PersistFails(s)

Client(s) == StartStream(s) \/ Receive(s) \/ Disconnect(s) \/ CancelStream(s) \/ Reconnect(s)

Next ==
  \/ \E s \in Streams : RunTask(s) \/ Answer(s) \/ Client(s)
  \/ \E c \in Conversations : DeleteConversation(c)

\* The event loop runs every task that can run, and a workflow ends: that is
\* what AnswerTask promises and AnswerWorkflow keeps.
Fairness ==
  \A s \in Streams : WF_vars(RunTask(s)) /\ WF_vars(Answer(s))

Spec == Init /\ [][Next]_vars /\ Fairness

-----------------------------------------------------------------------------
(* Properties.                                                             *)

\* The variables are well formed.
TypeOK ==
  /\ pc \in [Streams -> Places]
  /\ orch \in [Streams -> {"none", "running"} \union Task!Outcomes]
  /\ \A s \in Streams : history[s] \in Seq(Events) /\ view[s] \in Seq(Events)
  /\ read \in [Streams -> Nat]
  /\ active = {s \in Streams : pc[s] \notin {"none", "ended"}}
  /\ completed = {s \in Streams : pc[s] = "ended"}
  /\ cancel \subseteq Streams
  /\ connected \subseteq Streams
  /\ \A c \in Conversations : conversation[c].status \in {"absent", "live", "deleted"}

Stored(s) == s \in conversation[ConversationOf[s]].messages

\* A cancellation that was acknowledged, or a disconnect, wins: nothing of the
\* stream is stored afterwards and no answer is sent, however late it came.
CancelWins ==
  \A s \in cancel : /\ ~ Stored(s)
                    /\ s \notin answers
                    /\ ~ Contains(history[s], "final_answer")

\* An answer the client may have seen is stored, and so is its question.
FinalAnswerIsStored ==
  \A s \in Streams : Contains(history[s], "final_answer") =>
    Stored(s) /\ s \in answers /\ orch[s] = "completed"

\* Over disconnects and reconnects a client sees the events of its stream in
\* order, none twice and none left out.
ViewIsPrefix == \A s \in Streams : IsPrefix(view[s], history[s])

\* A conversation holds messages of its owner only, although a stream checks
\* the owner, or that there is none, before it commits.
MessagesOfOwner ==
  \A c \in Conversations : \A s \in conversation[c].messages :
    UserOf[s] = conversation[c].owner

\* A stream that started ends and closes its queue, whatever its client does
\* and however its workflow and its commit fail.
StreamEnds == \A s \in Streams : pc[s] = "created" ~> pc[s] = "ended"

=============================================================================
