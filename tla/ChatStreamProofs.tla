-------------------------- MODULE ChatStreamProofs --------------------------
(***************************************************************************)
(* Theorems about ChatStream, for any number of streams, conversations and *)
(* users.                                                                  *)
(***************************************************************************)
EXTENDS ChatStream, SequenceTheorems, TLAPS

-----------------------------------------------------------------------------
(* Lemmas about sequences of events.                                       *)

\* What a concatenation contains.
LEMMA ConcatContains ==
  ASSUME NEW h \in Seq(Events), NEW t \in Seq(Events), NEW e
  PROVE  Contains(h \o t, e) <=> Contains(h, e) \/ Contains(t, e)
<1>1. /\ Len(h \o t) = Len(h) + Len(t)
      /\ \A i \in 1 .. Len(h) + Len(t) : (h \o t)[i] = IF i <= Len(h) THEN h[i] ELSE t[i - Len(h)]
  BY ConcatProperties
<1>2. Len(h) \in Nat /\ Len(t) \in Nat
  OBVIOUS
<1>3. Contains(h \o t, e) => Contains(h, e) \/ Contains(t, e)
  BY <1>1, <1>2 DEF Contains
<1>4. Contains(h, e) => Contains(h \o t, e)
  BY <1>1, <1>2 DEF Contains
<1>5. ASSUME NEW i \in 1 .. Len(t), t[i] = e PROVE (h \o t)[i + Len(h)] = e
  BY <1>1, <1>2, <1>5
<1>6. Contains(t, e) => Contains(h \o t, e)
  BY <1>1, <1>2, <1>5 DEF Contains
<1> QED
  BY <1>3, <1>4, <1>6

\* The sequences a stream speaks are events, and only one of them is an answer.
Spoken == { <<"accepted", "cancelled", "complete">>,
            <<"accepted", "classifying", "retrieving">>,
            <<"cancelled", "complete">>,
            <<"verifying", "error">>,
            <<"verifying">>,
            <<"completed", "complete">> }

LEMMA SpokenType ==
  ASSUME NEW t \in Spoken
  PROVE  t \in Seq(Events) /\ ~ Contains(t, "final_answer")
<1>1. CASE t = <<"accepted", "cancelled", "complete">>
  BY <1>1 DEF Events, Contains
<1>2. CASE t = <<"accepted", "classifying", "retrieving">>
  BY <1>2 DEF Events, Contains
<1>3. CASE t = <<"cancelled", "complete">>
  BY <1>3 DEF Events, Contains
<1>4. CASE t = <<"verifying", "error">>
  BY <1>4 DEF Events, Contains
<1>5. CASE t = <<"verifying">>
  BY <1>5 DEF Events, Contains
<1>6. CASE t = <<"completed", "complete">>
  BY <1>6 DEF Events, Contains
<1> QED
  BY <1>1, <1>2, <1>3, <1>4, <1>5, <1>6 DEF Spoken

LEMMA AnswerType == <<"final_answer", "completed", "complete">> \in Seq(Events)
BY DEF Events

-----------------------------------------------------------------------------
(* The inductive invariant.                                                *)

Row == [status: {"absent", "live", "deleted"}, owner: Users \union {Nobody},
        messages: SUBSET Streams]

Typed ==
  /\ pc \in [Streams -> Places]
  /\ orch \in [Streams -> {"none", "running"} \union Task!Outcomes]
  /\ history \in [Streams -> Seq(Events)]
  /\ view \in [Streams -> Seq(Events)]
  /\ read \in [Streams -> Nat]
  /\ cancel \subseteq Streams
  /\ connected \subseteq Streams
  /\ answers \subseteq Streams
  /\ conversation \in [Conversations -> Row]
  /\ active = {s \in Streams : pc[s] \notin {"none", "ended"}}
  /\ completed = {s \in Streams : pc[s] = "ended"}

Writing == {"inserting", "appending"}

Answered(s) == Contains(history[s], "final_answer")

\* nothing of the stream is stored or told
Silent(s) == ~ Answered(s) /\ s \notin answers /\ ~ Stored(s)

\* A stream is silent until it ends, its cancellation never arrives while it
\* writes, and what it told it has stored.
Told(s) ==
  /\ pc[s] # "ended" => Silent(s)
  /\ pc[s] \in Writing => s \notin cancel
  /\ s \in cancel => Silent(s)
  /\ Answered(s) => Stored(s) /\ s \in answers /\ orch[s] = "completed"

\* A conversation has an owner once it exists, and a stream that is about to
\* append found it existing and its user's own.
Owned ==
  /\ \A c \in Conversations :
       IF conversation[c].status = "absent"
       THEN conversation[c].messages = {}
       ELSE conversation[c].owner # Nobody
  /\ \A s \in Streams : pc[s] = "appending" =>
       /\ conversation[ConversationOf[s]].status # "absent"
       /\ conversation[ConversationOf[s]].owner = UserOf[s]
  /\ MessagesOfOwner

Inv == Typed /\ (\A s \in Streams : Told(s)) /\ Owned

-----------------------------------------------------------------------------
(* What the actions do to the variables.                                   *)

\* A stream that speaks adds its words to its own history only.
LEMMA Speaks ==
  ASSUME Typed, NEW s \in Streams, NEW t \in Seq(Events), Emit(s, t)
  PROVE  /\ history' \in [Streams -> Seq(Events)]
         /\ \A q \in Streams : q # s => history'[q] = history[q]
         /\ Answered(s)' <=> Answered(s) \/ Contains(t, "final_answer")
<1>1. \A q \in Streams : history'[q] = IF q = s THEN history[s] \o t ELSE history[q]
  BY DEF Emit, Typed
<1>2. history[s] \in Seq(Events) /\ history[s] \o t \in Seq(Events)
  BY DEF Typed
<1>3. history' \in [Streams -> Seq(Events)]
  BY <1>2 DEF Emit, Typed
<1>4. Answered(s)' <=> Contains(history'[s], "final_answer")
  BY DEF Answered
<1> QED
  BY <1>1, <1>2, <1>3, <1>4, ConcatContains DEF Answered

\* A stream that moves to another place, which is not "none".
LEMMA Moves ==
  ASSUME Typed, NEW s \in Streams, NEW p \in Places \ {"none", "ended"},
         pc[s] \notin {"none", "ended"}, pc' = [pc EXCEPT ![s] = p],
         UNCHANGED <<active, completed>>
  PROVE  /\ pc' \in [Streams -> Places]
         /\ pc'[s] = p
         /\ \A q \in Streams : q # s => pc'[q] = pc[q]
         /\ active' = {q \in Streams : pc'[q] \notin {"none", "ended"}}
         /\ completed' = {q \in Streams : pc'[q] = "ended"}
<1>1. pc' \in [Streams -> Places] /\ pc'[s] = p /\ \A q \in Streams : q # s => pc'[q] = pc[q]
  BY DEF Typed
<1> QED
  BY <1>1 DEF Typed

\* A stream that ends.
LEMMA Ends ==
  ASSUME Typed, NEW s \in Streams, End(s)
  PROVE  /\ pc' \in [Streams -> Places]
         /\ pc'[s] = "ended"
         /\ \A q \in Streams : q # s => pc'[q] = pc[q]
         /\ active' = {q \in Streams : pc'[q] \notin {"none", "ended"}}
         /\ completed' = {q \in Streams : pc'[q] = "ended"}
<1>1. pc' \in [Streams -> Places] /\ pc'[s] = "ended" /\ \A q \in Streams : q # s => pc'[q] = pc[q]
  BY DEF Typed, End, Places
<1> QED
  BY <1>1 DEF Typed, End

\* A stream of which a step changes nothing keeps what it told.
LEMMA OthersTold ==
  ASSUME NEW q \in Streams, Told(q),
         pc'[q] = pc[q], orch'[q] = orch[q], history'[q] = history[q],
         q \in answers' <=> q \in answers,
         q \in cancel' <=> q \in cancel,
         Stored(q)' <=> Stored(q)
  PROVE  Told(q)'
<1>1. Answered(q)' <=> Answered(q)
  BY DEF Answered
<1>2. Silent(q)' <=> Silent(q)
  BY <1>1 DEF Silent
<1> QED
  BY <1>1, <1>2 DEF Told

\* The task's own steps that store nothing: it was not ended, it says nothing
\* that is an answer, and a cancelled stream does not go on to write.
LEMMA TalkKeeps ==
  ASSUME Inv, NEW s \in Streams,
         pc[s] # "ended",
         pc' \in [Streams -> Places],
         \A q \in Streams : q # s => pc'[q] = pc[q],
         active' = {q \in Streams : pc'[q] \notin {"none", "ended"}},
         completed' = {q \in Streams : pc'[q] = "ended"},
         history' \in [Streams -> Seq(Events)],
         \A q \in Streams : q # s => history'[q] = history[q],
         Answered(s)' <=> Answered(s),
         orch' \in [Streams -> {"none", "running"} \union Task!Outcomes],
         \A q \in Streams : q # s => orch'[q] = orch[q],
         pc'[s] \in Writing => s \notin cancel,
         pc'[s] = "appending" =>
           /\ conversation[ConversationOf[s]].status # "absent"
           /\ conversation[ConversationOf[s]].owner = UserOf[s],
         UNCHANGED <<cancel, view, read, dbVars>>,
         connected' \subseteq Streams
  PROVE  Inv'
<1>1. Typed'
  BY DEF Inv, Typed, dbVars
<1>2. \A q \in Streams : Stored(q)' <=> Stored(q)
  BY DEF Stored, dbVars
<1>3. Told(s)'
  <2>1. Silent(s)' /\ ~ Answered(s)'
    BY <1>2 DEF Inv, Told, Silent, dbVars
  <2> QED
    BY <2>1 DEF Told
<1>4. ASSUME NEW q \in Streams, q # s PROVE Told(q)'
  BY <1>2, <1>4, OthersTold DEF Inv, dbVars
<1>5. Owned'
  BY DEF Inv, Owned, MessagesOfOwner, dbVars
<1> QED
  BY <1>1, <1>3, <1>4, <1>5 DEF Inv

\* The client's steps: only a stream that is neither writing nor ended is
\* newly cancelled.
LEMMA ClientKeeps ==
  ASSUME Inv, UNCHANGED <<taskVars, dbVars>>,
         view' \in [Streams -> Seq(Events)],
         read' \in [Streams -> Nat],
         connected' \subseteq Streams,
         cancel \subseteq cancel', cancel' \subseteq Streams,
         \A s \in cancel' \ cancel : pc[s] \notin Writing \union {"ended"}
  PROVE  Inv'
<1>1. Typed'
  BY DEF Inv, Typed, taskVars, dbVars
<1>2. Owned'
  BY DEF Inv, Owned, MessagesOfOwner, taskVars, dbVars
<1>3. ASSUME NEW s \in Streams PROVE Told(s)'
  <2>1. (Stored(s)' <=> Stored(s)) /\ (Answered(s)' <=> Answered(s)) /\ (Silent(s)' <=> Silent(s))
    BY DEF Stored, Answered, Silent, taskVars, dbVars
  <2> QED
    BY <2>1 DEF Inv, Told, taskVars, dbVars
<1> QED
  BY <1>1, <1>2, <1>3 DEF Inv

-----------------------------------------------------------------------------
(* One lemma per action.                                                   *)

LEMMA InitInv == Init => Inv
<1> SUFFICES ASSUME Init PROVE Inv
  OBVIOUS
<1>1. << >> \in Seq(Events) /\ ~ Contains(<< >>, "final_answer")
  BY DEF Contains
<1>2. Typed
  BY <1>1 DEF Init, Typed, Task!Init, Places, Absent, Row
<1>3. \A s \in Streams : Told(s)
  BY <1>1, RequestAssumption DEF Init, Told, Silent, Answered, Stored, Absent, Writing
<1>4. Owned
  BY DEF Init, Owned, MessagesOfOwner, Absent
<1> QED
  BY <1>2, <1>3, <1>4 DEF Inv

LEMMA StartKeeps ==
  ASSUME Inv, NEW s \in Streams, StartStream(s)
  PROVE  Inv'
<1>1. /\ pc' \in [Streams -> Places]
      /\ pc'[s] = "created"
      /\ \A q \in Streams : q # s => pc'[q] = pc[q]
  BY DEF StartStream, Inv, Typed, Places
<1>2. /\ active' = {q \in Streams : pc'[q] \notin {"none", "ended"}}
      /\ completed' = {q \in Streams : pc'[q] = "ended"}
      /\ connected' \subseteq Streams
  BY <1>1 DEF StartStream, Inv, Typed
<1>3. Answered(s)' <=> Answered(s)
  BY DEF Answered, StartStream
<1> QED
  BY <1>1, <1>2, <1>3, TalkKeeps DEF StartStream, Inv, Typed, Writing

LEMMA AcceptKeeps ==
  ASSUME Inv, NEW s \in Streams, Accept(s)
  PROVE  Inv'
<1>1. CASE s \in cancel
  <2> DEFINE t == <<"accepted", "cancelled", "complete">>
  <2>1. t \in Seq(Events) /\ ~ Contains(t, "final_answer")
    BY SpokenType DEF Spoken
  <2>2. Emit(s, t) /\ End(s) /\ UNCHANGED orch
    BY <1>1 DEF Accept
  <2> HIDE DEF t
  <2>3. /\ history' \in [Streams -> Seq(Events)]
        /\ \A q \in Streams : q # s => history'[q] = history[q]
        /\ Answered(s)' <=> Answered(s)
    BY <2>1, <2>2, Speaks DEF Inv
  <2> QED
    BY <2>2, <2>3, Ends, TalkKeeps DEF Accept, Inv, Typed, Writing, clientVars
<1>2. CASE s \notin cancel
  <2> DEFINE t == <<"accepted", "classifying", "retrieving">>
  <2>1. t \in Seq(Events) /\ ~ Contains(t, "final_answer")
    BY SpokenType DEF Spoken
  <2>2. /\ Emit(s, t)
        /\ pc' = [pc EXCEPT ![s] = "waiting"]
        /\ orch' = [orch EXCEPT ![s] = "running"]
        /\ UNCHANGED <<active, completed>>
    BY <1>2 DEF Accept
  <2> HIDE DEF t
  <2>3. /\ history' \in [Streams -> Seq(Events)]
        /\ \A q \in Streams : q # s => history'[q] = history[q]
        /\ Answered(s)' <=> Answered(s)
    BY <2>1, <2>2, Speaks DEF Inv
  <2>4. /\ pc' \in [Streams -> Places]
        /\ pc'[s] = "waiting"
        /\ \A q \in Streams : q # s => pc'[q] = pc[q]
        /\ active' = {q \in Streams : pc'[q] \notin {"none", "ended"}}
        /\ completed' = {q \in Streams : pc'[q] = "ended"}
    BY <2>2, Moves DEF Accept, Inv, Places
  <2> QED
    BY <2>2, <2>3, <2>4, TalkKeeps DEF Accept, Inv, Typed, Writing, clientVars
<1> QED
  BY <1>1, <1>2

\* Only a stream whose workflow runs, and which has told nothing, gets an outcome.
LEMMA AnswerKeeps ==
  ASSUME Inv, NEW s \in Streams, Answer(s)
  PROVE  Inv'
<1>1. /\ orch[s] = "running"
      /\ orch' \in [Streams -> {"none", "running"} \union Task!Outcomes]
      /\ \A q \in Streams : q # s => orch'[q] = orch[q]
  BY DEF Answer, Task!Finish, Inv, Typed
<1>2. Typed'
  BY <1>1 DEF Answer, Inv, Typed, clientVars, dbVars
<1>3. Owned'
  BY DEF Answer, Inv, Owned, MessagesOfOwner, dbVars
<1>4. ASSUME NEW q \in Streams PROVE Told(q)'
  <2>1. /\ Stored(q)' <=> Stored(q)
        /\ Answered(q)' <=> Answered(q)
        /\ Silent(q)' <=> Silent(q)
    BY DEF Stored, Answered, Silent, Answer, dbVars
  <2>2. Answered(q) => orch'[q] = "completed"
    BY <1>1 DEF Inv, Told
  <2> QED
    BY <2>1, <2>2 DEF Inv, Told, Answer, clientVars, dbVars
<1> QED
  BY <1>2, <1>3, <1>4 DEF Inv

LEMMA CrashKeeps ==
  ASSUME Inv, NEW s \in Streams, pc[s] # "ended", Crash(s)
  PROVE  Inv'
<1>1. Answered(s)' <=> Answered(s)
  BY DEF Answered, Crash
<1> QED
  BY <1>1, Ends, TalkKeeps DEF Crash, Inv, Typed, Writing, clientVars

LEMMA NoticeKeeps ==
  ASSUME Inv, NEW s \in Streams, NoticeCancel(s)
  PROVE  Inv'
<1> DEFINE t == <<"cancelled", "complete">>
<1>1. t \in Seq(Events) /\ ~ Contains(t, "final_answer")
  BY SpokenType DEF Spoken
<1>2. Emit(s, t) /\ End(s)
  BY DEF NoticeCancel
<1> HIDE DEF t
<1>3. /\ history' \in [Streams -> Seq(Events)]
      /\ \A q \in Streams : q # s => history'[q] = history[q]
      /\ Answered(s)' <=> Answered(s)
  BY <1>1, <1>2, Speaks DEF Inv
<1> QED
  BY <1>2, <1>3, Ends, TalkKeeps DEF NoticeCancel, Inv, Typed, Writing, clientVars

\* A conversation that is not deleted and has no foreign owner is absent, or
\* the user's own.
LEMMA LoadKeeps ==
  ASSUME Inv, NEW s \in Streams, LoadConversation(s)
  PROVE  Inv'
<1> DEFINE c == conversation[ConversationOf[s]]
           refused == c.status = "deleted" \/ c.owner \notin {Nobody, UserOf[s]}
<1>1. ConversationOf[s] \in Conversations /\ c \in Row
  BY RequestAssumption DEF Inv, Typed
<1>2. CASE refused
  <2> DEFINE t == <<"verifying", "error">>
  <2>1. t \in Seq(Events) /\ ~ Contains(t, "final_answer")
    BY SpokenType DEF Spoken
  <2>2. Emit(s, t) /\ End(s)
    BY <1>2 DEF LoadConversation
  <2> HIDE DEF t
  <2>3. /\ history' \in [Streams -> Seq(Events)]
        /\ \A q \in Streams : q # s => history'[q] = history[q]
        /\ Answered(s)' <=> Answered(s)
    BY <2>1, <2>2, Speaks DEF Inv
  <2> QED
    BY <2>2, <2>3, Ends, TalkKeeps DEF LoadConversation, Inv, Typed, Writing, clientVars
<1>3. CASE ~ refused
  <2> DEFINE t == <<"verifying">>
             p == IF c.status = "absent" THEN "inserting" ELSE "appending"
  <2>1. t \in Seq(Events) /\ ~ Contains(t, "final_answer")
    BY SpokenType DEF Spoken
  <2>2. /\ Emit(s, t)
        /\ pc' = [pc EXCEPT ![s] = p]
        /\ UNCHANGED <<active, completed>>
    BY <1>3 DEF LoadConversation
  <2>3. p = "appending" => c.status # "absent" /\ c.owner = UserOf[s]
    BY <1>1, <1>3 DEF Inv, Owned
  <2>4. p \in Places \ {"none", "ended"}
    BY DEF Places
  <2> HIDE DEF t, p
  <2>5. /\ history' \in [Streams -> Seq(Events)]
        /\ \A q \in Streams : q # s => history'[q] = history[q]
        /\ Answered(s)' <=> Answered(s)
    BY <2>1, <2>2, Speaks DEF Inv
  <2>6. /\ pc' \in [Streams -> Places]
        /\ pc'[s] = p
        /\ \A q \in Streams : q # s => pc'[q] = pc[q]
        /\ active' = {q \in Streams : pc'[q] \notin {"none", "ended"}}
        /\ completed' = {q \in Streams : pc'[q] = "ended"}
    BY <2>2, <2>4, Moves DEF LoadConversation, Inv
  <2> QED
    BY <2>3, <2>5, <2>6, TalkKeeps DEF LoadConversation, Inv, Typed, Cancelled, clientVars
<1> QED
  BY <1>2, <1>3

\* The commit of a stream stores its messages in a conversation of its user:
\* the one it found, or the one it inserts under a key nobody else took.
LEMMA PersistKeeps ==
  ASSUME Inv, NEW s \in Streams, Persist(s)
  PROVE  Inv'
<1> DEFINE c == ConversationOf[s]
           old == conversation[c]
           new == IF old.status = "absent"
                  THEN [status |-> "live", owner |-> UserOf[s], messages |-> {s}]
                  ELSE [old EXCEPT !.messages = @ \union {s}]
           t == IF orch[s] = "completed" THEN <<"final_answer", "completed", "complete">>
                                         ELSE <<"completed", "complete">>
<1>1. /\ c \in Conversations /\ old \in Row
      /\ UserOf[s] \in Users /\ UserOf[s] # Nobody
  BY RequestAssumption DEF Inv, Typed
<1>2. /\ new \in Row
      /\ new.status # "absent"
      /\ new.owner = UserOf[s]
      /\ new.messages = old.messages \union {s}
      /\ old.status # "absent" => new.owner = old.owner
  <2>1. CASE old.status = "absent"
    BY <1>1, <2>1 DEF Row, Inv, Owned
  <2>2. CASE old.status # "absent"
    <3>1. old.owner = UserOf[s]
      BY <2>2 DEF Persist, InsertSucceeds, Inv, Owned
    <3> QED
      BY <1>1, <2>2, <3>1 DEF Row
  <2> QED
    BY <2>1, <2>2
<1>3. conversation' = [conversation EXCEPT ![c] = new]
  BY DEF Persist
<1> HIDE DEF new
<1>4. /\ conversation' \in [Conversations -> Row]
      /\ \A d \in Conversations : conversation'[d] = IF d = c THEN new ELSE conversation[d]
  BY <1>1, <1>2, <1>3 DEF Inv, Typed
<1>5. t \in Seq(Events) /\ (Contains(t, "final_answer") => orch[s] = "completed")
  BY SpokenType, AnswerType DEF Spoken
<1>6. Emit(s, t) /\ End(s) /\ orch' = orch /\ UNCHANGED clientVars
  BY DEF Persist, Report
<1> HIDE DEF t
<1>7. /\ history' \in [Streams -> Seq(Events)]
      /\ \A q \in Streams : q # s => history'[q] = history[q]
      /\ Answered(s)' <=> Answered(s) \/ Contains(t, "final_answer")
  BY <1>5, <1>6, Speaks DEF Inv
<1>8. /\ pc' \in [Streams -> Places]
      /\ pc'[s] = "ended"
      /\ \A q \in Streams : q # s => pc'[q] = pc[q]
      /\ active' = {q \in Streams : pc'[q] \notin {"none", "ended"}}
      /\ completed' = {q \in Streams : pc'[q] = "ended"}
  BY <1>6, Ends DEF Inv
<1>9. answers' = IF orch[s] = "failed" THEN answers ELSE answers \union {s}
  BY DEF Persist
<1>10. Typed'
  BY <1>4, <1>6, <1>7, <1>8, <1>9 DEF Inv, Typed, clientVars
<1>11. \A q \in Streams : Stored(q)' <=> Stored(q) \/ q = s
  BY <1>1, <1>2, <1>4, RequestAssumption DEF Stored
<1>12. s \notin cancel /\ ~ Answered(s)
  BY DEF Persist, Inv, Told, Silent, Writing
<1>13. Told(s)'
  BY <1>5, <1>6, <1>7, <1>8, <1>9, <1>11, <1>12 DEF Told, Writing, clientVars
<1>14. ASSUME NEW q \in Streams, q # s PROVE Told(q)'
  BY <1>6, <1>7, <1>8, <1>9, <1>11, <1>14, OthersTold DEF Inv, clientVars
<1>15. Owned'
  <2>1. \A d \in Conversations :
          IF conversation'[d].status = "absent"
          THEN conversation'[d].messages = {}
          ELSE conversation'[d].owner # Nobody
    BY <1>1, <1>2, <1>4 DEF Inv, Owned
  <2>2. ASSUME NEW q \in Streams, pc'[q] = "appending"
        PROVE  /\ conversation'[ConversationOf[q]].status # "absent"
               /\ conversation'[ConversationOf[q]].owner = UserOf[q]
    <3>1. q # s /\ pc[q] = "appending"
      BY <1>8, <2>2
    <3>2. /\ conversation[ConversationOf[q]].status # "absent"
          /\ conversation[ConversationOf[q]].owner = UserOf[q]
      BY <3>1 DEF Inv, Owned
    <3> QED
      BY <1>1, <1>2, <1>4, <3>2, RequestAssumption
  <2>3. MessagesOfOwner'
    <3>1. \A q \in old.messages : UserOf[q] = UserOf[s]
      BY <1>1, <1>2 DEF Inv, Owned, MessagesOfOwner
    <3> QED
      BY <1>2, <1>4, <3>1 DEF Inv, Owned, MessagesOfOwner
  <2> QED
    BY <2>1, <2>2, <2>3 DEF Owned
<1> QED
  BY <1>10, <1>13, <1>14, <1>15 DEF Inv

\* Deleting a conversation leaves its messages and its owner.
LEMMA DeleteKeeps ==
  ASSUME Inv, NEW c \in Conversations, DeleteConversation(c)
  PROVE  Inv'
<1>1. /\ conversation' \in [Conversations -> Row]
      /\ \A d \in Conversations :
           /\ conversation'[d].messages = conversation[d].messages
           /\ conversation'[d].owner = conversation[d].owner
           /\ conversation'[d].status = "absent" <=> conversation[d].status = "absent"
  <2>1. conversation[c] \in Row
    BY DEF Inv, Typed
  <2>2. [conversation[c] EXCEPT !.status = "deleted"] \in Row
    BY <2>1 DEF Row
  <2>3. \A d \in Conversations : conversation'[d] =
          IF d = c THEN [conversation[c] EXCEPT !.status = "deleted"] ELSE conversation[d]
    BY DEF DeleteConversation, Inv, Typed
  <2>4. conversation' \in [Conversations -> Row]
    BY <2>2 DEF DeleteConversation, Inv, Typed
  <2> QED
    BY <2>1, <2>3, <2>4 DEF DeleteConversation, Row
<1>2. Typed'
  BY <1>1 DEF DeleteConversation, Inv, Typed, taskVars, clientVars
<1>3. ASSUME NEW s \in Streams PROVE Told(s)'
  <2>1. Stored(s)' <=> Stored(s)
    BY <1>1, RequestAssumption DEF Stored
  <2> QED
    BY <2>1, OthersTold DEF DeleteConversation, Inv, taskVars, clientVars
<1>4. Owned'
  BY <1>1, RequestAssumption DEF DeleteConversation, Inv, Owned, MessagesOfOwner, taskVars
<1> QED
  BY <1>2, <1>3, <1>4 DEF Inv

\* The client's actions.
LEMMA ReceiveKeeps ==
  ASSUME Inv, NEW s \in Streams, Receive(s)
  PROVE  Inv'
<1>1. CASE /\ read[s] < Len(history[s])
           /\ view' = [view EXCEPT ![s] = Append(@, history[s][read[s] + 1])]
           /\ read' = [read EXCEPT ![s] = @ + 1]
           /\ UNCHANGED connected
  <2>1. history[s] \in Seq(Events) /\ view[s] \in Seq(Events) /\ read[s] \in Nat
    BY DEF Inv, Typed
  <2>2. history[s][read[s] + 1] \in Events
    BY <1>1, <2>1
  <2>3. Append(view[s], history[s][read[s] + 1]) \in Seq(Events)
    BY <2>1, <2>2
  <2>4. view' \in [Streams -> Seq(Events)] /\ read' \in [Streams -> Nat]
    BY <1>1, <2>1, <2>3 DEF Inv, Typed
  <2> QED
    BY <1>1, <2>4, ClientKeeps DEF Receive, Inv, Typed
<1>2. CASE connected' = connected \ {s} /\ UNCHANGED <<view, read>>
  BY <1>2, ClientKeeps DEF Receive, Inv, Typed
<1> QED
  BY <1>1, <1>2 DEF Receive

LEMMA DisconnectKeeps ==
  ASSUME Inv, NEW s \in Streams, Disconnect(s)
  PROVE  Inv'
<1>1. cancel' \subseteq cancel \union {s} /\ cancel \subseteq cancel'
  BY DEF Disconnect
<1>2. s \in cancel' \ cancel => pc[s] \notin Writing \union {"ended"}
  BY DEF Disconnect, LoopFree, Writing
<1> QED
  BY <1>1, <1>2, ClientKeeps DEF Disconnect, Inv, Typed

LEMMA CancelKeeps ==
  ASSUME Inv, NEW s \in Streams, CancelStream(s)
  PROVE  Inv'
<1>1. pc[s] \notin Writing \union {"ended"}
  BY DEF CancelStream, LoopFree, Writing, Inv, Typed
<1> QED
  BY <1>1, ClientKeeps DEF CancelStream, Inv, Typed

LEMMA ReconnectKeeps ==
  ASSUME Inv, NEW s \in Streams, Reconnect(s)
  PROVE  Inv'
<1>1. history[s] \in Seq(Events) /\ view[s] \in Seq(Events)
  BY DEF Inv, Typed
<1>2. Replay(s, Len(view[s])) \in Seq(Events)
  BY <1>1 DEF Replay
<1>3. view[s] \o Replay(s, Len(view[s])) \in Seq(Events)
  BY <1>1, <1>2
<1>4. view' \in [Streams -> Seq(Events)]
  BY <1>3 DEF Reconnect, Inv, Typed
<1> QED
  BY <1>4, ClientKeeps DEF Reconnect, Inv, Typed

LEMMA Invariance == Inv /\ [Next]_vars => Inv'
<1> SUFFICES ASSUME Inv, [Next]_vars PROVE Inv'
  OBVIOUS
<1>1. ASSUME NEW s \in Streams, RunTask(s) PROVE Inv'
  <2>1. CASE WorkflowRaises(s) \/ PersistFails(s)
    BY <2>1, CrashKeeps DEF WorkflowRaises, PersistFails
  <2> QED
    BY <1>1, <2>1, AcceptKeeps, NoticeKeeps, LoadKeeps, PersistKeeps DEF RunTask
<1>2. ASSUME NEW s \in Streams, Client(s) PROVE Inv'
  BY <1>2, StartKeeps, ReceiveKeeps, DisconnectKeeps, CancelKeeps, ReconnectKeeps DEF Client
<1>3. ASSUME NEW s \in Streams, Answer(s) PROVE Inv'
  BY <1>3, AnswerKeeps
<1>4. ASSUME NEW c \in Conversations, DeleteConversation(c) PROVE Inv'
  BY <1>4, DeleteKeeps
<1>5. CASE UNCHANGED vars
  BY <1>5, ClientKeeps DEF vars, clientVars, Inv, Typed
<1> QED
  BY <1>1, <1>2, <1>3, <1>4, <1>5 DEF Next

-----------------------------------------------------------------------------
(* What the client sees.                                                   *)

Extends(t, h) == Len(h) <= Len(t) /\ \A i \in 1 .. Len(h) : t[i] = h[i]

LEMMA ExtendsPrefix ==
  ASSUME NEW h \in Seq(Events), NEW t \in Seq(Events), Extends(t, h)
  PROVE  IsPrefix(h, t)
<1>1. Len(h) \in Nat /\ Len(t) \in Nat
  OBVIOUS
<1>2. SubSeq(h, 1, Len(h)) = SubSeq(t, 1, Len(h))
  BY <1>1 DEF Extends
<1> QED
  BY <1>2 DEF IsPrefix, Extends

\* The next event of h keeps a sequence a prefix of h, and so do all the
\* events that follow.
LEMMA AppendExtends ==
  ASSUME NEW h \in Seq(Events), NEW v \in Seq(Events), Extends(h, v), Len(v) < Len(h)
  PROVE  Extends(h, Append(v, h[Len(v) + 1]))
<1> DEFINE e == h[Len(v) + 1]
<1>1. Len(h) \in Nat /\ Len(v) \in Nat
  OBVIOUS
<1>2. e \in Events
  BY <1>1
<1>3. /\ Len(Append(v, e)) = Len(v) + 1
      /\ \A i \in 1 .. Len(v) : Append(v, e)[i] = v[i]
      /\ Append(v, e)[Len(v) + 1] = e
  BY <1>2, AppendProperties
<1>4. ASSUME NEW i \in 1 .. Len(v) + 1 PROVE h[i] = Append(v, e)[i]
  <2>1. CASE i = Len(v) + 1
    BY <1>3, <2>1
  <2>2. CASE i # Len(v) + 1
    <3>1. i \in 1 .. Len(v)
      BY <1>1, <2>2
    <3> QED
      BY <1>3, <3>1 DEF Extends
  <2> QED
    BY <2>1, <2>2
<1> QED
  BY <1>1, <1>3, <1>4 DEF Extends

LEMMA ReplayExtends ==
  ASSUME NEW h \in Seq(Events), NEW v \in Seq(Events), Extends(h, v)
  PROVE  Extends(h, v \o SubSeq(h, Len(v) + 1, Len(h)))
<1> DEFINE more == SubSeq(h, Len(v) + 1, Len(h))
<1>1. Len(h) \in Nat /\ Len(v) \in Nat /\ Len(v) <= Len(h)
  BY DEF Extends
<1>2. /\ more \in Seq(Events)
      /\ Len(more) = Len(h) - Len(v)
      /\ \A i \in 1 .. Len(h) - Len(v) : more[i] = h[Len(v) + i]
  BY <1>1
<1> HIDE DEF more
<1>3. /\ Len(v \o more) = Len(h)
      /\ \A i \in 1 .. Len(h) : (v \o more)[i] =
           IF i <= Len(v) THEN v[i] ELSE more[i - Len(v)]
  BY <1>1, <1>2, ConcatProperties
<1>4. ASSUME NEW i \in 1 .. Len(h) PROVE h[i] = (v \o more)[i]
  <2>1. CASE i <= Len(v)
    <3>1. i \in 1 .. Len(v)
      BY <1>1, <2>1
    <3> QED
      BY <1>3, <2>1, <3>1 DEF Extends
  <2>2. CASE ~ (i <= Len(v))
    <3>1. i - Len(v) \in 1 .. Len(h) - Len(v) /\ Len(v) + (i - Len(v)) = i
      BY <1>1, <2>2
    <3>2. more[i - Len(v)] = h[i]
      BY <1>2, <3>1
    <3> QED
      BY <1>3, <2>2, <3>2
  <2> QED
    BY <2>1, <2>2
<1>5. Extends(h, v \o more)
  BY <1>3, <1>4, <1>1 DEF Extends
<1> QED
  BY <1>5 DEF more

\* A client on its first connection has what the queue handed out, and nobody
\* has seen anything of a stream before it starts.
Seen(s) ==
  /\ Extends(history[s], view[s])
  /\ s \in connected => Len(view[s]) = read[s]
  /\ pc[s] = "none" => view[s] = << >> /\ read[s] = 0

\* A step of a task only adds to its history.
LEMMA HistoryGrows ==
  ASSUME Inv, NEW s \in Streams, RunTask(s)
  PROVE  /\ \A q \in Streams : Extends(history'[q], history[q])
         /\ \A q \in Streams : pc'[q] = "none" => pc[q] = "none"
         /\ UNCHANGED clientVars
<1>1. \A q \in Streams : Extends(history[q], history[q])
  BY DEF Extends, Inv, Typed
<1>2. ASSUME NEW t \in Seq(Events), Emit(s, t)
      PROVE  \A q \in Streams : Extends(history'[q], history[q])
  <2>1. history[s] \in Seq(Events)
    BY DEF Inv, Typed
  <2>2. Extends(history[s] \o t, history[s])
    BY <2>1, ConcatProperties DEF Extends
  <2>3. \A q \in Streams : history'[q] = IF q = s THEN history[s] \o t ELSE history[q]
    BY <1>2 DEF Emit, Inv, Typed
  <2> QED
    BY <1>1, <2>2, <2>3
<1>3. UNCHANGED history \/ \E t \in Seq(Events) : Emit(s, t)
  <2>1. \A t \in Spoken : t \in Seq(Events)
    BY SpokenType
  <2>2. Report(s) => \E t \in Seq(Events) : Emit(s, t)
    BY <2>1, AnswerType DEF Report, Spoken
  <2>3. CASE Accept(s)
    BY <2>1, <2>3 DEF Accept, Spoken
  <2>4. CASE NoticeCancel(s)
    BY <2>1, <2>4 DEF NoticeCancel, Spoken
  <2>5. CASE LoadConversation(s)
    BY <2>1, <2>5 DEF LoadConversation, Spoken
  <2>6. CASE Persist(s)
    BY <2>2, <2>6 DEF Persist
  <2>7. CASE WorkflowRaises(s) \/ PersistFails(s)
    BY <2>7 DEF WorkflowRaises, PersistFails, Crash
  <2> QED
    BY <2>3, <2>4, <2>5, <2>6, <2>7 DEF RunTask
<1>4. \E p \in {"ended", "waiting", "inserting", "appending"} : pc' = [pc EXCEPT ![s] = p]
  BY DEF RunTask, Accept, NoticeCancel, LoadConversation, Persist, WorkflowRaises,
         PersistFails, Crash, End
<1>5. \A q \in Streams : pc'[q] = "none" => pc[q] = "none"
  BY <1>4 DEF Inv, Typed
<1>6. UNCHANGED clientVars
  BY DEF RunTask, Accept, NoticeCancel, LoadConversation, Persist, WorkflowRaises,
         PersistFails, Crash
<1> QED
  BY <1>1, <1>2, <1>3, <1>5, <1>6

LEMMA SeenStep ==
  ASSUME Inv, \A s \in Streams : Seen(s), [Next]_vars
  PROVE  \A s \in Streams : Seen(s)'
<1>0. \A q \in Streams : /\ history[q] \in Seq(Events) /\ view[q] \in Seq(Events)
                         /\ Len(history[q]) \in Nat /\ Len(view[q]) \in Nat
                         /\ read[q] \in Nat
  BY DEF Inv, Typed
<1>1. ASSUME NEW s \in Streams, RunTask(s), NEW q \in Streams PROVE Seen(q)'
  <2>1. /\ Extends(history'[q], history[q])
        /\ pc'[q] = "none" => pc[q] = "none"
        /\ UNCHANGED clientVars
    BY <1>1, HistoryGrows
  <2>2. Len(history'[q]) \in Nat
    BY <1>1, Invariance DEF Inv, Typed, Next
  <2>3. Extends(history'[q], view[q])
    BY <1>0, <2>1, <2>2 DEF Seen, Extends
  <2> QED
    BY <2>1, <2>3 DEF Seen, clientVars
<1>2. ASSUME NEW s \in Streams, StartStream(s), NEW q \in Streams PROVE Seen(q)'
  <2>1. pc'[q] = "none" => pc[q] = "none"
    BY <1>2 DEF StartStream, Inv, Typed
  <2> QED
    BY <1>0, <1>2, <2>1 DEF StartStream, Seen
<1>3. ASSUME NEW s \in Streams, Receive(s), NEW q \in Streams PROVE Seen(q)'
  <2>1. UNCHANGED <<history, pc>> /\ pc[s] # "none" /\ s \in connected
    BY <1>3 DEF Receive, LoopFree, taskVars
  <2>2. CASE /\ read[s] < Len(history[s])
             /\ view' = [view EXCEPT ![s] = Append(@, history[s][read[s] + 1])]
             /\ read' = [read EXCEPT ![s] = @ + 1]
             /\ UNCHANGED connected
    <3>1. CASE q # s
      BY <2>1, <2>2, <3>1 DEF Seen, Inv, Typed
    <3>2. CASE q = s
      <4>1. Len(view[s]) = read[s]
        BY <2>1 DEF Seen
      <4>2. /\ view'[s] = Append(view[s], history[s][Len(view[s]) + 1])
            /\ read'[s] = Len(view[s]) + 1
        BY <2>2, <4>1 DEF Inv, Typed
      <4>3. Extends(history[s], view'[s])
        BY <1>0, <2>2, <4>1, <4>2, AppendExtends DEF Seen
      <4>4. Len(view'[s]) = Len(view[s]) + 1
        BY <1>0, <4>2
      <4> QED
        BY <2>1, <3>2, <4>2, <4>3, <4>4 DEF Seen
    <3> QED
      BY <3>1, <3>2
  <2>3. CASE connected' = connected \ {s} /\ UNCHANGED <<view, read>>
    BY <2>1, <2>3 DEF Seen
  <2> QED
    BY <1>3, <2>2, <2>3 DEF Receive
<1>4. ASSUME NEW s \in Streams, Disconnect(s) \/ CancelStream(s), NEW q \in Streams
      PROVE  Seen(q)'
  BY <1>4 DEF Disconnect, CancelStream, Seen, taskVars
<1>5. ASSUME NEW s \in Streams, Reconnect(s), NEW q \in Streams PROVE Seen(q)'
  <2>1. UNCHANGED <<history, pc, connected, read>> /\ pc[s] # "none" /\ s \notin connected
    BY <1>5 DEF Reconnect, LoopFree, taskVars
  <2>2. CASE q # s
    BY <1>5, <2>1, <2>2 DEF Reconnect, Seen, Inv, Typed
  <2>3. CASE q = s
    <3>1. view'[s] = view[s] \o SubSeq(history[s], Len(view[s]) + 1, Len(history[s]))
      BY <1>5 DEF Reconnect, Replay, Inv, Typed
    <3>2. Extends(history[s], view'[s])
      BY <1>0, <3>1, ReplayExtends DEF Seen
    <3> QED
      BY <2>1, <2>3, <3>2 DEF Seen
  <2> QED
    BY <2>2, <2>3
<1>6. ASSUME NEW s \in Streams, Answer(s), NEW q \in Streams PROVE Seen(q)'
  BY <1>6 DEF Answer, Seen, clientVars
<1>7. ASSUME NEW c \in Conversations, DeleteConversation(c), NEW q \in Streams PROVE Seen(q)'
  BY <1>7 DEF DeleteConversation, Seen, taskVars, clientVars
<1>8. ASSUME UNCHANGED vars, NEW q \in Streams PROVE Seen(q)'
  BY <1>8 DEF vars, Seen, taskVars, clientVars
<1> QED
  BY <1>1, <1>2, <1>3, <1>4, <1>5, <1>6, <1>7, <1>8 DEF Next, Client

-----------------------------------------------------------------------------
(* The theorems.                                                           *)

LEMMA Reached == Spec => [](Inv /\ \A s \in Streams : Seen(s))
<1>1. Init => \A s \in Streams : Seen(s)
  BY DEF Init, Seen, Extends
<1>2. Inv /\ (\A s \in Streams : Seen(s)) /\ [Next]_vars => (Inv /\ \A s \in Streams : Seen(s))'
  BY Invariance, SeenStep
<1> QED
  BY <1>1, <1>2, InitInv, PTL DEF Spec

\* The variables are well formed, and the service's record of active and
\* completed streams agrees with where their tasks stand.
THEOREM TypeCorrect == Spec => []TypeOK
<1>1. Inv => TypeOK
  BY DEF Inv, Typed, TypeOK, Row
<1> QED
  BY <1>1, Reached, PTL

\* A cancellation, or the cancel of a disconnect, that comes before the end of a
\* stream wins: nothing of the stream is stored or answered.
THEOREM CancellationWins == Spec => []CancelWins
<1>1. Inv => CancelWins
  BY DEF Inv, Typed, Told, Silent, Answered, CancelWins
<1> QED
  BY <1>1, Reached, PTL

\* An answer that a client may have seen is in the database.
THEOREM AnswerStored == Spec => []FinalAnswerIsStored
<1>1. Inv => FinalAnswerIsStored
  BY DEF Inv, Told, Answered, FinalAnswerIsStored
<1> QED
  BY <1>1, Reached, PTL

\* However streams of different users race for a conversation id, its messages
\* are its owner's.
THEOREM OwnMessages == Spec => []MessagesOfOwner
<1>1. Inv => MessagesOfOwner
  BY DEF Inv, Owned
<1> QED
  BY <1>1, Reached, PTL

\* Over any number of disconnects and reconnects a client sees each event of
\* its stream once and in order.
THEOREM PrefixSeen == Spec => []ViewIsPrefix
<1>1. Inv /\ (\A s \in Streams : Seen(s)) => ViewIsPrefix
  BY ExtendsPrefix DEF Inv, Typed, Seen, ViewIsPrefix
<1> QED
  BY <1>1, Reached, PTL

=============================================================================
