------------------------- MODULE VoicePipelineProofs -------------------------
(***************************************************************************)
(* Theorems about VoicePipeline for every number of utterances, typed      *)
(* messages and interrupts, every queue capacity and every cap on [WAIT].  *)
(***************************************************************************)
EXTENDS VoicePipeline, SequenceTheorems, TLAPS

-----------------------------------------------------------------------------
(* Lemmas about the operators *)

\* A user text and the two fixed messages are messages.
LEMMA MessageTypes ==
    /\ Assistant \in Message
    /\ ForceNote \in Message
    /\ \A text \in Seq(Utt) : User(text) \in Message
BY DEF Assistant, ForceNote, User, Message

\* Front of a nonempty sequence is a sequence over the same set.
LEMMA FrontType ==
    ASSUME NEW S, NEW s \in Seq(S), s # <<>>
    PROVE  Front(s) \in Seq(S)
<1>1. \A i \in 1..Len(s)-1 : s[i] \in S
  BY ElementOfSeq, LenProperties
<1>2. Len(s) \in Nat
  BY LenProperties
<1> QED
  BY <1>1, <1>2, SubSeqProperties DEF Front

\* What the [WAIT] and barge-in pops leave is a conversation.
LEMMA PopIfType ==
    ASSUME NEW role, conversation \in Seq(Message)
    PROVE  PopIf(role) \in Seq(Message)
BY FrontType DEF PopIf, EndsWith

\* run() ending leaves the program counters well typed.
LEMMA EndRunType ==
    ASSUME NEW pcs \in [Tasks -> TaskStates], lock \in Owners \cup {"free"}, EndRun(pcs)
    PROVE  /\ pc' \in [Tasks -> TaskStates]
           /\ lock' \in Owners \cup {"free"}
BY DEF EndRun, TaskStates, Tasks, Owners

\* EndRun releases the lock of every task it stops.  The voice task may only
\* have been left alone, cancelled or dropped.
LEMMA EndRunLock ==
    ASSUME TypeOK, LockInv, NEW pcs \in [Tasks -> TaskStates], EndRun(pcs),
           \/ pcs["llm"] = pc["llm"]
           \/ pcs["llm"] = "none"
           \/ pcs["llm"] = "cancel" /\ pc["llm"] # "none"
    PROVE  LockInv'
<1>1. /\ pc'["text"] \in {"done", "dead"}
      /\ pc'["monitor"] \in {"done", "dead"}
      /\ pc'["llm"] = pcs["llm"]
  BY DEF EndRun, Tasks
<1>2. lock' = IF lock \in {"text", "monitor"} \/ (lock = "llm" /\ pcs["llm"] = "none")
              THEN "free" ELSE lock
  BY DEF EndRun
<1> QED
  BY <1>1, <1>2 DEF LockInv, InTurn, Owners, TypeOK

\* The items the client and the end of the stream put on a queue are items.
LEMMA ItemTypes ==
    /\ Final \in Item
    /\ Utt \subseteq Item
    /\ \A u \in Item : u # Final => u \in Utt
    /\ \A u \in Item : Words(u) \subseteq Nat
<1>1. \A u \in Item : u.id \in Nat
  BY DEF Item, Utt, Final
<1> QED
  BY <1>1 DEF Item, Words

\* Queues and texts stay sequences of their elements.
LEMMA QueueTypes ==
    ASSUME NEW S, NEW q \in Seq(S)
    PROVE  /\ q # <<>> => Head(q) \in S /\ Tail(q) \in Seq(S)
           /\ \A e \in S : Append(q, e) \in Seq(S)
BY HeadTailProperties, AppendProperties

\* Counting one more message keeps the type of the counters.
LEMMA SentTypes ==
    ASSUME NEW s \in [utt : Nat, typed : Nat, interrupts : Nat]
    PROVE  /\ s.utt + s.typed + 1 \in Nat
           /\ [s EXCEPT !.utt = @ + 1] \in [utt : Nat, typed : Nat, interrupts : Nat]
           /\ [s EXCEPT !.typed = @ + 1] \in [utt : Nat, typed : Nat, interrupts : Nat]
           /\ [s EXCEPT !.interrupts = @ + 1] \in [utt : Nat, typed : Nat, interrupts : Nat]
OBVIOUS

\* So does each way a failing task ends run().
LEMMA TopTaskFailsType ==
    ASSUME TypeOK, NEW t \in Tasks, TopTaskFails(t)
    PROVE  pc' \in [Tasks -> TaskStates] /\ lock' \in Owners \cup {"free"}
BY EndRunType DEF TopTaskFails, TypeOK, TaskStates

\* The failure of the consumer keeps the types of pc and lock.
LEMMA ConsumerFailsType ==
    ASSUME TypeOK, ConsumerFails
    PROVE  pc' \in [Tasks -> TaskStates] /\ lock' \in Owners \cup {"free"}
BY EndRunType DEF ConsumerFails, TypeOK, TaskStates

\* The failure of the reader keeps the types of pc and lock.
LEMMA ReaderFailsType ==
    ASSUME TypeOK, ReaderFails
    PROVE  pc' \in [Tasks -> TaskStates] /\ lock' \in Owners \cup {"free"}
<1> DEFINE pcs == [pc EXCEPT !["reader"] = "dead",
                     !["llm"] = IF @ = "none" THEN @ ELSE "cancel",
                     !["consumer"] = IF @ \in {"await", "rollback", "done"} THEN @ ELSE "dead"]
<1>1. pcs \in [Tasks -> TaskStates]
  BY DEF TypeOK, TaskStates
<1>2. EndRun(pcs)
  BY DEF ReaderFails
<1> HIDE DEF pcs
<1> QED
  BY <1>1, <1>2, EndRunType DEF TypeOK

\* What a caller does with (0, 0) keeps the variables it writes well typed.
LEMMA AfterWaitType ==
    ASSUME TypeOK, NEW o \in Owners, NEW conv \in Seq(Message), AfterWait(o, conv)
    PROVE  /\ conversation' \in Seq(Message) /\ carry' \in Seq(Utt)
           /\ carrySet' \in {"none", "fresh", "due"} /\ waitCount' \in Nat
           /\ retry' \in BOOLEAN /\ state' \in {"idle", "listening", "processing", "speaking"}
           /\ prompts' \in 0..2
<1>1. CASE o = "llm"
  BY <1>1 DEF TypeOK, AfterWait
<1>2. CASE o = "monitor"
  BY <1>2 DEF TypeOK, AfterWait, Listening, carryVars
<1>3. CASE o = "text"
  <2>1. conversation' \in Seq(Message)
    BY <1>3, MessageTypes, QueueTypes, FrontType DEF AfterWait
  <2>2. carry' = carry /\ carrySet' = carrySet /\ waitCount' \in {waitCount, 0}
    BY <1>3 DEF AfterWait, carryVars
  <2>3. retry' = TRUE /\ state' = state /\ prompts' = prompts
    BY <1>3 DEF AfterWait
  <2> QED
    BY <2>1, <2>2, <2>3 DEF TypeOK
<1> QED
  BY <1>1, <1>2, <1>3 DEF Owners

\* Program counters and lock stay well typed.
LEMMA PcType ==
    ASSUME TypeOK, [Next]_vars
    PROVE  pc' \in [Tasks -> TaskStates] /\ lock' \in Owners \cup {"free"}
<1> DEFINE Goal == pc' \in [Tasks -> TaskStates] /\ lock' \in Owners \cup {"free"}
<1>pc. pc \in [Tasks -> TaskStates] /\ lock \in Owners \cup {"free"}
  BY DEF TypeOK
<1>1. CASE ClientStep
  <2>1. ASSUME NEW kind \in VoiceKinds, RecvAudio(kind) PROVE Goal
    BY <2>1, <1>pc DEF RecvAudio, TaskStates, Tasks
  <2>2. CASE RecvText
    BY <2>2, <1>pc DEF RecvText, TaskStates, Tasks, Owners
  <2>3. CASE RecvInterrupt
    BY <2>3, <1>pc DEF RecvInterrupt, TaskStates, Tasks, Owners
  <2>4. CASE RecvEnd
    BY <2>4, <1>pc DEF RecvEnd, TaskStates, Tasks, Owners
  <2>5. CASE ClientDisconnects
    BY <2>5, <1>pc DEF ClientDisconnects, TaskStates, Tasks, Owners
  <2> QED
    BY <1>1, <2>1, <2>2, <2>3, <2>4, <2>5 DEF ClientStep
<1>2. CASE RunStep
  <2>1. CASE SendOpening
    BY <2>1, <1>pc DEF SendOpening, TaskStates, Tasks, Owners
  <2>2. CASE OpeningFails
    BY <2>2, <1>pc DEF OpeningFails, TaskStates, Tasks, Owners
  <2>3. CASE Finalize
    BY <2>3, <1>pc DEF Finalize, TaskStates, Tasks, Owners
  <2> QED
    BY <1>2, <2>1, <2>2, <2>3 DEF RunStep
<1>3. CASE PutAudio
  BY <1>3, <1>pc DEF PutAudio, TaskStates, Tasks, Owners
<1>4. CASE ReaderStep
  <2>1. CASE SttFinal
    BY <2>1, <1>pc DEF SttFinal, TaskStates, Tasks, Owners
  <2>2. CASE SttEnds
    BY <2>2, <1>pc DEF SttEnds, TaskStates, Tasks, Owners
  <2>3. CASE ReaderSendFails
    BY <2>3, ReaderFailsType DEF ReaderSendFails, Tasks
  <2> QED
    BY <1>4, <2>1, <2>2, <2>3 DEF ReaderStep
<1>5. CASE ConsumerStep
  <2>1. CASE FirstFinal
    BY <2>1, <1>pc DEF FirstFinal, TaskStates, Tasks, Owners
  <2>2. CASE ConsumerEnds
    BY <2>2, <1>pc DEF ConsumerEnds, TaskStates, Tasks, Owners
  <2>3. CASE CollectFinal
    BY <2>3, <1>pc DEF CollectFinal, TaskStates, Tasks, Owners
  <2>4. CASE CommitTurn
    BY <2>4, <1>pc DEF CommitTurn, TaskStates, Tasks, Owners
  <2>5. CASE LaunchTurn
    BY <2>5, <1>pc DEF LaunchTurn, TaskStates, Tasks, Owners
  <2>6. CASE BargeInRecovery
    BY <2>6, <1>pc DEF BargeInRecovery, TaskStates, Tasks, Owners
  <2>7. CASE ConsumerSendFails
    BY <2>7, ConsumerFailsType DEF ConsumerSendFails, Tasks
  <2> QED
    BY <1>5, <2>1, <2>2, <2>3, <2>4, <2>5, <2>6, <2>7 DEF ConsumerStep
<1>6. CASE LlmStep
  <2>1. CASE CancelDone
    BY <2>1, <1>pc DEF CancelDone, TaskStates, Tasks, Owners
  <2>2. CASE LlmWaited
    BY <2>2, <1>pc DEF LlmWaited, TaskStates, Tasks, Owners
  <2>3. CASE LlmReplied
    BY <2>3, <1>pc DEF LlmReplied, TaskStates, Tasks, Owners
  <2> QED
    BY <1>6, <2>1, <2>2, <2>3 DEF LlmStep
<1>7. CASE TextStep
  <2>1. CASE TakeText
    BY <2>1, <1>pc DEF TakeText, TaskStates, Tasks, Owners
  <2>2. CASE TextEnds
    BY <2>2, <1>pc DEF TextEnds, TaskStates, Tasks, Owners
  <2>3. CASE TextReplied
    BY <2>3, <1>pc DEF TextReplied, TaskStates, Tasks, Owners
  <2> QED
    BY <1>7, <2>1, <2>2, <2>3 DEF TextStep
<1>8. CASE MonitorStep
  <2>1. CASE ForceRespond
    BY <2>1, <1>pc DEF ForceRespond, TaskStates, Tasks, Owners
  <2>2. CASE ForceAppend
    BY <2>2, <1>pc DEF ForceAppend, TaskStates, Tasks, Owners
  <2>3. CASE MonitorWaited
    BY <2>3, <1>pc DEF MonitorWaited, TaskStates, Tasks, Owners
  <2>4. CASE SoftPrompt
    BY <2>4, <1>pc DEF SoftPrompt, TaskStates, Tasks, Owners
  <2>5. CASE MonitorSendFails
    BY <2>5, TopTaskFailsType DEF MonitorSendFails, Tasks
  <2> QED
    BY <1>8, <2>1, <2>2, <2>3, <2>4, <2>5 DEF MonitorStep
<1>9. CASE CarryoverAges
  BY <1>9, <1>pc DEF CarryoverAges, TaskStates, Tasks, Owners
<1>10. ASSUME NEW o \in Owners, Turn(o) PROVE Goal
  <2>1. CASE Acquire(o)
    BY <2>1, <1>pc DEF Acquire, AfterReply, AfterWait, TaskStates, Tasks, Owners
  <2>2. CASE Speak(o)
    BY <2>2, <1>pc DEF Speak, AfterReply, AfterWait, TaskStates, Tasks, Owners
  <2>3. CASE Reply(o)
    BY <2>3, <1>pc DEF Reply, AfterReply, AfterWait, TaskStates, Tasks, Owners
  <2>4. CASE WaitSignal(o)
    BY <2>4, <1>pc DEF WaitSignal, AfterReply, AfterWait, TaskStates, Tasks, Owners
  <2>5. CASE EmptyReply(o)
    BY <2>5, <1>pc DEF EmptyReply, AfterReply, AfterWait, TaskStates, Tasks, Owners
  <2>6. CASE TurnFails(o)
    BY <2>6, ConsumerFailsType, TopTaskFailsType DEF TurnFails, Tasks, Owners
  <2> QED
    BY <1>10, <2>1, <2>2, <2>3, <2>4, <2>5, <2>6 DEF Turn
<1>11. CASE UNCHANGED vars
  BY <1>11, <1>pc DEF vars
<1> QED
  BY <1>1, <1>2, <1>3, <1>4, <1>5, <1>6, <1>7, <1>8, <1>9, <1>10, <1>11 DEF Next

\* The initial state has the declared types.
LEMMA InitType == Init => TypeOK
<1> SUFFICES ASSUME Init PROVE TypeOK
  OBVIOUS
<1>1. pc \in [Tasks -> TaskStates]
  BY DEF Init, Tasks, TaskStates
<1>2. \A S : <<>> \in Seq(S)
  BY EmptySeq
<1>3. /\ audio_in \in Seq(Item) /\ text_in \in Seq(Item) /\ final_queue \in Seq(Item)
      /\ conversation \in Seq(Message) /\ transcript \in Seq(Message)
      /\ carry \in Seq(Utt) /\ acc \in Seq(Utt) /\ monText \in Seq(Utt)
  BY <1>2 DEF Init
<1>4. interrupted \in BOOLEAN /\ retry \in BOOLEAN /\ wsOpen \in BOOLEAN
  BY DEF Init
<1>5. /\ rxItem \in Item /\ lock = "free" /\ state = "idle" /\ prompts = 0
      /\ carrySet = "none" /\ waitCount = 0 /\ lowCount = 0 /\ status = "active"
      /\ pendWords = {} /\ savedWords = {} /\ received = {}
      /\ sent \in [utt : Nat, typed : Nat, interrupts : Nat]
  BY ItemTypes DEF Init
<1> QED
  BY <1>1, <1>3, <1>4, <1>5 DEF TypeOK

\* Every step keeps the declared types.
LEMMA NextType ==
    ASSUME TypeOK, [Next]_vars
    PROVE  TypeOK'
<1> DEFINE Goal == TypeOK'
<1>1. CASE ClientStep
  <2>1. ASSUME NEW kind \in VoiceKinds, RecvAudio(kind) PROVE Goal
    <3> DEFINE u == [id |-> NewId, kind |-> kind]
    <3>1. u \in Utt
      BY SentTypes, ConstantsAssumption DEF TypeOK, Utt, NewId
    <3>2. rxItem' \in Item /\ received' \in SUBSET Utt
      BY <2>1, <3>1, ItemTypes DEF TypeOK, RecvAudio
    <3>3. sent' \in [utt : Nat, typed : Nat, interrupts : Nat]
      BY <2>1, SentTypes DEF TypeOK, RecvAudio
    <3> QED
      BY <2>1, PcType, <3>1, <3>2, <3>3 DEF TypeOK, RecvAudio, queues, carryVars, db, client, locals
  <2>2. CASE RecvText
    <3> DEFINE u == [id |-> NewId, kind |-> "typed"]
    <3>1. u \in Utt
      BY SentTypes DEF TypeOK, Utt, NewId
    <3>2. text_in' \in Seq(Item)
      BY <2>2, <3>1, ItemTypes, QueueTypes DEF TypeOK, RecvText
    <3>3. received' \in SUBSET Utt
      BY <2>2, <3>1 DEF TypeOK, RecvText
    <3>4. sent' \in [utt : Nat, typed : Nat, interrupts : Nat]
      BY <2>2, SentTypes DEF TypeOK, RecvText
    <3> QED
      BY <2>2, PcType, <3>1, <3>2, <3>3, <3>4 DEF TypeOK, RecvText, queues, carryVars, db, client,
         locals
  <2>3. CASE RecvInterrupt
    <3>1. sent' \in [utt : Nat, typed : Nat, interrupts : Nat]
      BY <2>3, SentTypes DEF TypeOK, RecvInterrupt
    <3> QED
      BY <2>3, PcType, <3>1 DEF TypeOK, RecvInterrupt, queues, carryVars, db, client, locals
  <2>4. CASE RecvEnd
    BY <2>4, PcType, ItemTypes DEF TypeOK, RecvEnd, queues, carryVars, db, client, locals, Item
  <2>5. CASE ClientDisconnects
    BY <2>5, PcType DEF TypeOK, ClientDisconnects, queues, carryVars, db, client, locals
  <2> QED
    BY <1>1, <2>1, <2>2, <2>3, <2>4, <2>5 DEF ClientStep
<1>2. CASE RunStep
  <2>1. CASE SendOpening
    <3>1. conversation' \in Seq(Message)
      BY <2>1, MessageTypes DEF TypeOK, SendOpening
    <3> QED
      BY <2>1, PcType, <3>1 DEF TypeOK, SendOpening, queues, carryVars, db, client, locals,
         Listening, Enter, Commit, Rollback, SaveTurn
  <2>2. CASE OpeningFails
    BY <2>2, PcType DEF TypeOK, OpeningFails, queues, carryVars, db, client, locals
  <2>3. CASE Finalize
    BY <2>3, PcType DEF TypeOK, Finalize, queues, carryVars, db, client, locals, Commit
  <2> QED
    BY <1>2, <2>1, <2>2, <2>3 DEF RunStep
<1>3. CASE PutAudio
  <2>1. audio_in' \in Seq(Item) /\ text_in' \in Seq(Item)
    BY <1>3, ItemTypes, QueueTypes DEF TypeOK, PutAudio
  <2> QED
    BY <1>3, PcType, <2>1 DEF TypeOK, PutAudio, queues, carryVars, db, client, locals, Final, Item
<1>4. CASE ReaderStep
  <2>1. CASE SttFinal
    <3>1. audio_in' \in Seq(Item) /\ final_queue' \in Seq(Item)
      BY <2>1, QueueTypes DEF TypeOK, SttFinal
    <3>2. interrupted' \in BOOLEAN /\ prompts' = 0
      BY <2>1 DEF TypeOK, SttFinal
    <3>3. UNCHANGED <<rxItem, text_in, state, conversation, carryVars, lowCount,
                         locals, db, client>>
      BY <2>1 DEF SttFinal
    <3> QED
      BY PcType, <3>1, <3>2, <3>3 DEF TypeOK, carryVars, db, client, locals
  <2>2. CASE SttEnds
    <3>1. audio_in' \in Seq(Item) /\ final_queue' \in Seq(Item)
      BY <2>2, ItemTypes, QueueTypes DEF TypeOK, SttEnds
    <3> QED
      BY <2>2, PcType, <3>1 DEF TypeOK, SttEnds, queues, carryVars, db, client, locals
  <2>3. CASE ReaderSendFails
    BY <2>3, PcType DEF TypeOK, ReaderSendFails, queues, carryVars, db, client, locals
  <2> QED
    BY <1>4, <2>1, <2>2, <2>3 DEF ReaderStep
<1>5. CASE ConsumerStep
  <2>1. CASE FirstFinal
    <3>1. NextFinal \in Item \cap Utt /\ final_queue' \in Seq(Item)
      BY <2>1, ItemTypes, QueueTypes DEF TypeOK, FirstFinal, NextFinal
    <3>2. pendWords' \in SUBSET Nat
      BY <2>1, <3>1, ItemTypes DEF TypeOK, FirstFinal, SaveWords
    <3>3. <<NextFinal>> \in Seq(Utt) /\ Append(acc, NextFinal) \in Seq(Utt)
      BY <3>1, QueueTypes DEF TypeOK
    <3>4. acc' \in Seq(Utt)
      BY <2>1, <3>3 DEF TypeOK, FirstFinal
    <3> QED
      BY <2>1, PcType, <3>1, <3>2, <3>3, <3>4 DEF TypeOK, FirstFinal, queues, carryVars, db,
         client, locals
  <2>2. CASE ConsumerEnds
    <3>1. final_queue' \in Seq(Item)
      BY <2>2, QueueTypes DEF TypeOK, ConsumerEnds
    <3> QED
      BY <2>2, PcType, <3>1 DEF TypeOK, ConsumerEnds, queues, carryVars, db, client, locals
  <2>3. CASE CollectFinal
    <3>1. NextFinal \in Item \cap Utt /\ final_queue' \in Seq(Item)
      BY <2>3, ItemTypes, QueueTypes DEF TypeOK, CollectFinal, NextFinal
    <3>2. pendWords' \in SUBSET Nat
      BY <2>3, <3>1, ItemTypes DEF TypeOK, CollectFinal, SaveWords
    <3>3. <<NextFinal>> \in Seq(Utt) /\ Append(acc, NextFinal) \in Seq(Utt)
      BY <3>1, QueueTypes DEF TypeOK
    <3>4. acc' \in Seq(Utt)
      BY <2>3, <3>3 DEF TypeOK, CollectFinal
    <3> QED
      BY <2>3, PcType, <3>1, <3>2, <3>3, <3>4 DEF TypeOK, CollectFinal, queues, carryVars, db,
         client, locals
  <2>4. CASE CommitTurn
    <3>1. final_queue' \in Seq(Item)
      BY <2>4, QueueTypes DEF TypeOK, CommitTurn
    <3>2. carry \o acc \in Seq(Utt) /\ <<>> \in Seq(Utt)
      BY ConcatProperties DEF TypeOK
    <3>3. carry' \in Seq(Utt) /\ acc' \in Seq(Utt)
      BY <2>4, <3>2 DEF CommitTurn
    <3> QED
      BY <2>4, PcType, <3>1, <3>2, <3>3 DEF TypeOK, CommitTurn, queues, carryVars, db, client,
         locals
  <2>5. CASE LaunchTurn
    <3>1. conversation' \in Seq(Message)
      BY <2>5, MessageTypes, QueueTypes DEF TypeOK, LaunchTurn
    <3> QED
      BY <2>5, PcType, <3>1 DEF TypeOK, LaunchTurn, queues, carryVars, db, client, locals,
         Listening, Enter, Commit, Rollback, SaveTurn
  <2>6. CASE BargeInRecovery
    <3>1. conversation' \in Seq(Message)
      BY <2>6, PopIfType DEF TypeOK, BargeInRecovery
    <3> QED
      BY <2>6, PcType, <3>1 DEF TypeOK, BargeInRecovery, queues, carryVars, db, client, locals,
         Listening, Enter, Commit, Rollback, SaveTurn
  <2>7. CASE ConsumerSendFails
    <3>1. final_queue' = final_queue \/ (final_queue # <<>> /\ final_queue' = Tail(final_queue))
      BY <2>7 DEF ConsumerSendFails
    <3>2. final_queue \in Seq(Item)
      BY DEF TypeOK
    <3>3. final_queue' \in Seq(Item)
      BY <3>1, <3>2, HeadTailProperties
    <3>4. pendWords' \in SUBSET Nat
      BY <2>7, ItemTypes, QueueTypes DEF TypeOK, ConsumerSendFails, SaveWords, NextFinal
    <3>5. lowCount' \in Nat
      BY <2>7 DEF TypeOK, ConsumerSendFails
    <3>6. UNCHANGED <<rxItem, audio_in, text_in, interrupted, state, prompts, conversation,
                         carryVars, locals, savedWords, transcript, status, client>>
      BY <2>7 DEF ConsumerSendFails
    <3> QED
      BY PcType, <3>1, <3>2, <3>3, <3>4, <3>5, <3>6 DEF TypeOK, carryVars, locals, client
  <2> QED
    BY <1>5, <2>1, <2>2, <2>3, <2>4, <2>5, <2>6, <2>7 DEF ConsumerStep
<1>6. CASE LlmStep
  <2>1. CASE CancelDone
    BY <2>1, PcType DEF TypeOK, CancelDone, queues, carryVars, db, client, locals
  <2>2. CASE LlmWaited
    BY <2>2, PcType DEF TypeOK, LlmWaited, queues, carryVars, db, client, locals, Listening,
       Enter, Commit, Rollback, SaveTurn
  <2>3. CASE LlmReplied
    <3>1. transcript' \in Seq(Message) /\ status' = status
      BY <2>3 DEF TypeOK, LlmReplied, SaveTurn
    <3>2. pendWords' \in SUBSET Nat /\ savedWords' \in SUBSET Nat
      BY <2>3 DEF TypeOK, LlmReplied, SaveTurn, Commit
    <3>3. state' = "listening" /\ prompts' = 0
      BY <2>3 DEF LlmReplied, Listening
    <3>4. acc' \in Seq(Utt) /\ retry' \in BOOLEAN
      BY <2>3, EmptySeq DEF TypeOK, LlmReplied
    <3>5. UNCHANGED <<queues, interrupted, conversation, carryVars, lowCount,
                         monText, client>>
      BY <2>3 DEF LlmReplied
    <3> QED
      BY PcType, <3>1, <3>2, <3>3, <3>4, <3>5 DEF TypeOK, queues, carryVars, client
  <2> QED
    BY <1>6, <2>1, <2>2, <2>3 DEF LlmStep
<1>7. CASE TextStep
  <2>1. CASE TakeText
    <3>1. Head(text_in) \in Utt /\ text_in' \in Seq(Item)
      BY <2>1, ItemTypes, QueueTypes DEF TypeOK, TakeText
    <3>2. Append(carry, Head(text_in)) \in Seq(Utt)
      BY <3>1, QueueTypes DEF TypeOK
    <3>3. conversation' \in Seq(Message)
      BY <2>1, <3>2, MessageTypes, QueueTypes DEF TypeOK, TakeText
    <3>4. carry' \in Seq(Utt) /\ lowCount' = 0
      BY <2>1, EmptySeq DEF TakeText
    <3>5. UNCHANGED <<rxItem, audio_in, final_queue, interrupted, state, prompts, carrySet,
                         waitCount, locals, db, client>>
      BY <2>1 DEF TakeText
    <3> QED
      BY PcType, <3>1, <3>3, <3>4, <3>5 DEF TypeOK, locals, db, client
  <2>2. CASE TextEnds
    <3>1. text_in' \in Seq(Item)
      BY <2>2, QueueTypes DEF TypeOK, TextEnds
    <3> QED
      BY <2>2, PcType, <3>1 DEF TypeOK, TextEnds, queues, carryVars, db, client, locals
  <2>3. CASE TextReplied
    <3>1. transcript' \in Seq(Message) /\ status' = status
      BY <2>3 DEF TypeOK, TextReplied, SaveTurn
    <3>2. pendWords' \in SUBSET Nat /\ savedWords' \in SUBSET Nat
      BY <2>3 DEF TypeOK, TextReplied, SaveTurn, Commit
    <3>3. state' = "listening" /\ prompts' = 0
      BY <2>3 DEF TextReplied, Listening
    <3>4. acc' \in Seq(Utt) /\ retry' \in BOOLEAN
      BY <2>3, EmptySeq DEF TypeOK, TextReplied
    <3>5. UNCHANGED <<queues, interrupted, conversation, carryVars, lowCount,
                         monText, client>>
      BY <2>3 DEF TextReplied
    <3> QED
      BY PcType, <3>1, <3>2, <3>3, <3>4, <3>5 DEF TypeOK, queues, carryVars, client
  <2> QED
    BY <1>7, <2>1, <2>2, <2>3 DEF TextStep
<1>8. CASE MonitorStep
  <2>1. CASE ForceRespond
    BY <2>1, PcType DEF TypeOK, ForceRespond, queues, carryVars, db, client, locals
  <2>2. CASE ForceAppend
    <3>1. conversation' \in Seq(Message)
      BY <2>2, MessageTypes, QueueTypes DEF TypeOK, ForceAppend
    <3> QED
      BY <2>2, PcType, <3>1 DEF TypeOK, ForceAppend, queues, carryVars, db, client, locals,
         Listening, Enter, Commit, Rollback, SaveTurn
  <2>3. CASE MonitorWaited
    BY <2>3, PcType DEF TypeOK, MonitorWaited, queues, carryVars, db, client, locals
  <2>4. CASE SoftPrompt
    BY <2>4, PcType DEF TypeOK, SoftPrompt, queues, carryVars, db, client, locals
  <2>5. CASE MonitorSendFails
    BY <2>5, PcType DEF TypeOK, MonitorSendFails, queues, carryVars, db, client, locals
  <2> QED
    BY <1>8, <2>1, <2>2, <2>3, <2>4, <2>5 DEF MonitorStep
<1>9. CASE CarryoverAges
  BY <1>9, PcType DEF TypeOK, CarryoverAges, queues, carryVars, db, client, locals
<1>10. ASSUME NEW o \in Owners, Turn(o) PROVE Goal
  <2>1. CASE Acquire(o)
    BY <2>1, PcType DEF TypeOK, Acquire, queues, carryVars, db, client, locals, Listening, Enter
  <2>2. CASE Speak(o)
    BY <2>2, PcType DEF TypeOK, Speak, queues, carryVars, db, client, locals, Listening, Enter
  <2>3. CASE Reply(o)
    <3>1. conversation' \in Seq(Message)
      BY <2>3, MessageTypes, QueueTypes DEF TypeOK, Reply, AfterReply
    <3>2. waitCount' \in Nat /\ UNCHANGED <<carry, carrySet, retry>>
      BY <2>3 DEF TypeOK, Reply, AfterReply
    <3>3. state' \in {"listening", "processing"} /\ prompts' \in 0..2
      BY <2>3 DEF TypeOK, Reply, AfterReply, Listening, Enter
    <3> QED
      BY <2>3, PcType, <3>1, <3>2, <3>3 DEF TypeOK, Reply, queues, db, client
  <2>4. CASE WaitSignal(o)
    <3>1. PopIf("user") \in Seq(Message)
      BY PopIfType DEF TypeOK
    <3>2. AfterWait(o, PopIf("user"))
      BY <2>4 DEF WaitSignal
    <3>3. /\ conversation' \in Seq(Message) /\ carry' \in Seq(Utt)
         /\ carrySet' \in {"none", "fresh", "due"} /\ waitCount' \in Nat
         /\ retry' \in BOOLEAN /\ state' \in {"idle", "listening", "processing", "speaking"}
         /\ prompts' \in 0..2
      BY <3>1, <3>2, AfterWaitType
    <3> QED
      BY <2>4, PcType, <3>1, <3>2, <3>3 DEF TypeOK, WaitSignal, queues, db, client
  <2>5. CASE EmptyReply(o)
    <3>1. Append(conversation, Assistant) \in Seq(Message)
      BY MessageTypes, QueueTypes DEF TypeOK
    <3>2. AfterWait(o, Append(conversation, Assistant))
      BY <2>5 DEF EmptyReply
    <3>3. /\ conversation' \in Seq(Message) /\ carry' \in Seq(Utt)
         /\ carrySet' \in {"none", "fresh", "due"} /\ waitCount' \in Nat
         /\ retry' \in BOOLEAN /\ state' \in {"idle", "listening", "processing", "speaking"}
         /\ prompts' \in 0..2
      BY <3>1, <3>2, AfterWaitType
    <3> QED
      BY <2>5, PcType, <3>1, <3>2, <3>3 DEF TypeOK, EmptyReply, queues, db, client
  <2>6. CASE TurnFails(o)
    BY <2>6, PcType DEF TypeOK, TurnFails, queues, carryVars, db, client, locals, SaveTurn, Commit
  <2> QED
    BY <1>10, <2>1, <2>2, <2>3, <2>4, <2>5, <2>6 DEF Turn
<1>11. CASE UNCHANGED vars
  BY <1>11 DEF vars, TypeOK, queues, carryVars, db, client, locals
<1> QED
  BY <1>1, <1>2, <1>3, <1>4, <1>5, <1>6, <1>7, <1>8, <1>9, <1>10, <1>11 DEF Next

-----------------------------------------------------------------------------
(* Turns are mutually exclusive *)

\* LockInv alone is not inductive: launching a voice turn is safe only because
\* no other voice turn, which might hold the lock, exists at that point.
IInv == TypeOK /\ LockInv /\ ConsumerAwaitsTask

\* The failure of the text loop or the monitor frees the lock it held and no other.
LEMMA TopTaskFailsInv ==
    ASSUME IInv, NEW t \in {"text", "monitor"}, TopTaskFails(t)
    PROVE  LockInv' /\ ConsumerAwaitsTask'
<1> DEFINE pcs == [pc EXCEPT ![t] = "dead"]
<1>1. pcs \in [Tasks -> TaskStates] /\ pcs["llm"] = pc["llm"] /\ pcs["consumer"] = pc["consumer"]
  BY DEF IInv, TypeOK, TaskStates, Tasks
<1>2. EndRun(pcs)
  BY DEF TopTaskFails
<1>3. pc'["llm"] = pcs["llm"] /\ pc'["consumer"] = pcs["consumer"]
  BY <1>2 DEF EndRun, Tasks
<1> HIDE DEF pcs
<1> QED
  BY <1>1, <1>2, <1>3, EndRunLock DEF IInv, ConsumerAwaitsTask

\* The failure of the consumer takes its task and the lock the task held with it.
LEMMA ConsumerFailsInv ==
    ASSUME IInv, ConsumerFails
    PROVE  LockInv' /\ ConsumerAwaitsTask'
<1> DEFINE pcs == [pc EXCEPT !["consumer"] = "dead", !["llm"] = "none",
                             !["reader"] = IF Alive("reader") THEN "dead" ELSE "done"]
<1>1. pcs \in [Tasks -> TaskStates] /\ pcs["llm"] = "none" /\ pcs["consumer"] = "dead"
  BY DEF IInv, TypeOK, TaskStates, Tasks
<1>2. EndRun(pcs)
  BY DEF ConsumerFails
<1>3. pc'["llm"] = pcs["llm"] /\ pc'["consumer"] = pcs["consumer"]
  BY <1>2 DEF EndRun, Tasks
<1> HIDE DEF pcs
<1> QED
  BY <1>1, <1>2, <1>3, EndRunLock DEF IInv, ConsumerAwaitsTask

\* The failure of the reader cancels a running task, whose consumer stays paired with it.
LEMMA ReaderFailsInv ==
    ASSUME IInv, ReaderFails
    PROVE  LockInv' /\ ConsumerAwaitsTask'
<1> DEFINE pcs == [pc EXCEPT !["reader"] = "dead",
                     !["llm"] = IF @ = "none" THEN @ ELSE "cancel",
                     !["consumer"] = IF @ \in {"await", "rollback", "done"} THEN @ ELSE "dead"]
<1>1. /\ pcs \in [Tasks -> TaskStates]
      /\ pcs["llm"] = IF pc["llm"] = "none" THEN "none" ELSE "cancel"
      /\ pcs["consumer"] = IF pc["consumer"] \in {"await", "rollback", "done"}
                           THEN pc["consumer"] ELSE "dead"
  BY DEF IInv, TypeOK, TaskStates, Tasks
<1>2. EndRun(pcs)
  BY DEF ReaderFails
<1>3. pc'["llm"] = pcs["llm"] /\ pc'["consumer"] = pcs["consumer"]
  BY <1>2 DEF EndRun, Tasks
<1> HIDE DEF pcs
<1> QED
  BY <1>1, <1>2, <1>3, EndRunLock DEF IInv, ConsumerAwaitsTask

\* Every step keeps the lock in agreement with the turns and the task with its consumer.
LEMMA NextLock ==
    ASSUME IInv, [Next]_vars
    PROVE  LockInv' /\ ConsumerAwaitsTask'
<1> DEFINE Goal == LockInv' /\ ConsumerAwaitsTask'
<1>a. TypeOK /\ LockInv /\ ConsumerAwaitsTask
  BY DEF IInv
<1>1. CASE ClientStep
  <2>1. ASSUME NEW kind \in VoiceKinds, RecvAudio(kind) PROVE Goal
    BY <2>1, <1>a DEF RecvAudio, TypeOK, LockInv, ConsumerAwaitsTask, InTurn, Tasks, Owners
  <2>2. CASE RecvText
    BY <2>2, <1>a DEF RecvText, TypeOK, LockInv, ConsumerAwaitsTask, InTurn, Tasks, Owners
  <2>3. CASE RecvInterrupt
    BY <2>3, <1>a DEF RecvInterrupt, TypeOK, LockInv, ConsumerAwaitsTask, InTurn, Tasks, Owners
  <2>4. CASE RecvEnd
    BY <2>4, <1>a DEF RecvEnd, TypeOK, LockInv, ConsumerAwaitsTask, InTurn, Tasks, Owners
  <2>5. CASE ClientDisconnects
    BY <2>5, <1>a DEF ClientDisconnects, TypeOK, LockInv, ConsumerAwaitsTask, InTurn, Tasks, Owners
  <2> QED
    BY <1>1, <2>1, <2>2, <2>3, <2>4, <2>5 DEF ClientStep
<1>2. CASE RunStep
  <2>1. CASE SendOpening
    BY <2>1, <1>a DEF SendOpening, TypeOK, LockInv, ConsumerAwaitsTask, InTurn, Tasks, Owners
  <2>2. CASE OpeningFails
    BY <2>2, <1>a DEF OpeningFails, TypeOK, LockInv, ConsumerAwaitsTask, InTurn, Tasks, Owners
  <2>3. CASE Finalize
    BY <2>3, <1>a DEF Finalize, TypeOK, LockInv, ConsumerAwaitsTask, InTurn, Tasks, Owners
  <2> QED
    BY <1>2, <2>1, <2>2, <2>3 DEF RunStep
<1>3. CASE PutAudio
  BY <1>3, <1>a DEF PutAudio, TypeOK, LockInv, ConsumerAwaitsTask, InTurn, Tasks, Owners
<1>4. CASE ReaderStep
  <2>1. CASE SttFinal
    BY <2>1, <1>a DEF SttFinal, LlmRunning, TypeOK, LockInv, ConsumerAwaitsTask, InTurn, Tasks,
       Owners
  <2>2. CASE SttEnds
    BY <2>2, <1>a DEF SttEnds, TypeOK, LockInv, ConsumerAwaitsTask, InTurn, Tasks, Owners
  <2>3. CASE ReaderSendFails
    BY <2>3, ReaderFailsInv DEF ReaderSendFails, Polling
  <2> QED
    BY <1>4, <2>1, <2>2, <2>3 DEF ReaderStep
<1>5. CASE ConsumerStep
  <2>1. CASE FirstFinal
    BY <2>1, <1>a DEF FirstFinal, TypeOK, LockInv, ConsumerAwaitsTask, InTurn, Tasks, Owners
  <2>2. CASE ConsumerEnds
    BY <2>2, <1>a DEF ConsumerEnds, TypeOK, LockInv, ConsumerAwaitsTask, InTurn, Tasks, Owners
  <2>3. CASE CollectFinal
    BY <2>3, <1>a DEF CollectFinal, TypeOK, LockInv, ConsumerAwaitsTask, InTurn, Tasks, Owners
  <2>4. CASE CommitTurn
    BY <2>4, <1>a DEF CommitTurn, TypeOK, LockInv, ConsumerAwaitsTask, InTurn, Tasks, Owners
  <2>5. CASE LaunchTurn
    BY <2>5, <1>a DEF LaunchTurn, TypeOK, LockInv, ConsumerAwaitsTask, InTurn, Tasks, Owners
  <2>6. CASE BargeInRecovery
    BY <2>6, <1>a DEF BargeInRecovery, TypeOK, LockInv, ConsumerAwaitsTask, InTurn, Tasks, Owners
  <2>7. CASE ConsumerSendFails
    BY <2>7, ConsumerFailsInv DEF ConsumerSendFails, Polling
  <2> QED
    BY <1>5, <2>1, <2>2, <2>3, <2>4, <2>5, <2>6, <2>7 DEF ConsumerStep
<1>6. CASE LlmStep
  <2>1. CASE CancelDone
    BY <2>1, <1>a DEF CancelDone, TypeOK, LockInv, ConsumerAwaitsTask, InTurn, Tasks, Owners
  <2>2. CASE LlmWaited
    BY <2>2, <1>a DEF LlmWaited, TypeOK, LockInv, ConsumerAwaitsTask, InTurn, Tasks, Owners
  <2>3. CASE LlmReplied
    BY <2>3, <1>a DEF LlmReplied, TypeOK, LockInv, ConsumerAwaitsTask, InTurn, Tasks, Owners
  <2> QED
    BY <1>6, <2>1, <2>2, <2>3 DEF LlmStep
<1>7. CASE TextStep
  <2>1. CASE TakeText
    BY <2>1, <1>a DEF TakeText, TypeOK, LockInv, ConsumerAwaitsTask, InTurn, Tasks, Owners
  <2>2. CASE TextEnds
    BY <2>2, <1>a DEF TextEnds, TypeOK, LockInv, ConsumerAwaitsTask, InTurn, Tasks, Owners
  <2>3. CASE TextReplied
    BY <2>3, <1>a DEF TextReplied, TypeOK, LockInv, ConsumerAwaitsTask, InTurn, Tasks, Owners
  <2> QED
    BY <1>7, <2>1, <2>2, <2>3 DEF TextStep
<1>8. CASE MonitorStep
  <2>1. CASE ForceRespond
    BY <2>1, <1>a DEF ForceRespond, Polling, TypeOK, LockInv, ConsumerAwaitsTask, InTurn, Tasks,
       Owners
  <2>2. CASE ForceAppend
    BY <2>2, <1>a DEF ForceAppend, TypeOK, LockInv, ConsumerAwaitsTask, InTurn, Tasks, Owners
  <2>3. CASE MonitorWaited
    BY <2>3, <1>a DEF MonitorWaited, TypeOK, LockInv, ConsumerAwaitsTask, InTurn, Tasks, Owners
  <2>4. CASE SoftPrompt
    BY <2>4, <1>a DEF SoftPrompt, TypeOK, LockInv, ConsumerAwaitsTask, InTurn, Tasks, Owners
  <2>5. CASE MonitorSendFails
    BY <2>5, TopTaskFailsInv DEF MonitorSendFails, Polling
  <2> QED
    BY <1>8, <2>1, <2>2, <2>3, <2>4, <2>5 DEF MonitorStep
<1>9. CASE CarryoverAges
  BY <1>9, <1>a DEF CarryoverAges, TypeOK, LockInv, ConsumerAwaitsTask, InTurn, Tasks, Owners
<1>10. ASSUME NEW o \in Owners, Turn(o) PROVE Goal
  <2>1. CASE Acquire(o)
    BY <2>1, <1>a DEF Acquire, TypeOK, LockInv, ConsumerAwaitsTask, InTurn, Tasks, Owners
  <2>2. CASE Speak(o)
    BY <2>2, <1>a DEF Speak, TypeOK, LockInv, ConsumerAwaitsTask, InTurn, Tasks, Owners
  <2>3. CASE Reply(o)
    BY <2>3, <1>a DEF Reply, AfterReply, TypeOK, LockInv, ConsumerAwaitsTask, InTurn, Tasks, Owners
  <2>4. CASE WaitSignal(o)
    BY <2>4, <1>a DEF WaitSignal, AfterWait, TypeOK, LockInv, ConsumerAwaitsTask, InTurn, Tasks,
       Owners
  <2>5. CASE EmptyReply(o)
    BY <2>5, <1>a DEF EmptyReply, AfterWait, TypeOK, LockInv, ConsumerAwaitsTask, InTurn, Tasks,
       Owners
  <2>6. CASE TurnFails(o)
    BY <2>6, ConsumerFailsInv, TopTaskFailsInv DEF TurnFails, InTurn, Owners
  <2> QED
    BY <1>10, <2>1, <2>2, <2>3, <2>4, <2>5, <2>6 DEF Turn
<1>11. CASE UNCHANGED vars
  BY <1>11, <1>a DEF vars, LockInv, ConsumerAwaitsTask, InTurn
<1> QED
  BY <1>1, <1>2, <1>3, <1>4, <1>5, <1>6, <1>7, <1>8, <1>9, <1>10, <1>11 DEF Next

\* The initial state satisfies the invariant.
LEMMA InitInv == Init => IInv
<1> SUFFICES ASSUME Init PROVE IInv
  OBVIOUS
<1>1. pc["consumer"] = "get" /\ pc["llm"] = "none" /\ pc["text"] = "get" /\ pc["monitor"] = "sleep"
  BY DEF Init, Tasks
<1>2. lock = "free"
  BY DEF Init
<1> QED
  BY <1>1, <1>2, InitType DEF IInv, LockInv, ConsumerAwaitsTask, InTurn, Owners

\* The invariant holds in every reachable state.
LEMMA Invariance == Spec => []IInv
<1>1. IInv /\ [Next]_vars => IInv'
  BY NextType, NextLock DEF IInv
<1> QED
  BY InitInv, <1>1, PTL DEF Spec

\* Every variable keeps its type in every reachable state.
THEOREM TypeCorrect == Spec => []TypeOK
<1>1. IInv => TypeOK
  BY DEF IInv
<1> QED
  BY Invariance, <1>1, PTL

\* _llm_lock does its work: the lock is held exactly as the turns need it ...
THEOREM LockCorrect == Spec => []LockInv
<1>1. IInv => LockInv
  BY DEF IInv
<1> QED
  BY Invariance, <1>1, PTL

\* ... so a voice turn, a typed turn and a forced turn never generate or speak
\* at the same time, for any number of utterances and whatever is cancelled.
THEOREM TurnsExclusive == Spec => []TurnMutex
<1>1. IInv => TurnMutex
  BY DEF IInv, LockInv, TurnMutex
<1> QED
  BY Invariance, <1>1, PTL

\* The reader may cancel and forget the LLM task at any point; a voice turn
\* and the consumer iteration that awaits it still begin and end together.
THEOREM OneVoiceTurn == Spec => []ConsumerAwaitsTask
<1>1. IInv => ConsumerAwaitsTask
  BY DEF IInv
<1> QED
  BY Invariance, <1>1, PTL

-----------------------------------------------------------------------------
(* The cap on [WAIT] *)

\* Only three places write _wait_count; the rest of the pipeline leaves it.
LEMMA WaitCountWriters ==
    ASSUME [Next]_vars
    PROVE  \/ waitCount' = waitCount
           \/ ForceRespond
           \/ \E o \in Owners : Reply(o) \/ WaitSignal(o) \/ EmptyReply(o)
<1> USE DEF carryVars
<1>1. CASE ClientStep
  BY <1>1 DEF ClientStep, RecvAudio, RecvText, RecvInterrupt, RecvEnd, ClientDisconnects
<1>2. CASE RunStep
  BY <1>2 DEF RunStep, SendOpening, OpeningFails, Finalize
<1>3. CASE PutAudio
  BY <1>3 DEF PutAudio
<1>4. CASE ReaderStep
  BY <1>4 DEF ReaderStep, SttFinal, SttEnds, ReaderSendFails
<1>5. CASE ConsumerStep
  BY <1>5 DEF ConsumerStep, FirstFinal, ConsumerEnds, CollectFinal, CommitTurn, LaunchTurn,
     BargeInRecovery, ConsumerSendFails
<1>6. CASE LlmStep
  BY <1>6 DEF LlmStep, CancelDone, LlmWaited, LlmReplied
<1>7. CASE TextStep
  BY <1>7 DEF TextStep, TakeText, TextEnds, TextReplied
<1>8. CASE MonitorStep
  BY <1>8 DEF MonitorStep, ForceAppend, MonitorWaited, SoftPrompt, MonitorSendFails
<1>9. CASE CarryoverAges
  BY <1>9 DEF CarryoverAges
<1>10. ASSUME NEW o \in Owners, Turn(o)
      PROVE  waitCount' = waitCount \/ Reply(o) \/ WaitSignal(o) \/ EmptyReply(o)
  BY <1>10 DEF Turn, Acquire, Speak, TurnFails
<1>11. CASE UNCHANGED vars
  BY <1>11 DEF vars
<1> QED
  BY <1>1, <1>2, <1>3, <1>4, <1>5, <1>6, <1>7, <1>8, <1>9, <1>10, <1>11 DEF Next

\* If the LLM never returns an empty stream, at most MaxWait answers in a row
\* are put off with [WAIT], over every interleaving with typed and forced turns.
THEOREM WaitCapped ==
    ASSUME "empty" \notin Outcomes
    PROVE  Spec => []WaitBounded
<1>1. Init => WaitBounded
  BY ConstantsAssumption DEF Init, WaitBounded
<1>2. TypeOK /\ WaitBounded /\ [Next]_vars => WaitBounded'
  <2> SUFFICES ASSUME TypeOK, WaitBounded, [Next]_vars PROVE WaitBounded'
    OBVIOUS
  <2>1. waitCount \in Nat /\ MaxWait \in Nat /\ waitCount <= MaxWait
    BY ConstantsAssumption DEF TypeOK, WaitBounded
  <2>2. CASE waitCount' = waitCount
    BY <2>1, <2>2 DEF WaitBounded
  <2>3. CASE ForceRespond
    BY <2>1, <2>3 DEF ForceRespond, WaitBounded
  <2>4. ASSUME NEW o \in Owners, Reply(o) PROVE WaitBounded'
    BY <2>1, <2>4 DEF Reply, AfterReply, WaitBounded
  <2>5. ASSUME NEW o \in Owners, WaitSignal(o) PROVE WaitBounded'
    <3>1. waitCount < MaxWait /\ waitCount' \in {waitCount, waitCount + 1, 0}
      BY <2>5 DEF WaitSignal, AfterWait, carryVars
    <3> QED
      BY <2>1, <3>1 DEF WaitBounded
  <2>6. ASSUME NEW o \in Owners, EmptyReply(o) PROVE WaitBounded'
    BY <2>6 DEF EmptyReply
  <2> QED
    BY <2>2, <2>3, <2>4, <2>5, <2>6, WaitCountWriters
<1> QED
  BY <1>1, <1>2, TypeCorrect, PTL DEF Spec

-----------------------------------------------------------------------------
(* Answers stay in the conversation *)

\* The elements of the sequences that the pipeline builds.
LEMMA SetOfAppend ==
    ASSUME NEW S, NEW s \in Seq(S), NEW e \in S
    PROVE  ToSet(Append(s, e)) = ToSet(s) \cup {e}
<1>1. /\ DOMAIN Append(s, e) = 1..(Len(s) + 1) /\ DOMAIN s = 1..Len(s) /\ Len(s) \in Nat
      /\ \A i \in 1..Len(s) : Append(s, e)[i] = s[i]
      /\ Append(s, e)[Len(s) + 1] = e
  BY AppendProperties, LenProperties
<1>2. ToSet(Append(s, e)) \subseteq ToSet(s) \cup {e}
  BY <1>1 DEF ToSet
<1>3. ToSet(s) \subseteq ToSet(Append(s, e))
  BY <1>1 DEF ToSet
<1>4. e \in ToSet(Append(s, e))
  BY <1>1 DEF ToSet
<1> QED
  BY <1>2, <1>3, <1>4

\* Taking the head of a queue leaves the others.
LEMMA SetOfTail ==
    ASSUME NEW S, NEW s \in Seq(S), s # <<>>
    PROVE  ToSet(s) = {Head(s)} \cup ToSet(Tail(s))
<1>1. /\ DOMAIN s = 1..Len(s) /\ Len(s) \in Nat \ {0} /\ Head(s) = s[1]
      /\ DOMAIN Tail(s) = 1..(Len(s) - 1) /\ \A i \in 1..(Len(s) - 1) : Tail(s)[i] = s[i + 1]
  BY HeadTailProperties, LenProperties, EmptySeq
<1>2. ToSet(s) \subseteq {Head(s)} \cup ToSet(Tail(s))
  <2> SUFFICES ASSUME NEW i \in 1..Len(s), i # 1 PROVE s[i] \in ToSet(Tail(s))
    BY <1>1 DEF ToSet
  <2>1. i - 1 \in 1..(Len(s) - 1) /\ Tail(s)[i - 1] = s[i]
    BY <1>1
  <2> QED
    BY <1>1, <2>1 DEF ToSet
<1>3. Head(s) \in ToSet(s)
  BY <1>1 DEF ToSet
<1>4. ToSet(Tail(s)) \subseteq ToSet(s)
  <2> SUFFICES ASSUME NEW i \in 1..(Len(s) - 1) PROVE Tail(s)[i] \in ToSet(s)
    BY <1>1 DEF ToSet
  <2>1. i + 1 \in 1..Len(s) /\ Tail(s)[i] = s[i + 1]
    BY <1>1
  <2> QED
    BY <1>1, <2>1 DEF ToSet
<1> QED
  BY <1>2, <1>3, <1>4

\* Joining two texts.
LEMMA SetOfConcat ==
    ASSUME NEW S, NEW s \in Seq(S), NEW t \in Seq(S)
    PROVE  ToSet(s \o t) = ToSet(s) \cup ToSet(t)
<1>1. /\ DOMAIN (s \o t) = 1..(Len(s) + Len(t)) /\ DOMAIN s = 1..Len(s) /\ DOMAIN t = 1..Len(t)
      /\ Len(s) \in Nat /\ Len(t) \in Nat
      /\ \A i \in 1..(Len(s) + Len(t)) :
           (s \o t)[i] = IF i <= Len(s) THEN s[i] ELSE t[i - Len(s)]
  BY ConcatProperties, LenProperties
<1>2. ToSet(s \o t) \subseteq ToSet(s) \cup ToSet(t)
  <2> SUFFICES ASSUME NEW i \in 1..(Len(s) + Len(t)) PROVE (s \o t)[i] \in ToSet(s) \cup ToSet(t)
    BY <1>1 DEF ToSet
  <2>1. CASE i <= Len(s)
    BY <1>1, <2>1 DEF ToSet
  <2>2. CASE ~(i <= Len(s))
    <3>1. i - Len(s) \in 1..Len(t) /\ (s \o t)[i] = t[i - Len(s)]
      BY <1>1, <2>2
    <3> QED
      BY <1>1, <3>1 DEF ToSet
  <2> QED
    BY <2>1, <2>2
<1>3. ToSet(s) \subseteq ToSet(s \o t)
  <2> SUFFICES ASSUME NEW i \in 1..Len(s) PROVE s[i] \in ToSet(s \o t)
    BY <1>1 DEF ToSet
  <2>1. i \in 1..(Len(s) + Len(t)) /\ (s \o t)[i] = s[i]
    BY <1>1
  <2> QED
    BY <1>1, <2>1 DEF ToSet
<1>4. ToSet(t) \subseteq ToSet(s \o t)
  <2> SUFFICES ASSUME NEW i \in 1..Len(t) PROVE t[i] \in ToSet(s \o t)
    BY <1>1 DEF ToSet
  <2>1. Len(s) + i \in 1..(Len(s) + Len(t)) /\ (s \o t)[Len(s) + i] = t[i]
    BY <1>1
  <2> QED
    BY <1>1, <2>1 DEF ToSet
<1> QED
  BY <1>2, <1>3, <1>4

\* The shortest texts.
LEMMA SetOfFew ==
    /\ ToSet(<<>>) = {}
    /\ \A e : ToSet(<<e>>) = {e}
BY DEF ToSet

\* The texts of a conversation with one more message, or without a blank last one.
LEMMA TextsOfAppend ==
    ASSUME NEW c \in Seq(Message), NEW m \in Message
    PROVE  InTexts(Append(c, m)) = InTexts(c) \cup ToSet(m.text)
<1>1. /\ DOMAIN Append(c, m) = 1..(Len(c) + 1) /\ DOMAIN c = 1..Len(c) /\ Len(c) \in Nat
      /\ \A i \in 1..Len(c) : Append(c, m)[i] = c[i]
      /\ Append(c, m)[Len(c) + 1] = m
  BY AppendProperties, LenProperties
<1>2. ASSUME NEW u \in InTexts(Append(c, m)) PROVE u \in InTexts(c) \cup ToSet(m.text)
  <2>1. PICK i \in 1..(Len(c) + 1) : u \in ToSet(Append(c, m)[i].text)
    BY <1>1 DEF InTexts
  <2>2. i \in 1..Len(c) \/ i = Len(c) + 1
    BY <1>1
  <2> QED
    BY <1>1, <2>1, <2>2 DEF InTexts
<1>3. ASSUME NEW u \in InTexts(c) PROVE u \in InTexts(Append(c, m))
  <2>1. PICK i \in 1..Len(c) : u \in ToSet(c[i].text)
    BY <1>1 DEF InTexts
  <2>2. i \in 1..(Len(c) + 1) /\ Append(c, m)[i] = c[i]
    BY <1>1
  <2> QED
    BY <1>1, <2>1, <2>2 DEF InTexts
<1>4. ASSUME NEW u \in ToSet(m.text) PROVE u \in InTexts(Append(c, m))
  <2>1. Len(c) + 1 \in 1..(Len(c) + 1)
    BY <1>1
  <2> QED
    BY <1>1, <2>1 DEF InTexts
<1> QED
  BY <1>2, <1>3, <1>4

\* Assistant messages hold no utterance.
Blank(c) == \A i \in DOMAIN c : c[i].role = "assistant" => c[i].text = <<>>

\* A blank last message takes no text with it.
LEMMA TextsOfFront ==
    ASSUME NEW c \in Seq(Message), c # <<>>, Last(c).role = "assistant", Blank(c)
    PROVE  InTexts(Front(c)) = InTexts(c) /\ Blank(Front(c))
<1>1. /\ DOMAIN c = 1..Len(c) /\ Len(c) \in Nat \ {0} /\ Front(c) \in Seq(Message)
      /\ Len(Front(c)) = Len(c) - 1
      /\ \A i \in 1..(Len(c) - 1) : Front(c)[i] = c[i]
  <2>1. DOMAIN c = 1..Len(c) /\ Len(c) \in Nat \ {0}
    BY LenProperties, EmptySeq
  <2>2. \A i \in 1..(Len(c) - 1) : c[i] \in Message
    BY <2>1, ElementOfSeq
  <2>3. /\ Len(SubSeq(c, 1, Len(c) - 1)) = IF 1 <= Len(c) - 1 THEN Len(c) - 1 - 1 + 1 ELSE 0
        /\ \A i \in 1..(Len(c) - 1 - 1 + 1) : SubSeq(c, 1, Len(c) - 1)[i] = c[1 + i - 1]
    BY <2>1, <2>2, SubSeqProperties
  <2> QED
    BY <2>1, <2>3, FrontType DEF Front
<1>2. DOMAIN Front(c) = 1..(Len(c) - 1)
  BY <1>1, LenProperties
<1>3. c[Len(c)].text = <<>>
  BY <1>1 DEF Last, Blank
<1>4. ASSUME NEW u \in InTexts(c) PROVE u \in InTexts(Front(c))
  <2>1. PICK i \in 1..Len(c) : u \in ToSet(c[i].text)
    BY <1>1 DEF InTexts
  <2>2. i # Len(c)
    BY <1>3, <2>1, SetOfFew
  <2>3. i \in 1..(Len(c) - 1)
    <3>1. Len(c) \in Nat
      BY <1>1
    <3> QED
      BY <2>2, <3>1
  <2> QED
    BY <1>1, <1>2, <2>1, <2>3 DEF InTexts
<1>5. ASSUME NEW u \in InTexts(Front(c)) PROVE u \in InTexts(c)
  <2>1. PICK i \in 1..(Len(c) - 1) : u \in ToSet(Front(c)[i].text)
    BY <1>2 DEF InTexts
  <2>2. i \in 1..Len(c)
    BY <1>1
  <2> QED
    BY <1>1, <2>1, <2>2 DEF InTexts
<1>6. Blank(Front(c))
  BY <1>1, <1>2 DEF Blank
<1> QED
  BY <1>4, <1>5, <1>6

\* A conversation keeps its texts when a message is appended.
LEMMA GrowByOne ==
    ASSUME NEW c \in Seq(Message), Blank(c), NEW m \in Message,
           m.role = "assistant" => m.text = <<>>
    PROVE  /\ Append(c, m) \in Seq(Message) /\ Blank(Append(c, m))
           /\ InTexts(c) \subseteq InTexts(Append(c, m))
<1>1. /\ DOMAIN Append(c, m) = 1..(Len(c) + 1) /\ DOMAIN c = 1..Len(c) /\ Len(c) \in Nat
      /\ \A i \in 1..Len(c) : Append(c, m)[i] = c[i]
      /\ Append(c, m)[Len(c) + 1] = m /\ Append(c, m) \in Seq(Message)
  BY AppendProperties, LenProperties
<1>2. \A i \in 1..(Len(c) + 1) : i \in 1..Len(c) \/ i = Len(c) + 1
  BY <1>1
<1>3. Blank(Append(c, m))
  BY <1>1, <1>2 DEF Blank
<1> QED
  BY <1>1, <1>3, TextsOfAppend


\* Before the opening is sent nothing has been received and no task has started.
OpeningInv ==
    pc["run"] = "opening" =>
        /\ received = {} /\ conversation = <<>> /\ transcript = <<>>
        /\ rxItem = Final /\ acc = <<>> /\ monText = <<>>
        /\ pc["consumer"] = "get" /\ pc["llm"] = "none"
        /\ pc["text"] = "get" /\ pc["monitor"] = "sleep" /\ pc["rx"] = "recv"

\* run() begins once: a step that is not the opening stays or goes on to the end.
LEMMA RunSteps ==
    ASSUME TypeOK, [Next]_vars
    PROVE  SendOpening \/ pc'["run"] \in {pc["run"], "finalize", "done", "crashed"}
<1> DEFINE Goal == pc'["run"] \in {pc["run"], "finalize", "done", "crashed"}
<1>0. ASSUME NEW pcs \in [Tasks -> TaskStates], pcs["run"] = pc["run"], EndRun(pcs) PROVE Goal
  BY <1>0 DEF EndRun, Tasks
<1>a. ASSUME NEW t \in {"text", "monitor"}, TopTaskFails(t) PROVE Goal
  <2>1. [pc EXCEPT ![t] = "dead"] \in [Tasks -> TaskStates] /\ [pc EXCEPT ![t] = "dead"]["run"] = pc["run"]
    BY DEF TypeOK, TaskStates, Tasks
  <2> QED
    BY <1>0, <1>a, <2>1 DEF TopTaskFails
<1>b. ASSUME ConsumerFails PROVE Goal
  <2> DEFINE pcs == [pc EXCEPT !["consumer"] = "dead", !["llm"] = "none",
                               !["reader"] = IF Alive("reader") THEN "dead" ELSE "done"]
  <2>1. pcs \in [Tasks -> TaskStates] /\ pcs["run"] = pc["run"]
    BY DEF TypeOK, TaskStates, Tasks
  <2>2. EndRun(pcs)
    BY <1>b DEF ConsumerFails
  <2> HIDE DEF pcs
  <2> QED
    BY <1>0, <2>1, <2>2
<1>c. ASSUME ReaderFails PROVE Goal
  <2> DEFINE pcs == [pc EXCEPT !["reader"] = "dead",
                       !["llm"] = IF @ = "none" THEN @ ELSE "cancel",
                       !["consumer"] = IF @ \in {"await", "rollback", "done"} THEN @ ELSE "dead"]
  <2>1. pcs \in [Tasks -> TaskStates] /\ pcs["run"] = pc["run"]
    BY DEF TypeOK, TaskStates, Tasks
  <2>2. EndRun(pcs)
    BY <1>c DEF ReaderFails
  <2> HIDE DEF pcs
  <2> QED
    BY <1>0, <2>1, <2>2
<1>p. pc \in [Tasks -> TaskStates]
  BY DEF TypeOK
<1>1. ASSUME ClientStep PROVE Goal
  BY <1>1, <1>p DEF ClientStep, RecvAudio, RecvText, RecvInterrupt, RecvEnd, ClientDisconnects,
     Tasks
<1>2. ASSUME RunStep, ~SendOpening PROVE Goal
  BY <1>2, <1>p DEF RunStep, OpeningFails, Finalize, Tasks
<1>3. ASSUME PutAudio PROVE Goal
  BY <1>3, <1>p DEF PutAudio, Tasks
<1>4. ASSUME ReaderStep PROVE Goal
  <2>1. ASSUME SttFinal \/ SttEnds PROVE Goal
    BY <2>1, <1>p DEF SttFinal, SttEnds, Tasks
  <2>2. ASSUME ReaderSendFails PROVE Goal
    BY <2>2, <1>c DEF ReaderSendFails
  <2> QED
    BY <1>4, <2>1, <2>2 DEF ReaderStep
<1>5. ASSUME ConsumerStep PROVE Goal
  <2>1. ASSUME FirstFinal \/ ConsumerEnds \/ CollectFinal \/ CommitTurn \/ LaunchTurn \/ BargeInRecovery
        PROVE  Goal
    BY <2>1, <1>p DEF FirstFinal, ConsumerEnds, CollectFinal, CommitTurn, LaunchTurn,
       BargeInRecovery, Tasks
  <2>2. ASSUME ConsumerSendFails PROVE Goal
    BY <2>2, <1>b DEF ConsumerSendFails
  <2> QED
    BY <1>5, <2>1, <2>2 DEF ConsumerStep
<1>6. ASSUME LlmStep PROVE Goal
  BY <1>6, <1>p DEF LlmStep, CancelDone, LlmWaited, LlmReplied, Tasks
<1>7. ASSUME TextStep PROVE Goal
  BY <1>7, <1>p DEF TextStep, TakeText, TextEnds, TextReplied, Tasks
<1>8. ASSUME MonitorStep PROVE Goal
  <2>1. ASSUME ForceRespond \/ ForceAppend \/ MonitorWaited \/ SoftPrompt PROVE Goal
    BY <2>1, <1>p DEF ForceRespond, ForceAppend, MonitorWaited, SoftPrompt, Tasks
  <2>2. ASSUME MonitorSendFails PROVE Goal
    BY <2>2, <1>a DEF MonitorSendFails
  <2> QED
    BY <1>8, <2>1, <2>2 DEF MonitorStep
<1>9. ASSUME CarryoverAges PROVE Goal
  BY <1>9 DEF CarryoverAges
<1>10. ASSUME NEW o \in Owners, Turn(o) PROVE Goal
  <2>1. ASSUME Acquire(o) \/ Speak(o) \/ Reply(o) PROVE Goal
    BY <2>1, <1>p DEF Acquire, Speak, Reply, AfterReply, Tasks, Owners
  <2>2. ASSUME NEW conv, AfterWait(o, conv) PROVE Goal
    BY <2>2, <1>p DEF AfterWait, Tasks, Owners
  <2>3. ASSUME TurnFails(o) PROVE Goal
    <3>1. (o = "llm" /\ ConsumerFails) \/ (o \in {"text", "monitor"} /\ TopTaskFails(o))
      BY <2>3 DEF TurnFails, Owners
    <3> QED
      BY <3>1, <1>a, <1>b
  <2> QED
    BY <1>10, <2>1, <2>2, <2>3 DEF Turn, WaitSignal, EmptyReply
<1>11. ASSUME UNCHANGED vars PROVE Goal
  BY <1>11 DEF vars
<1> QED
  BY <1>1, <1>2, <1>3, <1>4, <1>5, <1>6, <1>7, <1>8, <1>9, <1>10, <1>11 DEF Next

\* Nothing starts before the opening.
LEMMA NextOpening ==
    ASSUME TypeOK, OpeningInv, [Next]_vars
    PROVE  OpeningInv'
<1> SUFFICES ASSUME pc'["run"] = "opening" PROVE OpeningInv'
  BY DEF OpeningInv
<1>1. pc["run"] = "opening"
  <2>1. ~SendOpening
    BY DEF SendOpening, TypeOK, Tasks
  <2> QED
    BY <2>1, RunSteps
<1>2. ~Started
  BY <1>1 DEF Started
<1>3. /\ pc["consumer"] = "get" /\ pc["llm"] = "none"
      /\ pc["text"] = "get" /\ pc["monitor"] = "sleep" /\ pc["rx"] = "recv"
  BY <1>1 DEF OpeningInv
<1> DEFINE Still == UNCHANGED <<pc, received, conversation, transcript, rxItem, acc, monText>>
<1>4. CASE ClientStep
  BY <1>2, <1>4 DEF ClientStep, RecvAudio, RecvText, RecvInterrupt, RecvEnd, ClientDisconnects,
     CanReceive,
                    OpeningInv, queues, locals, db
<1>5. CASE RunStep
  BY <1>1, <1>5 DEF RunStep, SendOpening, OpeningFails, Finalize, TypeOK, Tasks
<1>6. CASE PutAudio \/ ReaderStep \/ LlmStep
  BY <1>2, <1>3, <1>6 DEF PutAudio, ReaderStep, SttFinal, SttEnds, ReaderSendFails, LlmStep,
     CancelDone,
                          LlmWaited, LlmReplied
<1>7. CASE ConsumerStep
  BY <1>2, <1>3, <1>7 DEF ConsumerStep, FirstFinal, ConsumerEnds, CollectFinal, CommitTurn,
     LaunchTurn,
                          BargeInRecovery, ConsumerSendFails
<1>8. CASE TextStep \/ MonitorStep
  <2>1. CASE TextStep
    BY <1>2, <1>3, <2>1 DEF TextStep, TakeText, TextEnds, TextReplied
  <2>2. CASE MonitorStep
    BY <1>2, <1>3, <2>2 DEF MonitorStep, ForceRespond, ForceAppend, MonitorWaited, SoftPrompt,
       MonitorSendFails,
                            Polling
  <2> QED
    BY <1>8, <2>1, <2>2
<1>9. CASE CarryoverAges
  BY <1>9 DEF CarryoverAges, OpeningInv, queues, locals, db, client
<1>10. ASSUME NEW o \in Owners, Turn(o) PROVE FALSE
  BY <1>3, <1>10 DEF Turn, Acquire, Speak, Reply, WaitSignal, EmptyReply, TurnFails, InTurn, Owners
<1>11. CASE UNCHANGED vars
  BY <1>11 DEF vars, OpeningInv, queues, locals, db, client
<1> QED
  BY <1>4, <1>5, <1>6, <1>7, <1>8, <1>9, <1>10, <1>11 DEF Next

\* Six places write _conversation.
LEMMA ConversationWriters ==
    ASSUME [Next]_vars
    PROVE  \/ conversation' = conversation
           \/ SendOpening \/ TakeText \/ ForceAppend \/ LaunchTurn \/ BargeInRecovery
           \/ \E o \in Owners : Reply(o) \/ WaitSignal(o) \/ EmptyReply(o)
<1>1. CASE ClientStep
  BY <1>1 DEF ClientStep, RecvAudio, RecvText, RecvInterrupt, RecvEnd, ClientDisconnects
<1>2. CASE RunStep
  BY <1>2 DEF RunStep, OpeningFails, Finalize
<1>3. CASE PutAudio
  BY <1>3 DEF PutAudio
<1>4. CASE ReaderStep
  BY <1>4 DEF ReaderStep, SttFinal, SttEnds, ReaderSendFails
<1>5. CASE ConsumerStep
  BY <1>5 DEF ConsumerStep, FirstFinal, ConsumerEnds, CollectFinal, CommitTurn, ConsumerSendFails
<1>6. CASE LlmStep
  BY <1>6 DEF LlmStep, CancelDone, LlmWaited, LlmReplied
<1>7. CASE TextStep
  BY <1>7 DEF TextStep, TextEnds, TextReplied
<1>8. CASE MonitorStep
  BY <1>8 DEF MonitorStep, ForceRespond, MonitorWaited, SoftPrompt, MonitorSendFails
<1>9. CASE CarryoverAges
  BY <1>9 DEF CarryoverAges
<1>10. ASSUME NEW o \in Owners, Turn(o)
      PROVE  conversation' = conversation \/ Reply(o) \/ WaitSignal(o) \/ EmptyReply(o)
  BY <1>10 DEF Turn, Acquire, Speak, TurnFails
<1>11. CASE UNCHANGED vars
  BY <1>11 DEF vars
<1> QED
  BY <1>1, <1>2, <1>3, <1>4, <1>5, <1>6, <1>7, <1>8, <1>9, <1>10, <1>11 DEF Next

\* What the pipeline appends.
LEMMA Appended ==
    /\ Assistant \in Message /\ Assistant.text = <<>> /\ ForceNote \in Message /\ ForceNote.role # "assistant"
    /\ \A text \in Seq(Utt) : User(text) \in Message /\ User(text).role # "assistant" /\ User(text).text = text
BY MessageTypes DEF Assistant, ForceNote, User

\* Without [WAIT], no step takes a text out of the conversation: the barge-in
\* and the forced typed turn remove blank messages only.
LEMMA ConversationGrows ==
    ASSUME "wait" \notin Outcomes, TypeOK, OpeningInv, Blank(conversation), [Next]_vars
    PROVE  Blank(conversation') /\ InTexts(conversation) \subseteq InTexts(conversation')
<1> DEFINE Goal == Blank(conversation') /\ InTexts(conversation) \subseteq InTexts(conversation')
<1>0. conversation \in Seq(Message)
  BY DEF TypeOK
<1>1. CASE conversation' = conversation
  BY <1>1
<1>2. CASE SendOpening
  <2>1. conversation = <<>> /\ conversation' = <<Assistant>>
    BY <1>2 DEF SendOpening, OpeningInv
  <2>2. Blank(<<Assistant>>)
    BY Appended DEF Blank
  <2>3. InTexts(<<>>) = {}
    BY DEF InTexts
  <2> QED
    BY <2>1, <2>2, <2>3
<1>3. ASSUME NEW text \in Seq(Utt), conversation' = Append(conversation, User(text)) PROVE Goal
  BY <1>0, <1>3, Appended, GrowByOne
<1>4. CASE TakeText
  <2>1. Head(text_in) \in Utt
    BY <1>4, QueueTypes, ItemTypes DEF TakeText, TypeOK
  <2>2. Append(carry, Head(text_in)) \in Seq(Utt)
    BY <2>1, QueueTypes DEF TypeOK
  <2> QED
    BY <1>3, <1>4, <2>2 DEF TakeText
<1>5. CASE ForceAppend
  BY <1>3, <1>5 DEF ForceAppend, TypeOK
<1>6. CASE LaunchTurn
  BY <1>3, <1>6 DEF LaunchTurn, TypeOK
<1>7. CASE BargeInRecovery
  <2>1. conversation' = PopIf("assistant")
    BY <1>7 DEF BargeInRecovery
  <2> QED
    BY <1>0, <2>1, TextsOfFront DEF PopIf, EndsWith
<1>8. CASE conversation' = Append(conversation, Assistant)
  BY <1>0, <1>8, Appended, GrowByOne
<1>9. ASSUME NEW o \in Owners, Reply(o) PROVE Goal
  BY <1>8, <1>9 DEF Reply, AfterReply
<1>10. ASSUME NEW o \in Owners, WaitSignal(o) PROVE FALSE
  BY <1>10 DEF WaitSignal
<1>11. ASSUME NEW o \in Owners, EmptyReply(o) PROVE Goal
  <2> DEFINE conv == Append(conversation, Assistant)
  <2>1. AfterWait(o, conv)
    BY <1>11 DEF EmptyReply
  <2>2. /\ conv \in Seq(Message) /\ Blank(conv) /\ InTexts(conversation) \subseteq InTexts(conv)
        /\ Last(conv) = Assistant
    <3>1. Len(conversation) \in Nat /\ Len(conv) = Len(conversation) + 1 /\ conv[Len(conversation) + 1] = Assistant
      BY <1>0, Appended, AppendProperties, LenProperties
    <3> QED
      BY <1>0, <3>1, Appended, GrowByOne DEF Last
  <2> HIDE DEF conv
  <2>3. Assistant.role # "user"
    BY DEF Assistant
  <2>4. conversation' = conv \/ conversation' = Append(conv, ForceNote)
    BY <2>1, <2>2, <2>3 DEF AfterWait
  <2>5. CASE conversation' = conv
    BY <2>2, <2>5
  <2>6. CASE conversation' = Append(conv, ForceNote)
    <3>1. Blank(Append(conv, ForceNote)) /\ InTexts(conv) \subseteq InTexts(Append(conv, ForceNote))
      BY <2>2, Appended, GrowByOne
    <3> QED
      BY <2>2, <2>6, <3>1
  <2> QED
    BY <2>4, <2>5, <2>6
<1> QED
  BY <1>1, <1>2, <1>4, <1>5, <1>6, <1>7, <1>9, <1>10, <1>11, ConversationWriters

\* The stored transcript is an earlier conversation.
TalkInv == OpeningInv /\ Blank(conversation) /\ InTexts(transcript) \subseteq InTexts(conversation)

\* Every save stores the conversation as it is.
LEMMA TranscriptWriters ==
    ASSUME [Next]_vars
    PROVE  transcript' = transcript \/ (transcript' = conversation /\ conversation' = conversation)
<1>1. CASE ClientStep
  BY <1>1 DEF ClientStep, RecvAudio, RecvText, RecvInterrupt, RecvEnd, ClientDisconnects, db
<1>2. CASE RunStep
  BY <1>2 DEF RunStep, SendOpening, OpeningFails, Finalize, db
<1>3. CASE PutAudio
  BY <1>3 DEF PutAudio, db
<1>4. CASE ReaderStep
  BY <1>4 DEF ReaderStep, SttFinal, SttEnds, ReaderSendFails, db
<1>5. CASE ConsumerStep
  BY <1>5 DEF ConsumerStep, FirstFinal, ConsumerEnds, CollectFinal, CommitTurn, LaunchTurn,
     BargeInRecovery,
              ConsumerSendFails, db
<1>6. CASE LlmStep
  BY <1>6 DEF LlmStep, CancelDone, LlmWaited, LlmReplied, SaveTurn, db
<1>7. CASE TextStep
  BY <1>7 DEF TextStep, TakeText, TextEnds, TextReplied, SaveTurn, db
<1>8. CASE MonitorStep
  BY <1>8 DEF MonitorStep, ForceRespond, ForceAppend, MonitorWaited, SoftPrompt, MonitorSendFails,
     db
<1>9. CASE CarryoverAges
  BY <1>9 DEF CarryoverAges, db
<1>10. ASSUME NEW o \in Owners, Turn(o)
      PROVE  transcript' = transcript \/ (transcript' = conversation /\ conversation' = conversation)
  BY <1>10 DEF Turn, Acquire, Speak, Reply, WaitSignal, EmptyReply, TurnFails, SaveTurn, db
<1>11. CASE UNCHANGED vars
  BY <1>11 DEF vars, db
<1> QED
  BY <1>1, <1>2, <1>3, <1>4, <1>5, <1>6, <1>7, <1>8, <1>9, <1>10, <1>11 DEF Next

\* Every step keeps TalkInv and the stored answers.
LEMMA NextTalk ==
    ASSUME "wait" \notin Outcomes, TypeOK, TalkInv, [Next]_vars
    PROVE  TalkInv' /\ InTexts(transcript) \subseteq InTexts(transcript')
<1>1. OpeningInv'
  BY NextOpening DEF TalkInv
<1>2. Blank(conversation') /\ InTexts(conversation) \subseteq InTexts(conversation')
  BY ConversationGrows DEF TalkInv
<1>3. CASE transcript' = transcript
  BY <1>1, <1>2, <1>3 DEF TalkInv
<1>4. CASE transcript' = conversation /\ conversation' = conversation
  BY <1>1, <1>2, <1>4 DEF TalkInv
<1> QED
  BY <1>3, <1>4, TranscriptWriters

\* The initial state satisfies it.
LEMMA InitTalk == Init => TalkInv
<1> SUFFICES ASSUME Init PROVE TalkInv
  OBVIOUS
<1>1. OpeningInv
  BY DEF Init, OpeningInv, Tasks
<1>2. conversation = <<>> /\ transcript = <<>>
  BY DEF Init
<1>3. Blank(<<>>)
  BY DEF Blank
<1> QED
  BY <1>1, <1>2, <1>3 DEF TalkInv

\* The transcript that three loops and the end of run() save never loses an
\* answer it held, whatever is interrupted, cancelled or failing between two
\* saves, for any number of answers; [WAIT], which takes an answer back, is left out.
THEOREM AnswersStay ==
    ASSUME "wait" \notin Outcomes
    PROVE  Spec => TranscriptKeepsAnswers
<1>1. TypeOK /\ TalkInv /\ [Next]_vars => TalkInv' /\ [InTexts(transcript) \subseteq InTexts(transcript')]_vars
  BY NextTalk
<1> QED
  BY TypeCorrect, InitTalk, <1>1, PTL DEF Spec, TranscriptKeepsAnswers


-----------------------------------------------------------------------------
(* Nothing that was received is lost *)

\* Every utterance is somewhere, and a place is left only when it is empty or
\* what it holds is somewhere else too: while the consumer commits, awaits or
\* rolls back a turn a carryover can only be part of that turn, and once the
\* turn is launched its text is in the conversation.
Held ==
    /\ received \subseteq Located
    /\ \A u \in received : u.kind # "low"
    /\ pc["rx"] = "recv" => rxItem = Final
    /\ pc["consumer"] = "get" => acc = <<>>
    /\ pc["monitor"] # "send" => monText = <<>>
    /\ pc["consumer"] \in {"commit", "await", "rollback"} => ToSet(carry) \subseteq ToSet(acc)
    /\ pc["consumer"] \in {"await", "rollback"} => ToSet(acc) \subseteq InTexts(conversation)

\* The end of a queue is not an utterance.
LEMMA NotFinal ==
    ASSUME TypeOK, Held
    PROVE  Final \notin received /\ \A u \in received : u # Final /\ u.kind # "low"
<1>1. Final \notin Utt
  BY DEF Final, Utt
<1> QED
  BY <1>1 DEF TypeOK, Held

\* Steps that move no text, and take no task into or out of a state that Held names.
LEMMA QuietStep ==
    ASSUME Held,
           UNCHANGED <<received, rxItem, audio_in, text_in, final_queue, acc, carry, monText>>,
           InTexts(conversation) \subseteq InTexts(conversation'),
           pc'["rx"] = pc["rx"],
           \/ pc'["consumer"] = pc["consumer"]
           \/ pc["consumer"] = "await" /\ pc'["consumer"] = "rollback",
           pc'["monitor"] = pc["monitor"] \/ pc["monitor"] # "send"
    PROVE  Held'
BY DEF Held, Located

\* Receiving: from the socket through rxItem to the queue, or straight to text_in.
LEMMA ClientHeld ==
    ASSUME TypeOK, Held, ClientStep \/ PutAudio
    PROVE  Held'
<1>p. pc \in [Tasks -> TaskStates]
  BY DEF TypeOK
<1>1. ASSUME NEW kind \in VoiceKinds, RecvAudio(kind) PROVE Held'
  <2> DEFINE u == [id |-> NewId, kind |-> kind]
  <2>1. rxItem' = u /\ received' = IF kind = "low" THEN received ELSE received \cup {u}
    BY <1>1 DEF RecvAudio
  <2>2. rxItem = Final
    BY <1>1 DEF RecvAudio, CanReceive, Held
  <2>3. /\ pc'["rx"] = "put" /\ pc'["consumer"] = pc["consumer"] /\ pc'["monitor"] = pc["monitor"]
        /\ UNCHANGED <<audio_in, text_in, final_queue, conversation, carry, acc, monText>>
    BY <1>1, <1>p DEF RecvAudio, carryVars, locals, Tasks
  <2>4. u.kind = kind
    OBVIOUS
  <2> HIDE DEF u
  <2> QED
    BY <2>1, <2>2, <2>3, <2>4, NotFinal DEF Held, Located
<1>2. ASSUME RecvText PROVE Held'
  <2> DEFINE u == [id |-> NewId, kind |-> "typed"]
  <2>1. text_in' = Append(text_in, u) /\ received' = received \cup {u}
    BY <1>2 DEF RecvText
  <2>2. u \in Item /\ text_in \in Seq(Item)
    BY SentTypes, ItemTypes DEF TypeOK, Utt, NewId
  <2>3. UNCHANGED <<pc, rxItem, audio_in, final_queue, conversation, carry, acc, monText>>
    BY <1>2 DEF RecvText, carryVars, locals
  <2>4. u.kind # "low"
    OBVIOUS
  <2> HIDE DEF u
  <2>5. ToSet(text_in') = ToSet(text_in) \cup {u}
    BY <2>1, <2>2, SetOfAppend
  <2> QED
    BY <2>1, <2>3, <2>4, <2>5 DEF Held, Located
<1>3. ASSUME RecvInterrupt \/ ClientDisconnects PROVE Held'
  BY <1>3, QuietStep DEF RecvInterrupt, ClientDisconnects, queues, carryVars, locals
<1>4. ASSUME RecvEnd PROVE Held'
  <2>1. rxItem' = rxItem
    BY <1>4 DEF RecvEnd, Held
  <2>2. /\ pc'["rx"] = "put" /\ pc'["consumer"] = pc["consumer"] /\ pc'["monitor"] = pc["monitor"]
        /\ UNCHANGED <<received, audio_in, text_in, final_queue, conversation, carry, acc, monText>>
    BY <1>4, <1>p DEF RecvEnd, carryVars, locals, client, Tasks
  <2> QED
    BY <2>1, <2>2 DEF Held, Located
<1>5. ASSUME PutAudio PROVE Held'
  <2>1. audio_in \in Seq(Item) /\ text_in \in Seq(Item) /\ rxItem \in Item
    BY DEF TypeOK
  <2>2. ToSet(audio_in') = ToSet(audio_in) \cup {rxItem}
    BY <1>5, <2>1, SetOfAppend DEF PutAudio
  <2>3. ToSet(text_in) \subseteq ToSet(text_in')
    BY <1>5, <2>1, SetOfAppend, ItemTypes DEF PutAudio
  <2>4. /\ rxItem' = Final /\ pc'["consumer"] = pc["consumer"] /\ pc'["monitor"] = pc["monitor"]
        /\ UNCHANGED <<received, final_queue, conversation, carry, acc, monText>>
    BY <1>5, <1>p DEF PutAudio, carryVars, locals, client, Tasks
  <2> QED
    BY <2>2, <2>3, <2>4 DEF Held, Located
<1> QED
  BY <1>1, <1>2, <1>3, <1>4, <1>5 DEF ClientStep

\* A task that fails ends run().
LEMMA FailureEnds ==
    ASSUME TypeOK, [Next]_vars, pc'["run"] = "run"
    PROVE  /\ ~ReaderSendFails /\ ~ConsumerSendFails /\ ~MonitorSendFails
           /\ \A o \in Owners : ~TurnFails(o)
<1>p. pc \in [Tasks -> TaskStates]
  BY DEF TypeOK
<1>1. ASSUME NEW pcs, EndRun(pcs) PROVE FALSE
  BY <1>1 DEF EndRun, Tasks
<1>2. ~ReaderFails /\ ~ConsumerFails /\ \A t \in Tasks : ~TopTaskFails(t)
  BY <1>1 DEF ReaderFails, ConsumerFails, TopTaskFails
<1> QED
  BY <1>2 DEF ReaderSendFails, ConsumerSendFails, MonitorSendFails, TurnFails, Tasks, Owners

\* Speech to text: from audio_in to final_queue; only the None of a queue is dropped.
LEMMA ReaderHeld ==
    ASSUME TypeOK, Held, SttFinal \/ SttEnds
    PROVE  Held'
<1>p. pc \in [Tasks -> TaskStates]
  BY DEF TypeOK
<1>t. audio_in \in Seq(Item) /\ final_queue \in Seq(Item)
  BY DEF TypeOK
<1>1. ASSUME SttFinal PROVE Held'
  <2>1. ToSet(audio_in) = {Head(audio_in)} \cup ToSet(audio_in')
    BY <1>1, <1>t, SetOfTail DEF SttFinal
  <2>2. ToSet(final_queue') = ToSet(final_queue) \cup {Head(audio_in)}
    <3>1. Head(audio_in) \in Item
      BY <1>1, <1>t, QueueTypes DEF SttFinal
    <3> QED
      BY <1>1, <1>t, <3>1, SetOfAppend DEF SttFinal
  <2>3. UNCHANGED <<received, rxItem, text_in, conversation, carry, acc, monText>>
    BY <1>1 DEF SttFinal, carryVars, locals, client
  <2>4. pc'["rx"] = pc["rx"] /\ pc'["consumer"] = pc["consumer"] /\ pc'["monitor"] = pc["monitor"]
    BY <1>1, <1>p DEF SttFinal, Tasks
  <2> QED
    BY <2>1, <2>2, <2>3, <2>4 DEF Held, Located
<1>2. ASSUME SttEnds PROVE Held'
  <2>1. ToSet(audio_in) \subseteq {Final} \cup ToSet(audio_in')
    BY <1>2, <1>t, SetOfTail DEF SttEnds
  <2>2. ToSet(final_queue) \subseteq ToSet(final_queue')
    BY <1>2, <1>t, SetOfAppend, ItemTypes DEF SttEnds
  <2>3. UNCHANGED <<received, rxItem, text_in, conversation, carry, acc, monText>>
    BY <1>2 DEF SttEnds, carryVars, locals, client
  <2>4. pc'["rx"] = pc["rx"] /\ pc'["consumer"] = pc["consumer"] /\ pc'["monitor"] = pc["monitor"]
    BY <1>2, <1>p DEF SttEnds, Tasks
  <2> QED
    BY <2>1, <2>2, <2>3, <2>4, NotFinal DEF Held, Located
<1> QED
  BY <1>1, <1>2

\* The consumer: from final_queue to acc, to the carryover or the conversation, and back to the
\* carryover after a barge-in.
LEMMA ConsumerHeld ==
    ASSUME TypeOK, Held, InTexts(conversation) \subseteq InTexts(conversation'),
           \/ FirstFinal \/ ConsumerEnds \/ CollectFinal \/ CommitTurn
           \/ LaunchTurn \/ BargeInRecovery
    PROVE  Held'
<1>p. pc \in [Tasks -> TaskStates]
  BY DEF TypeOK
<1>t. /\ final_queue \in Seq(Item) /\ acc \in Seq(Utt) /\ carry \in Seq(Utt)
      /\ conversation \in Seq(Message)
  BY DEF TypeOK
<1>h. ASSUME final_queue # <<>>, NextFinal # Final
      PROVE  NextFinal \in Utt /\ ToSet(final_queue) = {NextFinal} \cup ToSet(Tail(final_queue))
  BY <1>h, <1>t, QueueTypes, ItemTypes, SetOfTail DEF NextFinal
<1>1. ASSUME FirstFinal PROVE Held'
  <2>1. ToSet(final_queue) = {NextFinal} \cup ToSet(final_queue') /\ acc = <<>>
    BY <1>1, <1>h DEF FirstFinal, Held
  <2>2. /\ UNCHANGED <<received, rxItem, audio_in, text_in, conversation, carry, monText>>
        /\ pc'["rx"] = pc["rx"] /\ pc'["monitor"] = pc["monitor"]
    BY <1>1, <1>p DEF FirstFinal, carryVars, client, Tasks
  <2>3. CASE NextFinal.kind = "low"
    <3>1. UNCHANGED <<pc, acc>>
      BY <1>1, <2>3 DEF FirstFinal
    <3> QED
      BY <2>1, <2>2, <2>3, <3>1, NotFinal DEF Held, Located
  <2>4. CASE NextFinal.kind # "low"
    <3>1. acc' = <<NextFinal>> /\ pc'["consumer"] = "collect"
      BY <1>1, <1>p, <2>4 DEF FirstFinal, Tasks
    <3>2. ToSet(acc') = {NextFinal}
      BY <3>1, SetOfFew
    <3> QED
      BY <2>1, <2>2, <3>1, <3>2, SetOfFew DEF Held, Located
  <2> QED
    BY <2>3, <2>4
<1>2. ASSUME ConsumerEnds PROVE Held'
  <2>1. ToSet(final_queue) = {Final} \cup ToSet(final_queue')
    BY <1>2, <1>t, SetOfTail DEF ConsumerEnds, NextFinal
  <2>2. /\ UNCHANGED <<received, rxItem, audio_in, text_in, conversation, carry, acc, monText>>
        /\ pc'["rx"] = pc["rx"] /\ pc'["monitor"] = pc["monitor"] /\ pc'["consumer"] = "done"
    BY <1>2, <1>p DEF ConsumerEnds, carryVars, locals, client, Tasks
  <2> QED
    BY <2>1, <2>2, NotFinal DEF Held, Located
<1>3. ASSUME CollectFinal PROVE Held'
  <2>1. ToSet(final_queue) = {NextFinal} \cup ToSet(final_queue') /\ NextFinal \in Utt
    BY <1>3, <1>h DEF CollectFinal
  <2>2. /\ UNCHANGED <<pc, received, rxItem, audio_in, text_in, conversation, carry, monText>>
        /\ pc["consumer"] = "collect"
    BY <1>3 DEF CollectFinal, carryVars, client
  <2>3. CASE NextFinal.kind = "low"
    <3>1. acc' = acc
      BY <1>3, <2>3 DEF CollectFinal
    <3> QED
      BY <2>1, <2>2, <2>3, <3>1, NotFinal DEF Held, Located
  <2>4. CASE NextFinal.kind # "low"
    <3>1. ToSet(acc') = ToSet(acc) \cup {NextFinal}
      BY <1>3, <1>t, <2>1, <2>4, SetOfAppend DEF CollectFinal
    <3> QED
      BY <2>1, <2>2, <3>1 DEF Held, Located
  <2> QED
    BY <2>3, <2>4
<1>4. ASSUME CommitTurn PROVE Held'
  <2>1. ToSet(final_queue) \subseteq {Final} \cup ToSet(final_queue')
    BY <1>4, <1>t, SetOfTail DEF CommitTurn, NextFinal
  <2>2. /\ UNCHANGED <<received, rxItem, audio_in, text_in, conversation, monText>>
        /\ pc'["rx"] = pc["rx"] /\ pc'["monitor"] = pc["monitor"]
    BY <1>4, <1>p DEF CommitTurn, client, Tasks
  <2>3. ToSet(carry \o acc) = ToSet(carry) \cup ToSet(acc)
    BY <1>t, SetOfConcat
  <2>4. \/ carry' = carry \o acc /\ acc' = <<>> /\ pc'["consumer"] = "get"
        \/ carry' = <<>> /\ acc' = carry \o acc /\ pc'["consumer"] = "commit"
    BY <1>4, <1>p DEF CommitTurn, Tasks
  <2>5. ToSet(carry') \cup ToSet(acc') = ToSet(carry) \cup ToSet(acc)
    BY <2>3, <2>4, SetOfFew
  <2>6. /\ pc'["consumer"] = "get" => acc' = <<>>
        /\ pc'["consumer"] = "commit" => ToSet(carry') \subseteq ToSet(acc')
        /\ pc'["consumer"] \in {"get", "commit"}
    BY <2>4, SetOfFew
  <2>7. received' \subseteq Located'
    BY <2>1, <2>2, <2>5, NotFinal DEF Held, Located
  <2> QED
    BY <2>2, <2>6, <2>7 DEF Held
<1>5. ASSUME LaunchTurn PROVE Held'
  <2>1. /\ UNCHANGED <<received, rxItem, audio_in, text_in, final_queue, carry, acc, monText>>
        /\ pc'["rx"] = pc["rx"] /\ pc'["monitor"] = pc["monitor"]
        /\ pc["consumer"] = "commit" /\ pc'["consumer"] = "await"
    BY <1>5, <1>p DEF LaunchTurn, queues, carryVars, locals, client, Tasks
  <2>2. InTexts(conversation') = InTexts(conversation) \cup ToSet(acc)
    BY <1>5, <1>t, Appended, TextsOfAppend DEF LaunchTurn
  <2> QED
    BY <2>1, <2>2 DEF Held, Located
<1>6. ASSUME BargeInRecovery PROVE Held'
  <2>1. /\ UNCHANGED <<received, rxItem, audio_in, text_in, final_queue, monText>>
        /\ pc'["rx"] = pc["rx"] /\ pc'["monitor"] = pc["monitor"]
        /\ pc["consumer"] = "rollback" /\ pc'["consumer"] = "get"
        /\ carry' = acc /\ acc' = <<>>
    BY <1>6, <1>p DEF BargeInRecovery, queues, client, Tasks
  <2>2. ToSet(carry) \subseteq ToSet(carry')
    BY <2>1 DEF Held
  <2> QED
    BY <2>1, <2>2 DEF Held, Located
<1> QED
  BY <1>1, <1>2, <1>3, <1>4, <1>5, <1>6

\* acc is emptied when the text it holds is in the conversation.
LEMMA LlmHeld ==
    ASSUME TypeOK, ConsumerAwaitsTask, Held, LlmStep
    PROVE  Held'
<1>p. pc \in [Tasks -> TaskStates]
  BY DEF TypeOK
<1>1. ASSUME CancelDone PROVE Held'
  <2>1. /\ pc["consumer"] = "await" /\ pc'["consumer"] = "rollback"
        /\ pc'["rx"] = pc["rx"] /\ pc'["monitor"] = pc["monitor"]
    BY <1>1, <1>p DEF CancelDone, ConsumerAwaitsTask, Tasks
  <2> QED
    BY <1>1, <2>1, QuietStep DEF CancelDone, queues, carryVars, locals, client
<1>2. ASSUME LlmWaited \/ LlmReplied PROVE Held'
  <2>1. /\ pc["consumer"] = "await" /\ pc'["consumer"] = "get"
        /\ pc'["rx"] = pc["rx"] /\ pc'["monitor"] = pc["monitor"]
    BY <1>2, <1>p DEF LlmWaited, LlmReplied, ConsumerAwaitsTask, Tasks
  <2>2. /\ UNCHANGED <<received, rxItem, audio_in, text_in, final_queue, conversation, carry,
                      monText>>
        /\ acc' = <<>>
    BY <1>2 DEF LlmWaited, LlmReplied, queues, carryVars, client
  <2>3. ToSet(acc) \subseteq InTexts(conversation')
    BY <2>1, <2>2 DEF Held
  <2> QED
    BY <2>1, <2>2, <2>3 DEF Held, Located
<1> QED
  BY <1>1, <1>2 DEF LlmStep

\* A typed message takes the carryover with it into the conversation.
LEMMA TextHeld ==
    ASSUME TypeOK, Held, TextStep
    PROVE  Held'
<1>p. pc \in [Tasks -> TaskStates]
  BY DEF TypeOK
<1>t. text_in \in Seq(Item) /\ carry \in Seq(Utt) /\ conversation \in Seq(Message)
  BY DEF TypeOK
<1>1. ASSUME TakeText PROVE Held'
  <2> DEFINE text == Append(carry, Head(text_in))
  <2>1. Head(text_in) \in Utt /\ ToSet(text_in) = {Head(text_in)} \cup ToSet(text_in')
    BY <1>1, <1>t, QueueTypes, ItemTypes, SetOfTail DEF TakeText
  <2>2. text \in Seq(Utt) /\ ToSet(text) = ToSet(carry) \cup {Head(text_in)}
    BY <1>t, <2>1, QueueTypes, SetOfAppend
  <2>3. conversation' = Append(conversation, User(text))
    BY <1>1 DEF TakeText
  <2> HIDE DEF text
  <2>4. InTexts(conversation') = InTexts(conversation) \cup ToSet(text)
    BY <1>t, <2>2, <2>3, Appended, TextsOfAppend
  <2>5. /\ UNCHANGED <<received, rxItem, audio_in, final_queue, acc, monText>>
        /\ pc'["rx"] = pc["rx"] /\ pc'["monitor"] = pc["monitor"] /\ pc'["consumer"] = pc["consumer"]
        /\ carry' = <<>>
    BY <1>1, <1>p DEF TakeText, locals, client, Tasks
  <2> QED
    BY <2>1, <2>2, <2>4, <2>5, SetOfFew DEF Held, Located
<1>2. ASSUME TextEnds PROVE Held'
  <2>1. ToSet(text_in) = {Final} \cup ToSet(text_in')
    BY <1>2, <1>t, SetOfTail DEF TextEnds
  <2>2. /\ UNCHANGED <<received, rxItem, audio_in, final_queue, conversation, carry, acc, monText>>
        /\ pc'["rx"] = pc["rx"] /\ pc'["monitor"] = pc["monitor"] /\ pc'["consumer"] = pc["consumer"]
    BY <1>2, <1>p DEF TextEnds, carryVars, locals, client, Tasks
  <2> QED
    BY <2>1, <2>2, NotFinal DEF Held, Located
<1>3. ASSUME TextReplied PROVE Held'
  <2>1. pc'["rx"] = pc["rx"] /\ pc'["monitor"] = pc["monitor"] /\ pc'["consumer"] = pc["consumer"]
    BY <1>3, <1>p DEF TextReplied, Tasks
  <2> QED
    BY <1>3, <2>1, QuietStep DEF TextReplied, queues, carryVars, client
<1> QED
  BY <1>1, <1>2, <1>3 DEF TextStep

\* A forced turn takes the carryover, through monText, into the conversation.
LEMMA MonitorHeld ==
    ASSUME TypeOK, Held, ForceRespond \/ ForceAppend \/ MonitorWaited \/ SoftPrompt \/ CarryoverAges
    PROVE  Held'
<1>p. pc \in [Tasks -> TaskStates]
  BY DEF TypeOK
<1>1. ASSUME ForceRespond PROVE Held'
  <2>1. /\ UNCHANGED <<received, rxItem, audio_in, text_in, final_queue, conversation, acc>>
        /\ pc'["rx"] = pc["rx"] /\ pc["monitor"] = "sleep" /\ pc'["monitor"] = "send"
        /\ pc'["consumer"] = pc["consumer"]
        /\ monText' = carry /\ carry' = <<>>
    BY <1>1, <1>p DEF ForceRespond, Polling, queues, client, Tasks
  <2>2. monText = <<>>
    BY <2>1 DEF Held
  <2> QED
    BY <2>1, <2>2, SetOfFew DEF Held, Located
<1>2. ASSUME ForceAppend PROVE Held'
  <2>1. /\ UNCHANGED <<received, rxItem, audio_in, text_in, final_queue, carry, acc>>
        /\ pc'["rx"] = pc["rx"] /\ pc'["monitor"] = "lock" /\ pc'["consumer"] = pc["consumer"]
        /\ monText' = <<>>
    BY <1>2, <1>p DEF ForceAppend, queues, carryVars, client, Tasks
  <2>2. monText \in Seq(Utt) /\ conversation \in Seq(Message)
    BY DEF TypeOK
  <2>3. InTexts(conversation') = InTexts(conversation) \cup ToSet(monText)
    BY <1>2, <2>2, Appended, TextsOfAppend DEF ForceAppend
  <2> QED
    BY <2>1, <2>3 DEF Held, Located
<1>3. ASSUME MonitorWaited \/ SoftPrompt \/ CarryoverAges PROVE Held'
  <2>1. /\ pc'["rx"] = pc["rx"] /\ pc'["consumer"] = pc["consumer"]
        /\ pc'["monitor"] = pc["monitor"] \/ pc["monitor"] # "send"
    BY <1>3, <1>p DEF MonitorWaited, SoftPrompt, CarryoverAges, Tasks
  <2> QED
    BY <1>3, <2>1, QuietStep DEF MonitorWaited, SoftPrompt, CarryoverAges, queues, carryVars,
       locals, client
<1> QED
  BY <1>1, <1>2, <1>3

\* A turn adds messages; an empty answer to a voice turn makes that turn's text the carryover.
LEMMA TurnHeld ==
    ASSUME "wait" \notin Outcomes, TypeOK, ConsumerAwaitsTask, Held,
           InTexts(conversation) \subseteq InTexts(conversation'),
           NEW o \in Owners, Turn(o), ~TurnFails(o)
    PROVE  Held'
<1>p. pc \in [Tasks -> TaskStates]
  BY DEF TypeOK
<1>1. ASSUME Acquire(o) \/ Speak(o) PROVE Held'
  <2>1. /\ pc'["rx"] = pc["rx"] /\ pc'["consumer"] = pc["consumer"]
        /\ pc'["monitor"] = pc["monitor"] \/ pc["monitor"] # "send"
    BY <1>1, <1>p DEF Acquire, Speak, Tasks, Owners
  <2> QED
    BY <1>1, <2>1, QuietStep DEF Acquire, Speak, queues, carryVars, locals, client
<1>2. ASSUME Reply(o) PROVE Held'
  <2>1. /\ pc'["rx"] = pc["rx"] /\ pc'["consumer"] = pc["consumer"]
        /\ pc'["monitor"] = pc["monitor"] \/ pc["monitor"] # "send"
    BY <1>2, <1>p DEF Reply, InTurn, AfterReply, Tasks, Owners
  <2> QED
    BY <1>2, <2>1, QuietStep DEF Reply, AfterReply, queues, client
<1>3. ASSUME EmptyReply(o) PROVE Held'
  <2>1. AfterWait(o, Append(conversation, Assistant)) /\ pc[o] = "gen"
    BY <1>3 DEF EmptyReply
  <2>2. UNCHANGED <<received, rxItem, audio_in, text_in, final_queue, acc, monText>>
    BY <1>3 DEF EmptyReply, queues, client
  <2>3. /\ pc'["rx"] = pc["rx"] /\ pc'["consumer"] = pc["consumer"]
        /\ pc'["monitor"] = pc["monitor"] \/ pc["monitor"] # "send"
    BY <1>p, <2>1 DEF AfterWait, Tasks, Owners
  <2>4. CASE o = "llm"
    <3>1. carry' = acc
      BY <2>1, <2>4 DEF AfterWait
    <3>2. pc["consumer"] = "await"
      BY <2>1, <2>4 DEF ConsumerAwaitsTask
    <3>3. ToSet(carry) \subseteq ToSet(carry')
      BY <3>1, <3>2 DEF Held
    <3> QED
      BY <2>2, <2>3, <3>1, <3>2, <3>3 DEF Held, Located
  <2>5. CASE o # "llm"
    <3>1. carry' = carry
      BY <2>1, <2>5 DEF AfterWait, carryVars
    <3> QED
      BY <2>2, <2>3, <3>1, QuietStep
  <2> QED
    BY <2>4, <2>5
<1>4. ~WaitSignal(o)
  BY DEF WaitSignal
<1> QED
  BY <1>1, <1>2, <1>3, <1>4 DEF Turn

\* While the session runs everything received is held somewhere.
HeldInv == pc["run"] = "run" => Held

\* Every step keeps everything held until run() ends.
LEMMA NextHeld ==
    ASSUME "wait" \notin Outcomes, IInv, TalkInv, HeldInv, [Next]_vars
    PROVE  HeldInv'
<1> SUFFICES ASSUME pc'["run"] = "run" PROVE Held'
  BY DEF HeldInv
<1>t. TypeOK /\ ConsumerAwaitsTask
  BY DEF IInv
<1>g. InTexts(conversation) \subseteq InTexts(conversation')
  BY <1>t, ConversationGrows DEF TalkInv
<1>1. ASSUME SendOpening PROVE Held'
  <2>1. pc["run"] = "opening"
    BY <1>1 DEF SendOpening
  <2>2. /\ received = {} /\ rxItem = Final /\ acc = <<>> /\ monText = <<>>
        /\ pc["consumer"] = "get" /\ pc["rx"] = "recv"
    BY <2>1 DEF TalkInv, OpeningInv
  <2>3. /\ UNCHANGED <<received, rxItem, acc, monText>>
        /\ pc'["consumer"] = pc["consumer"] /\ pc'["rx"] = pc["rx"]
    BY <1>1, <1>t DEF SendOpening, queues, locals, client, TypeOK, Tasks
  <2> QED
    BY <2>2, <2>3 DEF Held
<1>2. ASSUME ~SendOpening PROVE Held'
  <2>1. pc["run"] = "run" /\ Held
    BY <1>2, <1>t, RunSteps DEF HeldInv
  <2>2. CASE RunStep
    BY <1>2, <2>1, <2>2 DEF RunStep, OpeningFails, Finalize
  <2>3. CASE ClientStep \/ PutAudio
    BY <1>t, <2>1, <2>3, ClientHeld
  <2>4. CASE ReaderStep
    BY <1>t, <2>1, <2>4, ReaderHeld, FailureEnds DEF ReaderStep
  <2>5. CASE ConsumerStep
    BY <1>t, <1>g, <2>1, <2>5, ConsumerHeld, FailureEnds DEF ConsumerStep
  <2>6. CASE LlmStep
    BY <1>t, <2>1, <2>6, LlmHeld
  <2>7. CASE TextStep
    BY <1>t, <2>1, <2>7, TextHeld
  <2>8. CASE MonitorStep \/ CarryoverAges
    BY <1>t, <2>1, <2>8, MonitorHeld, FailureEnds DEF MonitorStep
  <2>9. ASSUME NEW o \in Owners, Turn(o) PROVE Held'
    BY <1>t, <1>g, <2>1, <2>9, TurnHeld, FailureEnds
  <2>10. CASE UNCHANGED vars
    BY <2>1, <2>10, QuietStep DEF vars, queues, carryVars, locals, client
  <2> QED
    BY <2>2, <2>3, <2>4, <2>5, <2>6, <2>7, <2>8, <2>9, <2>10 DEF Next
<1> QED
  BY <1>1, <1>2

\* Whatever is interrupted, typed in between, forced or failing, an utterance
\* taken off the socket is in a queue, a text or the conversation until the
\* session ends, for any number of utterances and every queue size; only
\* [WAIT], which takes an answer back out of the conversation, is left out.
THEOREM NothingHeardIsLost ==
    ASSUME "wait" \notin Outcomes
    PROVE  Spec => []NoUtteranceLost
<1>1. Init => HeldInv
  BY DEF Init, HeldInv, Tasks
<1>2. IInv /\ TalkInv /\ HeldInv /\ [Next]_vars => TalkInv' /\ HeldInv'
  BY NextTalk, NextHeld DEF IInv
<1>3. HeldInv => NoUtteranceLost
  BY DEF HeldInv, Held, NoUtteranceLost
<1> QED
  BY Invariance, InitTalk, <1>1, <1>2, <1>3, PTL DEF Spec
=============================================================================
