---------------------------- MODULE VoicePipeline ----------------------------
(***************************************************************************)
(* One VoicePipeline object (backend/app/services/voice/pipeline.py): the  *)
(* asyncio tasks that serve one voice WebSocket, the queues between them,  *)
(* the lock that serialises LLM+TTS turns, and the conversation, carryover *)
(* and interrupt flag that the tasks share.                                *)
(*                                                                         *)
(* asyncio switches tasks only at an await that suspends, so one action is *)
(* the code between two such awaits.  Audio is abstracted to utterances:   *)
(* one "audio" message is one utterance and the speech-to-text service     *)
(* returns one final transcript chunk for it.  A text is the sequence of   *)
(* utterances it was joined from.                                          *)
(***************************************************************************)
EXTENDS Naturals, Sequences, SequencesExt

CONSTANTS
    MaxUtt,         \* spoken utterances the client sends
    MaxTyped,       \* text_input messages the client sends
    MaxInterrupts,  \* interrupt messages the client sends
    VoiceKinds,     \* subset of {"full", "short", "low"}
    Outcomes,       \* subset of {"reply", "wait", "empty", "error"}
    MaxWait,        \* tuning.PIPELINE_MAX_WAIT_COUNT
    AudioCap,       \* maxsize of audio_in
    SttMayFail,     \* can the speech-to-text connection drop?
    ClientLeaves    \* can the client end the session or disconnect?

ASSUME ConstantsAssumption ==
    /\ MaxUtt \in Nat
    /\ MaxTyped \in Nat
    /\ MaxInterrupts \in Nat
    /\ VoiceKinds \subseteq {"full", "short", "low"}
    /\ Outcomes \subseteq {"reply", "wait", "empty", "error"}
    /\ MaxWait \in Nat
    /\ AudioCap \in Nat \ {0}
    /\ SttMayFail \in BOOLEAN
    /\ ClientLeaves \in BOOLEAN

VARIABLES
    pc,            \* where each task is suspended
    rxItem,        \* what _receive_loop is putting on audio_in
    audio_in,      \* asyncio.Queue(maxsize=AudioCap)
    text_in,       \* asyncio.Queue()
    final_queue,   \* asyncio.Queue() between _stt_reader and _turn_consumer
    lock,          \* holder of _llm_lock
    interrupted,   \* _interrupted
    state,         \* _state; SmartPause is active exactly when "listening"
    prompts,       \* soft prompts fired since SmartPause was last reset
    conversation,  \* _conversation
    carry,         \* _carryover_text
    carrySet,      \* _carryover_set_at: None, at most 8s ago, more than 8s ago
    waitCount,     \* _wait_count
    lowCount,      \* _low_confidence_count
    acc,           \* accumulated_text of _turn_consumer
    monText,       \* text of _pause_monitor
    retry,         \* _text_process_loop is in its forced second turn
    pendWords,     \* TranscriptWord rows flushed but not committed
    savedWords,    \* TranscriptWord rows committed
    transcript,    \* session.transcript as committed
    status,        \* session.status as committed
    wsOpen,        \* the WebSocket accepts sends
    sent,          \* what the client has sent so far
    received       \* audible utterances the server has taken off the socket

queues == <<rxItem, audio_in, text_in, final_queue>>
carryVars == <<carry, carrySet, waitCount>>
db == <<pendWords, savedWords, transcript, status>>
client == <<wsOpen, sent, received>>
locals == <<acc, monText, retry>>
vars == <<pc, queues, lock, interrupted, state, prompts, conversation,
          carryVars, lowCount, locals, db, client>>

-----------------------------------------------------------------------------
(* Data *)

Tasks == {"run", "rx", "reader", "consumer", "llm", "text", "monitor"}

\* The tasks that run LLM+TTS turns under _llm_lock.
Owners == {"llm", "text", "monitor"}

Utt == [id : Nat, kind : {"full", "short", "low", "typed"}]
Final == [id |-> 0, kind |-> "none"]   \* the None that ends a queue
Item == Utt \cup {Final}

Message == [role : {"user", "assistant"}, text : Seq(Utt)]
User(text) == [role |-> "user", text |-> text]
Assistant == [role |-> "assistant", text |-> <<>>]
ForceNote == User(<<>>)

\* Fewer than PIPELINE_MIN_WORDS_FOR_LLM = 2 words: one single-word chunk.
TooShort(text) == Len(text) = 1 /\ text[1].kind = "short"

Words(u) == {u.id}

EndsWith(role) == conversation # <<>> /\ Last(conversation).role = role

PopIf(role) == IF EndsWith(role) THEN Front(conversation) ELSE conversation

\* Where a task can be suspended, one set for all tasks.
TaskStates ==
    {"opening", "run", "finalize", "crashed", "recv", "put", "join", "get", "collect",
     "commit", "await", "rollback", "none", "lock", "gen", "speak", "cancel", "waited",
     "replied", "sleep", "send", "done", "dead"}

TypeOK ==
    /\ pc \in [Tasks -> TaskStates]
    /\ rxItem \in Item
    /\ audio_in \in Seq(Item)
    /\ text_in \in Seq(Item)
    /\ final_queue \in Seq(Item)
    /\ lock \in Owners \cup {"free"}
    /\ interrupted \in BOOLEAN
    /\ state \in {"idle", "listening", "processing", "speaking"}
    /\ prompts \in 0..2
    /\ conversation \in Seq(Message)
    /\ carry \in Seq(Utt)
    /\ carrySet \in {"none", "fresh", "due"}
    /\ waitCount \in Nat
    /\ lowCount \in Nat
    /\ acc \in Seq(Utt)
    /\ monText \in Seq(Utt)
    /\ retry \in BOOLEAN
    /\ pendWords \in SUBSET Nat
    /\ savedWords \in SUBSET Nat
    /\ transcript \in Seq(Message)
    /\ status \in {"active", "completed"}
    /\ wsOpen \in BOOLEAN
    /\ sent \in [utt : Nat, typed : Nat, interrupts : Nat]
    /\ received \in SUBSET Utt

Init ==
    /\ pc = [t \in Tasks |->
               CASE t = "run" -> "opening"
                 [] t = "rx" -> "recv"
                 [] t = "reader" -> "run"
                 [] t = "consumer" -> "get"
                 [] t = "llm" -> "none"
                 [] t = "text" -> "get"
                 [] t = "monitor" -> "sleep"]
    /\ rxItem = Final
    /\ audio_in = <<>> /\ text_in = <<>> /\ final_queue = <<>>
    /\ lock = "free"
    /\ interrupted = FALSE
    /\ state = "idle"
    /\ prompts = 0
    /\ conversation = <<>>
    /\ carry = <<>> /\ carrySet = "none" /\ waitCount = 0
    /\ lowCount = 0
    /\ acc = <<>> /\ monText = <<>> /\ retry = FALSE
    /\ pendWords = {} /\ savedWords = {}
    /\ transcript = <<>> /\ status = "active"
    /\ wsOpen = TRUE
    /\ sent = [utt |-> 0, typed |-> 0, interrupts |-> 0]
    /\ received = {}

\* The tasks exist once run() has sent the opening.  A task that run() does
\* not cancel, because only its parent is cancelled, keeps running after it.
Started == pc["run"] \notin {"opening", "crashed"}

\* _set_state(LISTENING) also calls SmartPause.activate(), which resets the
\* two fired flags; any other state deactivates it.
Listening == state' = "listening" /\ prompts' = 0
Enter(s) == state' = s /\ UNCHANGED prompts

\* db.commit() and db.rollback() on the session all tasks share.
Commit == savedWords' = savedWords \cup pendWords /\ pendWords' = {}
Rollback == pendWords' = {} /\ UNCHANGED savedWords

-----------------------------------------------------------------------------
(* run(): opening, failure of a task, finalisation *)

SendOpening ==
    /\ pc["run"] = "opening"
    /\ wsOpen
    /\ conversation' = <<Assistant>>
    /\ Listening
    /\ pc' = [pc EXCEPT !["run"] = "run"]
    /\ UNCHANGED <<queues, lock, interrupted, carryVars, lowCount, locals, db, client>>

\* Both TTS providers fail on the opening, or the socket is already closed:
\* run() raises before its try block and the session is not finalised.
OpeningFails ==
    /\ pc["run"] = "opening"
    /\ ~wsOpen \/ "error" \in Outcomes
    /\ pc' = [pc EXCEPT !["run"] = "crashed"]
    /\ wsOpen' = FALSE
    /\ UNCHANGED <<queues, lock, interrupted, state, prompts, conversation, carryVars,
                   lowCount, locals, db, sent, received>>

Alive(t) == pc[t] \notin {"done", "dead"}

\* asyncio.wait(FIRST_EXCEPTION) returns: run() cancels the top-level tasks
\* that are pending.  Cancelling process_task does not cancel the reader, the
\* consumer and the LLM task it is waiting for.
EndRun(pcs) ==
    /\ pc' = [t \in Tasks |->
                CASE t \in {"rx", "text", "monitor"} /\ pcs[t] # "done" -> "dead"
                  [] t = "run" /\ pcs[t] = "run" -> "finalize"
                  [] OTHER -> pcs[t]]
    /\ lock' = IF lock \in {"text", "monitor"} \/ (lock = "llm" /\ pcs["llm"] = "none")
               THEN "free" ELSE lock

\* An exception in _text_process_loop or _pause_monitor.
TopTaskFails(t) == EndRun([pc EXCEPT ![t] = "dead"])

\* An exception that leaves _turn_consumer, its own or the LLM task's:
\* _process_loop cancels the reader and re-raises.
ConsumerFails == EndRun([pc EXCEPT !["consumer"] = "dead", !["llm"] = "none",
                                   !["reader"] = IF Alive("reader") THEN "dead" ELSE "done"])

\* An exception in _stt_reader: _process_loop cancels the consumer and
\* re-raises.  A consumer awaiting the LLM task passes the cancellation on to
\* it, then takes its own CancelledError for a barge-in and carries on.
ReaderFails ==
    EndRun([pc EXCEPT !["reader"] = "dead",
                      !["llm"] = IF @ = "none" THEN @ ELSE "cancel",
                      !["consumer"] = IF @ \in {"await", "rollback", "done"} THEN @ ELSE "dead"])

\* _finalize_session(), after which the endpoint returns and the socket closes.
Finalize ==
    /\ pc["run"] = "finalize"
    /\ transcript' = conversation
    /\ status' = "completed"
    /\ Commit
    /\ wsOpen' = FALSE
    /\ pc' = [pc EXCEPT !["run"] = "done"]
    /\ UNCHANGED <<queues, lock, interrupted, state, prompts, conversation, carryVars,
                   lowCount, locals, sent, received>>

-----------------------------------------------------------------------------
(* The client and _receive_loop *)

\* The browser sends one more message of the kind named; the receive loop
\* takes messages in order, so receiving and sending are one step.
CanReceive == Started /\ pc["rx"] = "recv" /\ wsOpen

NewId == sent.utt + sent.typed + 1

RecvAudio(kind) ==
    /\ CanReceive
    /\ sent.utt < MaxUtt
    /\ LET u == [id |-> NewId, kind |-> kind] IN
         /\ rxItem' = u
         /\ received' = IF kind = "low" THEN received ELSE received \cup {u}
    /\ sent' = [sent EXCEPT !.utt = @ + 1]
    /\ pc' = [pc EXCEPT !["rx"] = "put"]
    /\ UNCHANGED <<audio_in, text_in, final_queue, lock, interrupted, state, prompts,
                   conversation, carryVars, lowCount, locals, db, wsOpen>>

RecvText ==
    /\ CanReceive
    /\ sent.typed < MaxTyped
    /\ LET u == [id |-> NewId, kind |-> "typed"] IN
         /\ text_in' = Append(text_in, u)
         /\ received' = received \cup {u}
    /\ sent' = [sent EXCEPT !.typed = @ + 1]
    /\ UNCHANGED <<pc, rxItem, audio_in, final_queue, lock, interrupted, state, prompts,
                   conversation, carryVars, lowCount, locals, db, wsOpen>>

RecvInterrupt ==
    /\ CanReceive
    /\ sent.interrupts < MaxInterrupts
    /\ interrupted' = TRUE
    /\ sent' = [sent EXCEPT !.interrupts = @ + 1]
    /\ UNCHANGED <<pc, queues, lock, state, prompts, conversation, carryVars, lowCount,
                   locals, db, wsOpen, received>>

\* {"type": "end_audio"}, or receive_json() raising because the client left.
RecvEnd ==
    /\ Started /\ pc["rx"] = "recv"
    /\ wsOpen => ClientLeaves
    /\ rxItem' = Final
    /\ pc' = [pc EXCEPT !["rx"] = "put"]
    /\ UNCHANGED <<audio_in, text_in, final_queue, lock, interrupted, state, prompts,
                   conversation, carryVars, lowCount, locals, db, client>>

\* audio_in.put(): blocks while the queue is full.  The None of end_audio is
\* followed by a None on text_in and ends the loop.
PutAudio ==
    /\ pc["rx"] = "put"
    /\ Len(audio_in) < AudioCap
    /\ audio_in' = Append(audio_in, rxItem)
    /\ text_in' = IF rxItem = Final THEN Append(text_in, Final) ELSE text_in
    /\ pc' = [pc EXCEPT !["rx"] = IF rxItem = Final THEN "done" ELSE "recv"]
    /\ rxItem' = Final
    /\ UNCHANGED <<final_queue, lock, interrupted, state, prompts, conversation, carryVars,
                   lowCount, locals, db, client>>

\* The browser tab goes away: from now on every send raises.
ClientDisconnects ==
    /\ ClientLeaves
    /\ wsOpen
    /\ wsOpen' = FALSE
    /\ UNCHANGED <<pc, queues, lock, interrupted, state, prompts, conversation, carryVars,
                   lowCount, locals, db, sent, received>>

-----------------------------------------------------------------------------
(* _stt_reader *)

LlmRunning == pc["llm"] \notin {"none", "cancel"}

\* A final chunk: SmartPause.on_final(), final_queue.put(), and barge-in when
\* the LLM task is not done - set the flag, cancel the task, wait for it.
SttFinal ==
    /\ Started /\ pc["reader"] = "run"
    /\ audio_in # <<>> /\ Head(audio_in) # Final
    /\ wsOpen
    /\ audio_in' = Tail(audio_in)
    /\ final_queue' = Append(final_queue, Head(audio_in))
    /\ prompts' = 0
    /\ IF LlmRunning
       THEN /\ interrupted' = TRUE
            /\ pc' = [pc EXCEPT !["llm"] = "cancel", !["reader"] = "join"]
       ELSE UNCHANGED <<interrupted, pc>>
    /\ UNCHANGED <<rxItem, text_in, lock, state, conversation, carryVars, lowCount,
                   locals, db, client>>

\* The stream ends: _audio_gen() saw the None, or Deepgram reported an error
\* or closed the connection.
SttEnds ==
    /\ Started /\ pc["reader"] = "run"
    /\ \/ audio_in # <<>> /\ Head(audio_in) = Final
       \/ SttMayFail
    /\ audio_in' = IF audio_in # <<>> /\ Head(audio_in) = Final THEN Tail(audio_in)
                   ELSE audio_in
    /\ final_queue' = Append(final_queue, Final)
    /\ pc' = [pc EXCEPT !["reader"] = "done"]
    /\ UNCHANGED <<rxItem, text_in, lock, interrupted, state, prompts, conversation,
                   carryVars, lowCount, locals, db, client>>

\* send_json(transcript_partial) raises.
ReaderSendFails ==
    /\ Started /\ pc["reader"] = "run"
    /\ audio_in # <<>> /\ Head(audio_in) # Final
    /\ ~wsOpen
    /\ ReaderFails
    /\ UNCHANGED <<queues, interrupted, state, prompts, conversation, carryVars, lowCount,
                   locals, db, client>>

\* Mutant: the cancelled task releases the lock even when it was only waiting.
CancelDone_AlwaysReleases ==
    /\ pc["llm"] = "cancel"
    /\ lock' = "free"
    /\ interrupted' = IF pc["reader"] = "join" THEN FALSE ELSE interrupted
    /\ pc' = [pc EXCEPT !["llm"] = "none", !["consumer"] = "rollback",
                        !["reader"] = IF @ = "join" THEN "run" ELSE @]
    /\ UNCHANGED <<queues, state, prompts, conversation, carryVars, lowCount, locals, db,
                   client>>

\* Mutant: acquire() and release() without the try/finally of "async with".
CancelDone_KeepsLock ==
    /\ pc["llm"] = "cancel"
    /\ UNCHANGED lock
    /\ interrupted' = IF pc["reader"] = "join" THEN FALSE ELSE interrupted
    /\ pc' = [pc EXCEPT !["llm"] = "none", !["consumer"] = "rollback",
                        !["reader"] = IF @ = "join" THEN "run" ELSE @]
    /\ UNCHANGED <<queues, state, prompts, conversation, carryVars, lowCount, locals, db,
                   client>>

\* The cancelled LLM task finishes: it leaves the lock if it held it.  The
\* consumer and the reader, both awaiting it, wake in the same iteration of
\* the event loop; the reader clears the flag.
CancelDone ==
    /\ pc["llm"] = "cancel"
    /\ lock' = IF lock = "llm" THEN "free" ELSE lock
    /\ interrupted' = IF pc["reader"] = "join" THEN FALSE ELSE interrupted
    /\ pc' = [pc EXCEPT !["llm"] = "none", !["consumer"] = "rollback",
                        !["reader"] = IF @ = "join" THEN "run" ELSE @]
    /\ UNCHANGED <<queues, state, prompts, conversation, carryVars, lowCount, locals, db,
                   client>>

-----------------------------------------------------------------------------
(* _turn_consumer *)

NextFinal == Head(final_queue)

\* _save_transcript_words(): add and flush, no commit.
SaveWords(u) == pendWords' = pendWords \cup Words(u)

FirstFinal ==
    /\ Started /\ pc["consumer"] = "get"
    /\ final_queue # <<>> /\ NextFinal # Final
    /\ final_queue' = Tail(final_queue)
    /\ SaveWords(NextFinal)
    /\ \/ /\ NextFinal.kind = "low"
          /\ wsOpen
          /\ lowCount' = lowCount + 1
          /\ UNCHANGED <<pc, acc>>
       \/ /\ NextFinal.kind # "low"
          /\ lowCount' = 0
          /\ acc' = <<NextFinal>>
          /\ pc' = [pc EXCEPT !["consumer"] = "collect"]
    /\ UNCHANGED <<rxItem, audio_in, text_in, lock, interrupted, state, prompts,
                   conversation, carryVars, monText, retry, savedWords, transcript, status,
                   client>>

ConsumerEnds ==
    /\ Started /\ pc["consumer"] = "get"
    /\ final_queue # <<>> /\ NextFinal = Final
    /\ final_queue' = Tail(final_queue)
    /\ pc' = [pc EXCEPT !["consumer"] = "done"]
    /\ UNCHANGED <<rxItem, audio_in, text_in, lock, interrupted, state, prompts,
                   conversation, carryVars, lowCount, locals, db, client>>

\* Another final within the debounce window: its words are saved, its text is
\* joined unless its confidence is low.
CollectFinal ==
    /\ pc["consumer"] = "collect"
    /\ final_queue # <<>> /\ NextFinal # Final
    /\ final_queue' = Tail(final_queue)
    /\ SaveWords(NextFinal)
    /\ acc' = IF NextFinal.kind = "low" THEN acc ELSE Append(acc, NextFinal)
    /\ UNCHANGED <<pc, rxItem, audio_in, text_in, lock, interrupted, state, prompts,
                   conversation, carryVars, lowCount, monText, retry, savedWords, transcript,
                   status, client>>

\* Mutant: the carryover is cleared but not prepended.
CommitTurn_DropsCarryover ==
    /\ pc["consumer"] = "collect"
    /\ final_queue' = IF final_queue # <<>> /\ NextFinal = Final THEN Tail(final_queue)
                      ELSE final_queue
    /\ carrySet' = IF carry # <<>> THEN "none" ELSE carrySet
    /\ LET text == acc IN
         IF TooShort(text)
         THEN /\ carry' = text
              /\ acc' = <<>>
              /\ pc' = [pc EXCEPT !["consumer"] = "get"]
         ELSE /\ carry' = <<>>
              /\ acc' = text
              /\ pc' = [pc EXCEPT !["consumer"] = "commit"]
    /\ UNCHANGED <<rxItem, audio_in, text_in, lock, interrupted, state, prompts,
                   conversation, waitCount, lowCount, monText, retry, db, client>>

\* The debounce ends, by silence or by the None of the queue, which it
\* consumes.  The carryover is prepended; a text of fewer than two words
\* becomes the carryover, without a time.
CommitTurn ==
    /\ pc["consumer"] = "collect"
    /\ final_queue' = IF final_queue # <<>> /\ NextFinal = Final THEN Tail(final_queue)
                      ELSE final_queue
    /\ carrySet' = IF carry # <<>> THEN "none" ELSE carrySet
    /\ LET text == carry \o acc IN
         IF TooShort(text)
         THEN /\ carry' = text
              /\ acc' = <<>>
              /\ pc' = [pc EXCEPT !["consumer"] = "get"]
         ELSE /\ carry' = <<>>
              /\ acc' = text
              /\ pc' = [pc EXCEPT !["consumer"] = "commit"]
    /\ UNCHANGED <<rxItem, audio_in, text_in, lock, interrupted, state, prompts,
                   conversation, waitCount, lowCount, monText, retry, db, client>>

\* After send_json(transcript_final): append the answer and start the task.
LaunchTurn ==
    /\ pc["consumer"] = "commit"
    /\ wsOpen
    /\ conversation' = Append(conversation, User(acc))
    /\ pc' = [pc EXCEPT !["consumer"] = "await", !["llm"] = "lock"]
    /\ UNCHANGED <<queues, lock, interrupted, state, prompts, carryVars, lowCount, locals,
                   db, client>>

\* Mutant: the interrupted answer is dropped with the reply, since it is kept as carryover.
BargeInRecovery_PopsAnswer ==
    /\ pc["consumer"] = "rollback"
    /\ Rollback
    /\ LET rest == PopIf("assistant") IN
         conversation' = IF rest # <<>> /\ Last(rest).role = "user" THEN Front(rest) ELSE rest
    /\ carry' = acc
    /\ acc' = <<>>
    /\ Listening
    /\ pc' = [pc EXCEPT !["consumer"] = "get"]
    /\ UNCHANGED <<queues, lock, interrupted, carrySet, waitCount, lowCount, monText, retry,
                   transcript, status, client>>

\* except CancelledError: roll back, drop a last assistant message, keep the
\* text as carryover (its time is left as it was), go back to listening.
BargeInRecovery ==
    /\ pc["consumer"] = "rollback"
    /\ Rollback
    /\ conversation' = PopIf("assistant")
    /\ carry' = acc
    /\ acc' = <<>>
    /\ Listening
    /\ pc' = [pc EXCEPT !["consumer"] = "get"]
    /\ UNCHANGED <<queues, lock, interrupted, carrySet, waitCount, lowCount, monText, retry,
                   transcript, status, client>>

\* A send of the consumer raises: the low-confidence notice, transcript_final.
ConsumerSendFails ==
    /\ Started /\ ~wsOpen
    /\ \/ /\ pc["consumer"] = "commit"
          /\ UNCHANGED <<final_queue, pendWords, lowCount>>
       \/ /\ pc["consumer"] = "get"
          /\ final_queue # <<>> /\ NextFinal.kind = "low"
          /\ final_queue' = Tail(final_queue)
          /\ SaveWords(NextFinal)
          /\ lowCount' = lowCount + 1
    /\ ConsumerFails
    /\ UNCHANGED <<rxItem, audio_in, text_in, interrupted, state, prompts, conversation,
                   carryVars, locals, savedWords, transcript, status, client>>

-----------------------------------------------------------------------------
(* _text_process_loop and _pause_monitor up to their turns *)

TakeText ==
    /\ Started /\ pc["text"] = "get"
    /\ text_in # <<>> /\ Head(text_in) # Final
    /\ text_in' = Tail(text_in)
    /\ lowCount' = 0
    /\ conversation' = Append(conversation, User(Append(carry, Head(text_in))))
    /\ carry' = <<>>
    /\ pc' = [pc EXCEPT !["text"] = "lock"]
    /\ UNCHANGED <<rxItem, audio_in, final_queue, lock, interrupted, state, prompts,
                   carrySet, waitCount, locals, db, client>>

TextEnds ==
    /\ Started /\ pc["text"] = "get"
    /\ text_in # <<>> /\ Head(text_in) = Final
    /\ text_in' = Tail(text_in)
    /\ pc' = [pc EXCEPT !["text"] = "done"]
    /\ UNCHANGED <<rxItem, audio_in, final_queue, lock, interrupted, state, prompts,
                   conversation, carryVars, lowCount, locals, db, client>>

\* PIPELINE_CARRYOVER_TIMEOUT_S passes.
CarryoverAges ==
    /\ carrySet = "fresh"
    /\ carrySet' = "due"
    /\ UNCHANGED <<pc, queues, lock, interrupted, state, prompts, conversation, carry,
                   waitCount, lowCount, locals, db, client>>

Polling == Started /\ pc["monitor"] = "sleep" /\ state = "listening"
ForceDue == carry # <<>> /\ carrySet = "due"

\* [WAIT] deadlock recovery: take the carryover.
ForceRespond ==
    /\ Polling /\ ForceDue
    /\ monText' = carry
    /\ carry' = <<>> /\ carrySet' = "none" /\ waitCount' = 0
    /\ pc' = [pc EXCEPT !["monitor"] = "send"]
    /\ UNCHANGED <<queues, lock, interrupted, state, prompts, conversation, lowCount, acc,
                   retry, db, client>>

\* After send_json(transcript_final).
ForceAppend ==
    /\ pc["monitor"] = "send"
    /\ wsOpen
    /\ conversation' = Append(conversation, User(monText))
    /\ monText' = <<>>
    /\ pc' = [pc EXCEPT !["monitor"] = "lock"]
    /\ UNCHANGED <<queues, lock, interrupted, state, prompts, carryVars, lowCount, acc,
                   retry, db, client>>

\* SmartPause.check() after a long silence: each of the two prompts once.
SoftPrompt ==
    /\ Polling /\ ~ForceDue
    /\ prompts < 2
    /\ wsOpen
    /\ prompts' = prompts + 1
    /\ UNCHANGED <<pc, queues, lock, interrupted, state, conversation, carryVars, lowCount,
                   locals, db, client>>

MonitorSendFails ==
    /\ ~wsOpen
    /\ \/ Polling /\ ~ForceDue /\ prompts < 2
       \/ pc["monitor"] = "send"
    /\ TopTaskFails("monitor")
    /\ UNCHANGED <<queues, interrupted, state, prompts, conversation, carryVars, lowCount,
                   locals, db, client>>

-----------------------------------------------------------------------------
(* The turn: _llm_tts_turn under _llm_lock, and what its caller does next   *)

InTurn(o) == pc[o] \in {"gen", "speak"}

\* async with _llm_lock, then _set_state(PROCESSING); the forced second turn
\* of the text loop does not set the state.
Acquire(o) ==
    /\ pc[o] = "lock"
    /\ lock = "free"
    /\ lock' = o
    /\ IF o = "text" /\ retry THEN UNCHANGED <<state, prompts>> ELSE Enter("processing")
    /\ pc' = [pc EXCEPT ![o] = "gen"]
    /\ UNCHANGED <<queues, interrupted, conversation, carryVars, lowCount, locals, db, client>>

\* _tts_worker starts on the first sentence; it discards it when the
\* interrupt flag is set.
Speak(o) ==
    /\ pc[o] = "gen"
    /\ "reply" \in Outcomes
    /\ ~interrupted /\ wsOpen
    /\ Enter("speaking")
    /\ pc' = [pc EXCEPT ![o] = "speak"]
    /\ UNCHANGED <<queues, lock, interrupted, conversation, carryVars, lowCount, locals, db,
                   client>>

\* What the caller of _llm_tts_turn does, in the same step, with a real
\* response.  The text loop pops a last user message after its second turn.
AfterReply(o, conv) ==
    /\ conversation' = conv
    /\ waitCount' = IF o = "monitor" THEN waitCount ELSE 0
    /\ IF o = "monitor" THEN Listening ELSE Enter("processing")
    /\ pc' = [pc EXCEPT ![o] = IF o = "monitor" THEN "sleep" ELSE "replied"]
    /\ UNCHANGED <<carry, carrySet, retry>>

\* What it does with (0, 0): the voice turn keeps its text as carryover, the
\* monitor ignores the result, the text loop adds the note and tries once more.
AfterWait(o, conv) ==
    \/ /\ o = "llm"
       /\ waitCount' = waitCount + 1
       /\ carry' = acc
       /\ carrySet' = "fresh"
       /\ conversation' = conv
       /\ pc' = [pc EXCEPT ![o] = "waited"]
       /\ UNCHANGED <<state, prompts, retry>>
    \/ /\ o = "monitor"
       /\ conversation' = conv
       /\ Listening
       /\ pc' = [pc EXCEPT ![o] = "waited"]
       /\ UNCHANGED <<carryVars, retry>>
    \/ /\ o = "text" /\ ~retry
       /\ conversation' = Append(conv, ForceNote)
       /\ retry' = TRUE
       /\ pc' = [pc EXCEPT ![o] = "lock"]
       /\ UNCHANGED <<carryVars, state, prompts>>
    \/ /\ o = "text" /\ retry
       /\ conversation' = IF conv # <<>> /\ Last(conv).role = "user" THEN Front(conv) ELSE conv
       /\ waitCount' = 0
       /\ pc' = [pc EXCEPT ![o] = "replied"]
       /\ UNCHANGED <<carry, carrySet, retry, state, prompts>>

\* The response is complete: reset the flag, append the assistant message.
\* A reply that was interrupted from the start, or of which markdown removal
\* leaves nothing, has not been spoken at all.
Reply(o) ==
    /\ InTurn(o)
    /\ "reply" \in Outcomes
    /\ wsOpen
    /\ lock' = "free"
    /\ interrupted' = FALSE
    /\ AfterReply(o, Append(conversation, Assistant))
    /\ UNCHANGED <<queues, lowCount, acc, monText, db, client>>

\* Mutant: off by one in the cap.
WaitSignal_OffByOne(o) ==
    /\ pc[o] = "gen"
    /\ "wait" \in Outcomes
    /\ waitCount <= MaxWait
    /\ lock' = "free"
    /\ interrupted' = FALSE
    /\ AfterWait(o, PopIf("user"))
    /\ UNCHANGED <<queues, lowCount, acc, monText, db, client>>

\* The LLM answers [WAIT] and fewer than MaxWait in a row were accepted: the
\* last message, if it is a user's, is removed.
WaitSignal(o) ==
    /\ pc[o] = "gen"
    /\ "wait" \in Outcomes
    /\ waitCount < MaxWait
    /\ lock' = "free"
    /\ interrupted' = FALSE
    /\ AfterWait(o, PopIf("user"))
    /\ UNCHANGED <<queues, lowCount, acc, monText, db, client>>

\* The stream yields no token: an empty assistant message, and (0, 0).
EmptyReply(o) ==
    /\ pc[o] = "gen"
    /\ "empty" \in Outcomes
    /\ wsOpen
    /\ lock' = "free"
    /\ interrupted' = FALSE
    /\ AfterWait(o, Append(conversation, Assistant))
    /\ UNCHANGED <<queues, lowCount, acc, monText, db, client>>


\* The voice task's tail after [WAIT]: transcript_rollback, LISTENING.
LlmWaited ==
    /\ pc["llm"] = "waited"
    /\ wsOpen
    /\ Listening
    /\ acc' = <<>>
    /\ pc' = [pc EXCEPT !["llm"] = "none", !["consumer"] = "get"]
    /\ UNCHANGED <<queues, lock, interrupted, conversation, carryVars, lowCount, monText,
                   retry, db, client>>

\* The monitor after a turn without a response: its LISTENING was sent.
MonitorWaited ==
    /\ pc["monitor"] = "waited"
    /\ wsOpen
    /\ pc' = [pc EXCEPT !["monitor"] = "sleep"]
    /\ UNCHANGED <<queues, lock, interrupted, state, prompts, conversation, carryVars,
                   lowCount, locals, db, client>>

\* _save_transcript_turn: the transcript is the conversation, committed on the
\* shared session with the words that are pending.  Once the endpoint has
\* returned the row is detached and the write has no effect.
SaveTurn ==
    /\ Commit
    /\ transcript' = IF pc["run"] = "done" THEN transcript ELSE conversation
    /\ UNCHANGED status

LlmReplied ==
    /\ pc["llm"] = "replied"
    /\ wsOpen
    /\ SaveTurn
    /\ Listening
    /\ acc' = <<>>
    /\ pc' = [pc EXCEPT !["llm"] = "none", !["consumer"] = "get"]
    /\ UNCHANGED <<queues, lock, interrupted, conversation, carryVars, lowCount, monText,
                   retry, client>>

TextReplied ==
    /\ pc["text"] = "replied"
    /\ wsOpen
    /\ SaveTurn
    /\ Listening
    /\ retry' = FALSE
    /\ pc' = [pc EXCEPT !["text"] = "get"]
    /\ UNCHANGED <<queues, lock, interrupted, conversation, carryVars, lowCount, acc,
                   monText, client>>

\* The LLM or both TTS providers raise, or a send does; the last send of a
\* turn comes after its commits.
TurnFails(o) ==
    /\ \/ /\ InTurn(o) /\ ("error" \in Outcomes \/ ~wsOpen)
          /\ UNCHANGED db
       \/ /\ pc[o] = "waited" /\ ~wsOpen
          /\ UNCHANGED db
       \/ /\ pc[o] = "replied" /\ ~wsOpen
          /\ SaveTurn
    /\ IF o = "llm" THEN ConsumerFails ELSE TopTaskFails(o)
    /\ UNCHANGED <<queues, interrupted, state, prompts, conversation, carryVars, lowCount,
                   locals, client>>

-----------------------------------------------------------------------------

ClientStep ==
    \/ \E kind \in VoiceKinds : RecvAudio(kind)
    \/ RecvText
    \/ RecvInterrupt
    \/ RecvEnd
    \/ ClientDisconnects

Turn(o) == Acquire(o) \/ Speak(o) \/ Reply(o) \/ WaitSignal(o) \/ EmptyReply(o) \/ TurnFails(o)

RunStep == SendOpening \/ OpeningFails \/ Finalize
ReaderStep == SttFinal \/ SttEnds \/ ReaderSendFails
ConsumerStep == FirstFinal \/ ConsumerEnds \/ CollectFinal \/ CommitTurn \/ LaunchTurn
                \/ BargeInRecovery \/ ConsumerSendFails
LlmStep == CancelDone \/ LlmWaited \/ LlmReplied
TextStep == TakeText \/ TextEnds \/ TextReplied
MonitorStep == ForceRespond \/ ForceAppend \/ MonitorWaited \/ SoftPrompt
               \/ MonitorSendFails

Next ==
    \/ ClientStep
    \/ RunStep
    \/ PutAudio
    \/ ReaderStep
    \/ ConsumerStep
    \/ LlmStep
    \/ TextStep
    \/ MonitorStep
    \/ CarryoverAges
    \/ \E o \in Owners : Turn(o)

\* Every task the event loop can run runs; _llm_lock wakes its waiters in
\* arrival order, so a waiter is served however often others take the lock.
\* Nothing is assumed of the client or of the failure of a service.
Fairness ==
    /\ WF_vars(RunStep)
    /\ WF_vars(PutAudio)
    /\ WF_vars(~wsOpen /\ RecvEnd)
    /\ WF_vars(ReaderStep /\ audio_in # <<>>)
    /\ WF_vars(ConsumerStep)
    /\ WF_vars(LlmStep)
    /\ WF_vars(TextStep)
    /\ WF_vars(MonitorStep)
    /\ WF_vars(CarryoverAges)
    /\ \A o \in Owners : SF_vars(Acquire(o)) /\ WF_vars(pc[o] # "lock" /\ Turn(o))

Spec == Init /\ [][Next]_vars
FairSpec == Spec /\ Fairness

-----------------------------------------------------------------------------
(* Properties *)

\* "Prevent concurrent LLM+TTS turns" (_llm_lock): no two of the voice, typed
\* and forced turns generate or speak at the same time, whichever of them is
\* cancelled by a barge-in, fails or is waiting.
TurnMutex == \A o, p \in Owners : InTurn(o) /\ InTurn(p) => o = p

\* The lock and the turns agree: a turn runs only under the lock, and the lock
\* is held by a task that is in its turn or still being cancelled out of it.
\* So a barge-in, a failed turn or a cancelled task neither leaves the lock
\* locked behind nor releases one that another task holds.
LockInv ==
    /\ \A o \in Owners : InTurn(o) => lock = o
    /\ lock # "free" => pc[lock] \in {"gen", "speak", "cancel"}

\* _llm_task and its consumer stay paired although the reader cancels the
\* task and resets _llm_task behind the consumer's back: while a voice turn
\* exists exactly one consumer iteration waits for it.
ConsumerAwaitsTask == pc["consumer"] = "await" <=> pc["llm"] # "none"

\* All texts that hold an utterance somewhere in the pipeline.
InTexts(msgs) == UNION {ToSet(msgs[i].text) : i \in DOMAIN msgs}
Located == {rxItem} \cup ToSet(audio_in) \cup ToSet(text_in) \cup ToSet(final_queue)
           \cup ToSet(acc) \cup ToSet(carry) \cup ToSet(monText) \cup InTexts(conversation)

\* Nothing the candidate said or typed disappears while the session runs: an
\* utterance the server took off the socket with sufficient confidence is in a
\* queue, in a text being collected or carried over, or in the conversation
\* the LLM sees - whatever the order of debounce, barge-in, typed input and
\* forced turns.
NoUtteranceLost == pc["run"] = "run" => received \subseteq Located

\* The committed transcript never loses an answer it already held: saves come
\* from three loops that share one conversation list, and barge-in recovery
\* pops from it between two of them.
TranscriptKeepsAnswers == [][InTexts(transcript) \subseteq InTexts(transcript')]_vars

\* "capped at 2, then force-respond": consecutive [WAIT]s never exceed the
\* cap, although the count is tested inside the turn and incremented by the
\* caller after the lock is released.
WaitBounded == waitCount <= MaxWait

\* A turn that waits for _llm_lock gets it, unless it is cancelled or the
\* session ends: barge-ins, failures and other turns cannot starve it.
LockLive == \A o \in Owners : pc[o] = "lock" ~> pc[o] # "lock"

\* The text says the utterance numbered i.
Says(text, i) == \E u \in ToSet(text) : u.id = i

\* It waits in a carryover whose time is set; it is in a message the LLM has
\* replied to.
CarriedOver(i) == carrySet # "none" /\ Says(carry, i)
RepliedTo(i) == \E m, n \in DOMAIN conversation :
    m < n /\ Says(conversation[m].text, i) /\ conversation[n].role = "assistant"

\* Somebody will still answer for it: it is carried over, or in what the
\* consumer collects or has sent (acc, which is of no use any more once that
\* turn has ended in [WAIT]).
StillTold(i) == Says(carry, i) \/ (pc["llm"] # "waited" /\ Says(acc, i))

\* A [WAIT] took it back and nobody answers for it: its message was removed
\* and no text has it, or the forced turn has just ended in [WAIT] (of a
\* message that a barge-in left in the conversation too).
TakenBack(i) ==
    \/ \A u \in Located : u.id # i
    \/ pc["monitor"] = "waited" /\ ~StillTold(i)


\* "force the LLM to respond anyway" (_pause_monitor's docstring): what is
\* carried over is replied to unless the session ends.  The forced turn resets
\* the [WAIT] count, so a [WAIT] in it is accepted, and nothing keeps its text.
ForcedToRespond == \A i \in 1..MaxUtt :
    CarriedOver(i) ~> RepliedTo(i) \/ pc["run"] # "run"
=============================================================================
