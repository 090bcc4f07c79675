------------------------------ MODULE SpokenTurn ------------------------------
(***************************************************************************)
(* Inside one LLM+TTS turn (_llm_tts_turn): the LLM's tokens are cut into  *)
(* sentences and queued, and a worker task shows and speaks them one by    *)
(* one, while the client may interrupt, the primary voice may fail over to *)
(* the fallback one and the turn may be cancelled.  VoicePipeline takes a  *)
(* turn as a whole; this module opens it.                                  *)
(***************************************************************************)
EXTENDS Naturals, Sequences, FiniteSets

CONSTANTS
    MaxSentences,   \* bounds the reply
    Blanks,         \* sentences that are nothing but markdown
    Chunks,         \* audio chunks of a sentence
    MayFallBack     \* the providers include a fallback voice

ASSUME SpokenAssumption ==
    /\ MaxSentences \in Nat \ {0} /\ Chunks \in Nat \ {0}
    /\ Blanks \subseteq 1..MaxSentences /\ MayFallBack \in BOOLEAN

VARIABLES
    llm,        \* the turn: streaming, flushing, joining, then replied, waited or raised
    made,       \* sentences the LLM has completed
    ttsQueue,   \* tts_queue; 0 is the poison pill
    worker,     \* the task: idle, speaking, done, failed or cancelled
    sentence,   \* the sentence being spoken, and its chunks sent
    flag,       \* _interrupted
    fallback,   \* _tts_fallback_active
    shown,      \* sentences sent as text
    voiced,     \* chunks sent: pairs of a sentence and a number
    role,       \* the last entry of _conversation
    billed,     \* sentences in the usage log
    stopped     \* history: an interrupt was seen, a voice failed for good, a send failed

spokenVars == <<llm, made, ttsQueue, worker, sentence, flag, fallback, shown, voiced, role,
                billed, stopped>>

SpokenInit ==
    /\ llm = "streaming" /\ made = 0 /\ ttsQueue = <<>> /\ worker = "idle"
    /\ sentence = [n |-> 0, sent |-> 0]
    /\ flag \in BOOLEAN             \* an interrupt between turns stays set
    /\ fallback \in {f \in BOOLEAN : f => MayFallBack}
    /\ shown = <<>> /\ voiced = <<>>
    /\ role = "user" /\ billed = <<>> /\ stopped = FALSE

TurnOver == llm \in {"replied", "waited", "raised"}

-------------------------------------------------------------------------------
(* The coroutine of the turn. *)

(* A token completes a sentence; tokens that do not change nothing here. *)
Token ==
    /\ llm = "streaming" /\ made < MaxSentences
    /\ made' = made + 1
    /\ ttsQueue' = Append(ttsQueue, made + 1)
    /\ UNCHANGED <<llm, worker, sentence, flag, fallback, shown, voiced, role, billed, stopped>>

(* The reply starts with [WAIT] and the cap is not reached. *)
WaitToken ==
    /\ llm = "streaming" /\ made = 0
    /\ llm' = "waiting"
    /\ ttsQueue' = Append(ttsQueue, 0)
    /\ UNCHANGED <<made, worker, sentence, flag, fallback, shown, voiced, role, billed, stopped>>

\* mutant: the pill goes before the remainder
StreamEnds_PillFirst ==
    /\ llm = "streaming"
    /\ llm' = "joining"
    /\ \/ UNCHANGED made /\ ttsQueue' = Append(ttsQueue, 0)
       \/ /\ made < MaxSentences
          /\ made' = made + 1
          /\ ttsQueue' = ttsQueue \o <<0, made + 1>>
    /\ UNCHANGED <<worker, sentence, flag, fallback, shown, voiced, role, billed, stopped>>

(* The stream ends, perhaps with a remainder in the buffer; the pill follows. *)
StreamEnds ==
    /\ llm = "streaming"
    /\ llm' = "joining"
    /\ \/ UNCHANGED made /\ ttsQueue' = Append(ttsQueue, 0)
       \/ /\ made < MaxSentences
          /\ made' = made + 1
          /\ ttsQueue' = ttsQueue \o <<made + 1, 0>>
    /\ UNCHANGED <<worker, sentence, flag, fallback, shown, voiced, role, billed, stopped>>

\* mutant: the worker is not cancelled
TurnRaises_LeavesWorker ==
    /\ llm \in {"streaming", "joining", "waiting"}
    /\ llm' = "raised"
    /\ UNCHANGED <<made, ttsQueue, worker, sentence, flag, fallback, shown, voiced, role, billed,
                   stopped>>

(* The stream raises, or the turn's task is cancelled at one of its awaits: the finally
   clause cancels the worker and waits for it. *)
TurnRaises ==
    /\ llm \in {"streaming", "joining", "waiting"}
    /\ llm' = "raised"
    /\ worker' = IF worker \in {"idle", "speaking"} THEN "cancelled" ELSE worker
    /\ UNCHANGED <<made, ttsQueue, sentence, flag, fallback, shown, voiced, role, billed, stopped>>

\* mutant: [WAIT] leaves the answer in the conversation
JoinWorker_KeepsAnswer ==
    /\ llm \in {"joining", "waiting"} /\ worker \in {"done", "failed"}
    /\ IF worker = "failed"
       THEN llm' = "raised" /\ UNCHANGED <<flag, role>>
       ELSE /\ flag' = FALSE
            /\ IF llm = "joining"
               THEN llm' = "replied" /\ role' = "assistant"
               ELSE llm' = "waited" /\ UNCHANGED role
    /\ UNCHANGED <<made, ttsQueue, worker, sentence, fallback, shown, voiced, billed, stopped>>

(* await tts_task *)
JoinWorker ==
    /\ llm \in {"joining", "waiting"} /\ worker \in {"done", "failed"}
    /\ IF worker = "failed"
       THEN llm' = "raised" /\ UNCHANGED <<flag, role>>
       ELSE /\ flag' = FALSE
            /\ IF llm = "joining"
               THEN llm' = "replied" /\ role' = "assistant"
               ELSE llm' = "waited" /\ role' = "earlier"    \* the answer is taken back
    /\ UNCHANGED <<made, ttsQueue, worker, sentence, fallback, shown, voiced, billed, stopped>>

(* The client's interrupt message, at any time. *)
ClientInterrupts ==
    /\ ~TurnOver /\ ~flag
    /\ flag' = TRUE
    /\ UNCHANGED <<llm, made, ttsQueue, worker, sentence, fallback, shown, voiced, role, billed,
                   stopped>>

-------------------------------------------------------------------------------
(* _tts_worker *)

(* The next of the queue: the pill; an interrupt, which drains the queue; a sentence that
   markdown removal leaves blank; or a sentence, shown before it is heard. *)
TakeSentence ==
    /\ worker = "idle" /\ ttsQueue # <<>>
    /\ LET n == Head(ttsQueue) IN
       \/ /\ n = 0
          /\ worker' = "done" /\ ttsQueue' = Tail(ttsQueue)
          /\ UNCHANGED <<sentence, shown, stopped>>
       \/ /\ n # 0 /\ flag
          /\ worker' = "done" /\ ttsQueue' = <<>> /\ stopped' = TRUE
          /\ UNCHANGED <<sentence, shown>>
       \/ /\ n # 0 /\ ~flag /\ n \in Blanks
          /\ ttsQueue' = Tail(ttsQueue)
          /\ UNCHANGED <<worker, sentence, shown, stopped>>
       \/ /\ n # 0 /\ ~flag /\ n \notin Blanks
          /\ worker' = "speaking" /\ ttsQueue' = Tail(ttsQueue)
          /\ sentence' = [n |-> n, sent |-> 0]
          /\ shown' = Append(shown, n)
          /\ UNCHANGED stopped
    /\ UNCHANGED <<llm, made, flag, fallback, voiced, role, billed>>

SendChunk ==
    /\ worker = "speaking" /\ ~flag /\ sentence.sent < Chunks
    /\ sentence' = [sentence EXCEPT !.sent = @ + 1]
    /\ voiced' = Append(voiced, <<sentence.n, sentence.sent + 1>>)
    /\ UNCHANGED <<llm, made, ttsQueue, worker, flag, fallback, shown, role, billed, stopped>>

(* _synthesize_with_fallback: the voice fails before the next chunk.  The fallback speaks
   the whole sentence again; without one, or if it fails too, the worker does. *)
VoiceFails ==
    /\ worker = "speaking" /\ sentence.sent < Chunks
    /\ IF MayFallBack /\ ~fallback
       THEN /\ fallback' = TRUE
            /\ sentence' = [sentence EXCEPT !.sent = 0]
            /\ UNCHANGED <<worker, stopped>>
       ELSE /\ worker' = "failed" /\ stopped' = TRUE
            /\ UNCHANGED <<fallback, sentence>>
    /\ UNCHANGED <<llm, made, ttsQueue, flag, shown, voiced, role, billed>>

(* The socket is closed. *)
SendFails ==
    /\ worker = "speaking"
    /\ worker' = "failed" /\ stopped' = TRUE
    /\ UNCHANGED <<llm, made, ttsQueue, sentence, flag, fallback, shown, voiced, role, billed>>

(* All chunks, or an interrupt at the next one: _log_tts_cost bills the whole sentence; a
   failing log is only a warning. *)
SentenceEnds ==
    /\ worker = "speaking"
    /\ sentence.sent = Chunks \/ flag
    /\ stopped' = (stopped \/ sentence.sent < Chunks)
    /\ worker' = "idle"
    /\ billed' \in {billed, Append(billed, sentence.n)}
    /\ UNCHANGED <<llm, made, ttsQueue, sentence, flag, fallback, shown, voiced, role>>

-------------------------------------------------------------------------------
WorkerStep == TakeSentence \/ SendChunk \/ VoiceFails \/ SentenceEnds
LlmStep == StreamEnds \/ JoinWorker

SpokenNext ==
    \/ Token \/ WaitToken \/ TurnRaises \/ ClientInterrupts \/ SendFails
    \/ WorkerStep \/ LlmStep

(* The event loop runs both tasks; the LLM's stream and the voice's chunks come to an end. *)
SpokenFairness == WF_spokenVars(WorkerStep) /\ WF_spokenVars(LlmStep)
SpokenSpec == SpokenInit /\ [][SpokenNext]_spokenVars /\ SpokenFairness

-------------------------------------------------------------------------------
(* "LLM is never blocked", and neither is the turn: every turn comes to an end, with no
   worker left behind, also when the worker has failed or was interrupted while the
   LLM went on. *)
TurnEnds == <>(TurnOver /\ worker \in {"done", "failed", "cancelled"})

(* The client reads what it hears: sentences are shown in order, none twice and none left
   out but blank ones, audio only of the sentence shown last; a turn that replied
   without an interrupt or a failure has shown and voiced the whole reply; and an
   interrupt of this turn does not silence the next. *)
HeardAsRead ==
    LET heard == {shown[k] : k \in DOMAIN shown}
        Readable(n) == (1..n) \ Blanks
    IN /\ \A i, j \in DOMAIN shown : i < j => shown[i] < shown[j]
       /\ \E n \in 0..made : heard = Readable(n)
       /\ \A i \in DOMAIN voiced : voiced[i][1] \in heard
       /\ \A i, j \in DOMAIN voiced : i < j => voiced[i][1] <= voiced[j][1]
       /\ llm = "replied" => /\ ~flag
                             /\ ~stopped => /\ heard = Readable(made)
                                            /\ \A n \in heard, c \in 1..Chunks :
                                                  \E i \in DOMAIN voiced : voiced[i] = <<n, c>>
       /\ llm = "waited" => shown = <<>> /\ role # "assistant"

-------------------------------------------------------------------------------
(* The turn as VoicePipeline takes it: a voice turn that holds the lock, on an answer of one
   utterance, while the other tasks wait. *)

Answer == [id |-> 1, kind |-> "full"]
Asked == [role |-> "user", text |-> <<Answer>>]
Answered == [role |-> "assistant", text |-> <<>>]

NoResponse == llm = "waited" \/ (llm = "replied" /\ made = 0)
Spoken == shown # <<>>

LlmPc ==
    CASE llm = "raised" -> "none"
      [] NoResponse -> "waited"
      [] llm = "replied" /\ ~NoResponse -> "replied"
      [] ~TurnOver -> IF Spoken THEN "speak" ELSE "gen"

Resting ==
    [run |-> "run", rx |-> "recv", reader |-> "run", consumer |-> "await", text |-> "get",
     monitor |-> "sleep"]

TurnPc ==
    [t \in {"run", "rx", "reader", "consumer", "llm", "text", "monitor"} |->
        IF t = "llm" THEN LlmPc
        ELSE IF llm # "raised" THEN Resting[t]
        ELSE IF t = "run" THEN "finalize" ELSE "dead"]

Pipeline == INSTANCE VoicePipeline WITH
    MaxUtt <- 1, MaxTyped <- 0, MaxInterrupts <- 0, VoiceKinds <- {"full"},
    Outcomes <- {"reply", "wait", "empty", "error"}, MaxWait <- 1, AudioCap <- 1,
    SttMayFail <- TRUE, ClientLeaves <- TRUE,
    pc <- TurnPc,
    lock <- IF TurnOver THEN "free" ELSE "llm",
    interrupted <- flag,
    state <- IF Spoken /\ llm # "replied" THEN "speaking" ELSE "processing",
    conversation <- CASE role = "user" -> <<Asked>>
                      [] role = "assistant" -> <<Asked, Answered>>
                      [] role = "earlier" -> <<>>,
    carry <- IF NoResponse THEN <<Answer>> ELSE <<>>,
    carrySet <- IF NoResponse THEN "fresh" ELSE "none",
    waitCount <- IF NoResponse THEN 1 ELSE 0,
    acc <- <<Answer>>, monText <- <<>>, retry <- FALSE, prompts <- 0, lowCount <- 0,
    rxItem <- [id |-> 0, kind |-> "none"], audio_in <- <<>>, text_in <- <<>>, final_queue <- <<>>,
    pendWords <- {}, savedWords <- {}, transcript <- <<>>, status <- "active", wsOpen <- TRUE,
    sent <- [utt |-> 1, typed |-> 0, interrupts |-> 0], received <- {Answer}

(* Opened, the turn does what VoicePipeline's Turn does in one step each: it begins to speak, and
   it ends with a reply, a [WAIT], an empty reply or an error; the client may interrupt, and
   nothing else that the tasks share changes. *)
ImplementsTurn == [][ClientInterrupts \/ Pipeline!Turn("llm")]_<<Pipeline!vars>>
=============================================================================
