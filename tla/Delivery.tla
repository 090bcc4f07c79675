------------------------------- MODULE Delivery -------------------------------
(***************************************************************************)
(* The delivery analysis (services/delivery/analyzer.py): pace, fillers,   *)
(* hesitation and a score, from the words' timestamps or, without them,    *)
(* from the turns of the transcript.  The candidate's speech is a sequence *)
(* of phrases; the words of a phrase follow each other without a pause.    *)
(* It is the speech of one voice connection: Deepgram's times start again  *)
(* at 0 with the next one, and the rows of both would interleave.          *)
(***************************************************************************)
EXTENDS Integers, FiniteSets, SequencesExt, FiniteSetsExt

CONSTANTS PhraseWords,       \* words of a phrase
          Pauses, Lengths,   \* milliseconds before a phrase and of a phrase
          Fillers,           \* filler words in a phrase
          Messages,          \* messages from the turn of the phrase before to its own
          MaxPhrases,
          NoScore

(* int() of seconds times 1000; a word is spoken for some time; a score is 50 or more. *)
ASSUME DeliveryAssumption ==
    /\ PhraseWords \in Nat \ {0}
    /\ Pauses \subseteq Nat /\ Lengths \subseteq Nat \ {0}
    /\ Fillers \subseteq Nat /\ Messages \subseteq Nat
    /\ NoScore \notin 50..100

VARIABLE speech              \* phrases: pause, length, fillers and place in the conversation

(* A phrase said within the debounce joins the turn of the one before: no message between. *)
Phrase == [pause : Pauses, length : Lengths, fillers : Fillers, messages : Messages]

SumOver(f) == MapThenSumSet(LAMBDA i : f[i], DOMAIN f)

-------------------------------------------------------------------------------
(* TranscriptWord rows in order of start_ms: the phrases as intervals. *)

StartOf(s, i) == SumOver([j \in 1..i |-> s[j].pause]) + SumOver([j \in 1..i - 1 |-> s[j].length])
EndOf(s, i) == StartOf(s, i) + s[i].length

(* ts_ms of the turn that a phrase belongs to: the index of its message, times 1000. *)
TurnTime(s, i) == 1000 * SumOver([j \in 1..i |-> s[j].messages])

TotalWords(s) == PhraseWords * Len(s)

(* _count_fillers: whole words of the lists, by category; only their number matters here. *)
FillerCount(s) == SumOver([i \in DOMAIN s |-> s[i].fillers])

(* round(words / max(duration, 1 s) * 60, 1), in tenths *)
Pace(words, ms) == (2 * 600000 * words + Max({ms, 1000})) \div (2 * Max({ms, 1000}))

\* mutant: gaps run from the start of the word before
WordGaps_FromStart(s) ==
    {[start |-> StartOf(s, i - 1), end |-> StartOf(s, i)] :
        i \in {k \in 2..Len(s) : StartOf(s, k) - StartOf(s, k - 1) >= 1500}}

(* The gaps of _analyze_from_word_timestamps, 1.5 s or more, and those of _analyze_from_turns,
   10 s or more from one turn's ts_ms to the next one's. *)
WordGaps(s) ==
    {[start |-> EndOf(s, i - 1), end |-> StartOf(s, i)] :
        i \in {k \in 2..Len(s) : StartOf(s, k) - EndOf(s, k - 1) >= 1500}}

TurnGaps(s) ==
    {[start |-> TurnTime(s, i - 1), end |-> TurnTime(s, i)] :
        i \in {k \in 2..Len(s) : TurnTime(s, k) - TurnTime(s, k - 1) >= 10000}}

LongPauses(gaps) == Cardinality({g \in gaps : g.end - g.start >= 3000})

-------------------------------------------------------------------------------
(* _score_delivery; the rate is fillers / words. *)

FillerPenalty(fillers, words) ==
    IF 10 * fillers > words THEN 25
    ELSE IF 20 * fillers > words THEN 12
    ELSE IF 50 * fillers > words THEN 4 ELSE 0

PacePenalty(pace) == IF pace < 1100 THEN 10 ELSE IF pace > 1800 THEN 8 ELSE 0

PausePenalty(pauses, timestamps) ==
    IF timestamps /\ pauses > 3 THEN Min({3 * pauses, 15}) ELSE 0

ScoreDelivery(fillers, words, pace, pauses, timestamps) ==
    Max({0, 100 - FillerPenalty(fillers, words) - PacePenalty(pace)
                - PausePenalty(pauses, timestamps)})

Grade(score) ==
    CASE score >= 90 -> "Excellent"
      [] score \in 75..89 -> "Good"
      [] score \in 60..74 -> "Fair"
      [] OTHER -> "Needs Work"

(* _build_result; _empty_analysis without words. *)
Result(s, pace, gaps, timestamps) ==
    IF s = <<>>
    THEN [score |-> NoScore, grade |-> "No data", gaps |-> {}, pauses |-> 0]
    ELSE LET score == ScoreDelivery(FillerCount(s), TotalWords(s), pace, LongPauses(gaps),
                                    timestamps)
         IN [score |-> score, grade |-> Grade(score), gaps |-> gaps,
             pauses |-> LongPauses(gaps)]

FromWords(s) ==
    Result(s, IF s = <<>> THEN 0 ELSE Pace(TotalWords(s), EndOf(s, Len(s)) - StartOf(s, 1)),
           WordGaps(s), TRUE)

(* From the first to the last turn's ts_ms and five seconds more; of one turn, 2.5 words a
   second. *)
TurnDuration(s) ==
    LET span == TurnTime(s, Len(s)) - TurnTime(s, 1) IN
    IF span > 0 THEN span + 5000 ELSE 400 * TotalWords(s)

FromTurns(s) ==
    Result(s, IF s = <<>> THEN 0 ELSE Pace(TotalWords(s), TurnDuration(s)), TurnGaps(s), FALSE)

(* analyze_delivery: words that have not expired come first. *)
Analyze(s, kept) == IF kept /\ s # <<>> THEN FromWords(s) ELSE FromTurns(s)

-------------------------------------------------------------------------------
DeliveryInit == speech = <<>>

(* The candidate goes on. *)
Speak(phrase) ==
    /\ Len(speech) < MaxPhrases
    /\ speech' = Append(speech, phrase)

DeliveryNext == \E phrase \in Phrase : Speak(phrase)
DeliverySpec == DeliveryInit /\ [][DeliveryNext]_speech

-------------------------------------------------------------------------------
(* The gaps are the silences of 1.5 seconds or more between two words. *)
GapsAreSilences ==
    LET starts == [i \in DOMAIN speech |-> StartOf(speech, i)]
        ends == [i \in DOMAIN speech |-> EndOf(speech, i)]
        silences == {[start |-> ends[i], end |-> starts[j]] : i, j \in DOMAIN speech}
    IN WordGaps(speech) =
          {g \in silences :
              /\ g.end - g.start >= 1500
              /\ ~ \E i \in DOMAIN speech : starts[i] <= g.start /\ g.start < ends[i]
              /\ \A i \in DOMAIN speech : ~(starts[i] \in g.start..(g.end - 1))}

(* A score exists when there are words, is never lower without the fillers, and has its grade. *)
ScoreFollowsSpeech ==
    LET Clean(s) == [i \in DOMAIN s |-> [s[i] EXCEPT !.fillers = 0]] IN
    \A kept \in BOOLEAN : LET said == Analyze(speech, kept) IN
       /\ said.score = NoScore <=> speech = <<>>
       /\ speech # <<>> => /\ said.score \in 50..100
                           /\ said.grade = "Excellent" <=> said.score >= 90
                           /\ said.score <= Analyze(Clean(speech), kept).score

(* The analysis is fair to the speech of one connection: with timestamps its gaps are silences;
   on both paths its score follows what was said and the path cannot take more off it than its
   penalties together, so a report without timestamps is never lower for pauses. *)
DeliveryFair ==
    /\ GapsAreSilences
    /\ ScoreFollowsSpeech
    /\ speech # <<>> => /\ FromTurns(speech).score >= 65
                        /\ FromWords(speech).pauses <= 3 => FromWords(speech).score >= 65

===============================================================================
