--------------------------- MODULE LearningRuntime ---------------------------
(***************************************************************************)
(* The learning runtime, src/android/app/native/learning_runtime.c: the    *)
(* logical modes that the application sees, one of which, VALIDATE_SHADOW, *)
(* the store does not have.  Validating means scoring the predictions of a *)
(* frozen store in a table that is the runtime's own.                      *)
(*                                                                         *)
(* A call holds g_runtime_lock from its first line to its return and       *)
(* nothing else calls the store's mutators, so a call is one action.  Of   *)
(* the store only what the runtime can see is kept: whether it is open,    *)
(* its mode, its predictor, and that any call that flushes may fail and    *)
(* leave all three as they were: RuntimeOverStore, which has the file      *)
(* underneath, is about that.                                              *)
(***************************************************************************)
EXTENDS Predictor, FiniteSets, Functions

CONSTANTS RecoveredTables,   \* predictors that opening a file may replay
          MaxSequence,       \* bound: records the store takes
          MaxValidations     \* bound: observations of one validation

StoreModes == {"OFF", "OBSERVE", "LEARN_SHADOW", "PREDICT_SHADOW", "FROZEN"}
LogicalModes == StoreModes \cup {"VALIDATE_SHADOW"}

ASSUME RuntimeAssumption ==
  /\ RecoveredTables \subseteq Tables
  /\ MaxSequence \in Nat /\ MaxValidations \in Nat
  /\ Free \notin [ctx : Contexts, last : Nat, predictions : Nat, correct : Nat,
                  incorrect : Nat]

VARIABLES
  initialized, logicalMode,        \* g_runtime
  validation,                      \* g_runtime.validation
  score,                           \* the validation_* counters
  storeOpen, storeMode, predictor, nextSequence,  \* the store as seen from here
  underTest                        \* history: the predictor at the last reset
                                   \* of the validation table

storeVars == <<storeOpen, storeMode, predictor, nextSequence>>
scoreVars == <<validation, score, underTest>>
learningVars == <<initialized, logicalMode, validation, score, storeOpen,
                  storeMode, predictor, nextSequence, underTest>>

ValidationEntries == [ctx : Contexts, last : Nat, predictions : Nat,
                      correct : Nat, incorrect : Nat]
ValidationTables == [Sets -> [1 .. Ways -> ValidationEntries \cup {Free}]]
EmptyValidation == [s \in Sets |-> [w \in 1 .. Ways |-> Free]]
Scores == [observations : Nat, predictions : Nat, correct : Nat,
           incorrect : Nat, misses : Nat, contextsUsed : Nat]
ZeroScore == [observations |-> 0, predictions |-> 0, correct |-> 0,
              incorrect |-> 0, misses |-> 0, contextsUsed |-> 0]

(* reset_validation_locked.                                                *)
ResetValidation(model) ==
  validation' = EmptyValidation /\ score' = ZeroScore /\ underTest' = model

LearningInit ==
  /\ initialized = FALSE /\ logicalMode = "OFF"
  /\ validation = EmptyValidation /\ score = ZeroScore
  /\ storeOpen = FALSE /\ storeMode = "OFF" /\ predictor = EmptyTable
  /\ nextSequence = 0 /\ underTest = EmptyTable

(* rafaelia_learning_runtime_init: the store opens, replaying some log.    *)
Open ==
  /\ ~initialized
  /\ \E t \in RecoveredTables : predictor' = t /\ ResetValidation(t)
  /\ storeOpen' = TRUE /\ storeMode' = "OFF" /\ nextSequence' = 1
  /\ initialized' = TRUE /\ logicalMode' = "OFF"

(* The store does not open, or the NEON4096 probe fails and it is closed   *)
(* again: both are back at zero.                                           *)
ZeroBoth ==
  /\ initialized' = FALSE /\ logicalMode' = "OFF"
  /\ storeOpen' = FALSE /\ storeMode' = "OFF" /\ predictor' = EmptyTable
  /\ nextSequence' = 0 /\ ResetValidation(EmptyTable)

OpenFails == ~initialized /\ ZeroBoth

(* Faulty form: the score is only zeroed when the runtime was paused.      *)
EnterValidateResuming ==
  /\ initialized
  /\ storeMode' = "FROZEN" /\ logicalMode' = "VALIDATE_SHADOW"
  /\ IF logicalMode \in {"OFF", "FROZEN"} THEN ResetValidation(predictor)
                                          ELSE UNCHANGED scoreVars
  /\ UNCHANGED <<initialized, storeOpen, predictor, nextSequence>>

(* rafaelia_learning_runtime_set_mode(VALIDATE_SHADOW): flush, then freeze *)
(* the store; a validation that is under way goes on.                      *)
EnterValidate ==
  /\ initialized
  /\ storeMode' = "FROZEN" /\ logicalMode' = "VALIDATE_SHADOW"
  /\ IF logicalMode # "VALIDATE_SHADOW" THEN ResetValidation(predictor)
                                        ELSE UNCHANGED scoreVars
  /\ UNCHANGED <<initialized, storeOpen, predictor, nextSequence>>

(* ... and the other modes, which the store has under the same name.       *)
SetMode(m) ==
  /\ initialized /\ m \in StoreModes
  /\ storeMode' = m /\ logicalMode' = m
  /\ UNCHANGED <<initialized, storeOpen, predictor, nextSequence, scoreVars>>

(* Pausing flushes; when the flush fails the call does, and so does flush. *)
(* Neither changes anything that can be seen from here.                    *)
FlushOrFailedPause == initialized /\ UNCHANGED learningVars

(* rafaelia_learning_runtime_observe outside VALIDATE_SHADOW: the store's  *)
(* observe.  The store learns whether or not it has room for the record.   *)
ObserveInStore(c, k) ==
  /\ initialized /\ logicalMode \notin {"OFF", "FROZEN", "VALIDATE_SHADOW"}
  /\ storeMode \notin {"OFF", "FROZEN"}
  /\ nextSequence <= MaxSequence
  /\ predictor' = IF storeMode \in {"LEARN_SHADOW", "PREDICT_SHADOW"}
                  THEN Update(predictor, c, k, nextSequence) ELSE predictor
  /\ nextSequence' = nextSequence + 1
  /\ UNCHANGED <<initialized, logicalMode, storeOpen, storeMode, scoreVars>>

(* The ways of c's set that hold an entry of c: never two, since an entry  *)
(* is only made when there is none.                                        *)
WaysOf(c) ==
  LET row == validation[SetOf[c]] IN {w \in 1 .. Ways : row[w] # Free /\ row[w].ctx = c}

(* Faulty form: a direct-mapped table.                                     *)
ValidationWayFirst(c) == 1

(* validation_entry_locked: the way of c's entry, or the first free one, or *)
(* the one with the fewest predictions, then the oldest, then the first.   *)
ValidationWay(c) ==
  LET row  == validation[SetOf[c]]
      free == {w \in 1 .. Ways : row[w] = Free}
  IN  IF WaysOf(c) # {} THEN CHOOSE w \in WaysOf(c) : TRUE
      ELSE IF free # {} THEN FirstOf(free)
      ELSE CHOOSE w \in 1 .. Ways : \A v \in 1 .. Ways :
             \/ row[w].predictions < row[v].predictions
             \/ /\ row[w].predictions = row[v].predictions
                /\ \/ row[w].last < row[v].last
                   \/ row[w].last = row[v].last /\ w <= v

(* ... and the entry c has there before this observation is counted.       *)
ValidationEntry(c) ==
  IF WaysOf(c) # {} THEN validation[SetOf[c]][ValidationWay(c)]
  ELSE [ctx |-> c, last |-> 0, predictions |-> 0, correct |-> 0, incorrect |-> 0]

Bump(n) == IF n < CountMax THEN n + 1 ELSE n

(* rafaelia_learning_predict refuses in a store that is closed or in a mode *)
(* without predictions.                                                    *)
StorePredicts == storeOpen /\ storeMode \notin {"OFF", "OBSERVE"}

(* observe in VALIDATE_SHADOW when the store has a prediction to score.    *)
ScorePrediction(c, k) ==
  /\ initialized /\ logicalMode = "VALIDATE_SHADOW"
  /\ score.observations < MaxValidations
  /\ StorePredicts /\ Predictable(predictor, c)
  /\ LET right == Predict(predictor, c) = k
         n == score.observations + 1
         w == ValidationWay(c)
         e == ValidationEntry(c)
     IN  /\ score' = [score EXCEPT
              !.observations = n, !.predictions = @ + 1,
              !.correct   = IF right THEN @ + 1 ELSE @,
              !.incorrect = IF right THEN @ ELSE @ + 1,
              !.contextsUsed = IF validation[SetOf[c]][w] = Free THEN @ + 1 ELSE @]
         /\ validation' = [validation EXCEPT ![SetOf[c]][w] =
              [e EXCEPT !.last = n, !.predictions = Bump(@),
                        !.correct   = IF right THEN Bump(@) ELSE @,
                        !.incorrect = IF right THEN @ ELSE Bump(@)]]
  /\ UNCHANGED <<initialized, logicalMode, storeVars, underTest>>

(* ... when it has none, which is a miss, or refuses, which is counted as  *)
(* an observation and nothing else.                                        *)
ObserveUnscored(c) ==
  /\ initialized /\ logicalMode = "VALIDATE_SHADOW"
  /\ score.observations < MaxValidations
  /\ ~(StorePredicts /\ Predictable(predictor, c))
  /\ score' = [score EXCEPT !.observations = @ + 1,
                            !.misses = IF StorePredicts THEN @ + 1 ELSE @]
  /\ UNCHANGED <<initialized, logicalMode, storeVars, validation, underTest>>

(* rafaelia_learning_runtime_reset_volatile.                               *)
ResetVolatile ==
  /\ initialized /\ logicalMode \in {"OFF", "FROZEN"}
  /\ storeOpen /\ storeMode \in {"OFF", "FROZEN"}
  /\ predictor' = EmptyTable
  /\ ResetValidation(EmptyTable)
  /\ UNCHANGED <<initialized, logicalMode, storeOpen, storeMode, nextSequence>>

(* rafaelia_learning_runtime_close; the death of the process leaves the    *)
(* same.                                                                   *)
Close == initialized /\ ZeroBoth

Validating(c) == ObserveUnscored(c) \/ \E k \in Candidates : ScorePrediction(c, k)

LearningNext ==
  \/ Open \/ OpenFails \/ EnterValidate \/ FlushOrFailedPause
  \/ \E m \in StoreModes : SetMode(m)
  \/ \E c \in Contexts, k \in Candidates : ObserveInStore(c, k)
  \/ \E c \in Contexts : Validating(c)
  \/ ResetVolatile \/ Close

LearningSpec == LearningInit /\ [][LearningNext]_learningVars

-----------------------------------------------------------------------------
EntryAt(x) == validation[x[1]][x[2]]
Slots == {x \in Sets \X (1 .. Ways) : EntryAt(x) # Free}

Total(field) == SumFunctionOnSet([x \in Slots |-> EntryAt(x)[field]], Slots)

(* Every variable holds a value of its type.                               *)
TypeOK ==
  /\ initialized \in BOOLEAN /\ storeOpen \in BOOLEAN
  /\ logicalMode \in LogicalModes /\ storeMode \in StoreModes
  /\ validation \in ValidationTables /\ score \in Scores
  /\ predictor \in Tables /\ underTest \in Tables
  /\ nextSequence \in Nat

(* The logical mode names the store's mode, VALIDATE_SHADOW meaning        *)
(* FROZEN.  Here a call sets both in one step; RuntimeOverStore shows that *)
(* the calls it stands for leave them so, wherever the storage fails.      *)
ModesAgree ==
  /\ storeOpen = initialized
  /\ storeMode = IF logicalMode = "VALIDATE_SHADOW" THEN "FROZEN" ELSE logicalMode

(* Every validation observation is accounted for once: a correct or an     *)
(* incorrect prediction, or a miss.                                        *)
ScoreAddsUp ==
  /\ score.predictions = score.correct + score.incorrect
  /\ score.observations = score.predictions + score.misses

(* The per-context table holds the whole score, entry by entry: validation *)
(* never evicts, however many contexts it meets, because only contexts the *)
(* frozen predictor knows get an entry and the two tables have the same    *)
(* sets and ways.  Evicting would forget errors of a context that comes    *)
(* back.  (Stated below the saturation of the counts.)                     *)
NothingForgotten ==
  /\ score.contextsUsed = Cardinality(Slots)
  /\ \A x, y \in Slots : EntryAt(x).ctx = EntryAt(y).ctx => x = y
  /\ score.predictions < CountMax =>
       /\ Total("correct") = score.correct /\ Total("incorrect") = score.incorrect
       /\ Total("predictions") = score.predictions

(* Validation never trains: while the runtime validates, the predictor is  *)
(* the one that was there when the score was last zeroed.                  *)
ModelUnderTestIsFrozen == logicalMode = "VALIDATE_SHADOW" => predictor = underTest

=============================================================================
