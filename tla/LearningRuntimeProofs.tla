------------------------ MODULE LearningRuntimeProofs ------------------------
(***************************************************************************)
(* The runtime above the store: the two mode variables agree, the score    *)
(* adds up, the model under validation is frozen and its table loses no    *)
(* entry, for every number of contexts, candidates and observations and    *)
(* every recovered predictor.                                              *)
(* Beside it the ratio in which the score is reported: exact for every     *)
(* word width, every scale and every argument.                             *)
(***************************************************************************)
EXTENDS LearningRuntime, L0Ratio, PredictorProofs, DataLemmas

(* ScoreAddsUp needs ModesAgree: an observation that the store refuses to  *)
(* predict for would be counted and not be a miss.                         *)
IInv == TypeOK /\ ModesAgree /\ ScoreAddsUp /\ ModelUnderTestIsFrozen

LEMMA Zeroes == /\ EmptyTable \in Tables
                /\ EmptyValidation \in ValidationTables
                /\ ZeroScore \in Scores
                /\ ZeroScore.predictions = ZeroScore.correct + ZeroScore.incorrect
                /\ ZeroScore.observations = ZeroScore.predictions + ZeroScore.misses
  BY DEF EmptyTable, Tables, EmptyValidation, ZeroScore, Scores, ValidationTables

(* The entry an observation goes to has the type of an entry, found or new.*)
LEMMA ValidationEntryType ==
  ASSUME TypeOK, NEW c \in Contexts
  PROVE  ValidationEntry(c) \in ValidationEntries
<1>1. CASE WaysOf(c) = {}
  BY <1>1 DEF ValidationEntry, ValidationEntries
<1>2. CASE WaysOf(c) # {}
  <2> DEFINE w == CHOOSE x \in WaysOf(c) : TRUE
  <2>1. w \in WaysOf(c)
    BY <1>2
  <2>2. w \in 1 .. Ways /\ validation[SetOf[c]][w] # Free
    BY <2>1 DEF WaysOf
  <2>3. ValidationEntry(c) = validation[SetOf[c]][w]
    BY <1>2 DEF ValidationEntry, ValidationWay
  <2> HIDE DEF w
  <2> QED BY <2>2, <2>3, PredictorAssumption DEF TypeOK, ValidationTables
<1> QED BY <1>1, <1>2

LEMMA InitIInv == LearningInit => IInv
<1> SUFFICES ASSUME LearningInit PROVE IInv
  OBVIOUS
<1>1. TypeOK
  BY Zeroes DEF LearningInit, TypeOK, LogicalModes, StoreModes
<1>2. ModesAgree
  BY DEF LearningInit, ModesAgree
<1>3. ScoreAddsUp /\ ModelUnderTestIsFrozen
  BY Zeroes DEF LearningInit, ScoreAddsUp, ModelUnderTestIsFrozen
<1> QED BY <1>1, <1>2, <1>3 DEF IInv

(* A scored prediction raises predictions, and exactly one of correct and  *)
(* incorrect with it.                                                      *)
LEMMA ScorePredictionIInv ==
  ASSUME IInv, NEW c \in Contexts, NEW k \in Candidates, ScorePrediction(c, k)
  PROVE  IInv'
<1> DEFINE right == Predict(predictor, c) = k
           n == score.observations + 1
           w == ValidationWay(c)
           e == ValidationEntry(c)
           e2 == [e EXCEPT !.last = n, !.predictions = Bump(@),
                           !.correct   = IF right THEN Bump(@) ELSE @,
                           !.incorrect = IF right THEN @ ELSE Bump(@)]
<1>1. score \in Scores /\ n \in Nat
  BY DEF IInv, TypeOK, Scores
<1>2. e2 \in ValidationEntries
  <2>1. e \in ValidationEntries
    BY ValidationEntryType DEF IInv
  <2> HIDE DEF e
  <2>2. \A m \in Nat : Bump(m) \in Nat
    BY PredictorAssumption DEF Bump
  <2> DEFINE right2 == right
             a == Bump(e.predictions)
             b == IF right THEN Bump(e.correct) ELSE e.correct
             d == IF right THEN e.incorrect ELSE Bump(e.incorrect)
  <2>3. a \in Nat /\ b \in Nat /\ d \in Nat
    BY <2>1, <2>2 DEF ValidationEntries
  <2>4. e2 = [e EXCEPT !.last = n, !.predictions = a, !.correct = b, !.incorrect = d]
    BY <2>1 DEF ValidationEntries
  <2> HIDE DEF a, b, d, e2, n
  <2> QED BY <1>1, <2>1, <2>3, <2>4 DEF ValidationEntries
<1> HIDE DEF e2
<1>3. validation' = [validation EXCEPT ![SetOf[c]][w] = e2]
  BY DEF ScorePrediction, e2
<1> HIDE DEF w
<1>4. validation' \in ValidationTables
  BY <1>2, <1>3, PredictorAssumption DEF IInv, TypeOK, ValidationTables
<1>5. /\ score' \in Scores
      /\ score'.predictions = score.predictions + 1
      /\ score'.observations = score.observations + 1
      /\ score'.misses = score.misses
      /\ score'.correct + score'.incorrect = score.correct + score.incorrect + 1
  <2> DEFINE p == score.predictions + 1
             a == IF right THEN score.correct + 1 ELSE score.correct
             b == IF right THEN score.incorrect ELSE score.incorrect + 1
             u == IF validation[SetOf[c]][w] = Free THEN score.contextsUsed + 1
                                                    ELSE score.contextsUsed
  <2>1. score' = [score EXCEPT !.observations = n, !.predictions = p, !.correct = a,
                               !.incorrect = b, !.contextsUsed = u]
    BY DEF ScorePrediction, w
  <2>2. a \in Nat /\ b \in Nat /\ u \in Nat /\ p \in Nat
    BY <1>1 DEF Scores
  <2>3. a + b = score.correct + score.incorrect + 1
    BY <1>1 DEF Scores
  <2> HIDE DEF a, b, u, p, n
  <2>4. /\ score' \in Scores
        /\ score'.predictions = p /\ score'.observations = n
        /\ score'.misses = score.misses
        /\ score'.correct = a /\ score'.incorrect = b
    BY <1>1, <2>1, <2>2 DEF Scores
  <2> QED BY <2>3, <2>4 DEF p, n
<1> HIDE DEF n
<1>6. ScoreAddsUp'
  BY <1>1, <1>5 DEF IInv, ScoreAddsUp, Scores
<1> QED BY <1>4, <1>5, <1>6 DEF IInv, TypeOK, ModesAgree,
        ModelUnderTestIsFrozen, ScorePrediction, storeVars

LEMMA ObserveUnscoredIInv ==
  ASSUME IInv, NEW c \in Contexts, ObserveUnscored(c)
  PROVE  IInv'
<1>1. score \in Scores
  BY DEF IInv, TypeOK, Scores
<1>2. StorePredicts
  BY DEF IInv, ModesAgree, ObserveUnscored, StorePredicts
<1>3. /\ score' \in Scores
      /\ score'.predictions = score.predictions
      /\ score'.observations = score.observations + 1
      /\ score'.misses = score.misses + 1
      /\ score'.correct = score.correct /\ score'.incorrect = score.incorrect
  <2> DEFINE n == score.observations + 1
             m == score.misses + 1
  <2>1. score' = [score EXCEPT !.observations = n, !.misses = m]
    BY <1>2 DEF ObserveUnscored
  <2>2. n \in Nat /\ m \in Nat
    BY <1>1 DEF Scores
  <2> HIDE DEF n, m
  <2>3. /\ score' \in Scores
        /\ score'.observations = n /\ score'.misses = m
        /\ score'.predictions = score.predictions
        /\ score'.correct = score.correct /\ score'.incorrect = score.incorrect
    BY <1>1, <2>1, <2>2 DEF Scores
  <2> QED BY <2>3 DEF n, m
<1>4. ScoreAddsUp'
  BY <1>1, <1>3 DEF IInv, ScoreAddsUp, Scores
<1> QED BY <1>3, <1>4 DEF IInv, TypeOK, ModesAgree,
        ModelUnderTestIsFrozen, ObserveUnscored, storeVars

LEMMA ResetIInv ==
  ASSUME IInv, ResetVolatile \/ ZeroBoth \/ Open
  PROVE  IInv'
<1> USE Zeroes DEF IInv, TypeOK, ModesAgree, ScoreAddsUp, ModelUnderTestIsFrozen,
        ResetValidation, LogicalModes, StoreModes
<1>1. CASE ResetVolatile
  BY <1>1 DEF ResetVolatile
<1>2. CASE ZeroBoth
  BY <1>2 DEF ZeroBoth
<1>3. CASE Open
  BY <1>3, RuntimeAssumption DEF Open
<1> QED BY <1>1, <1>2, <1>3

LEMMA NextIInv == IInv /\ [LearningNext]_learningVars => IInv'
<1> SUFFICES ASSUME IInv, [LearningNext]_learningVars PROVE IInv'
  OBVIOUS
<1>1. CASE Open \/ OpenFails \/ ResetVolatile \/ Close
  BY <1>1, ResetIInv DEF OpenFails, Close
<1>2. CASE EnterValidate
  BY <1>2, Zeroes DEF EnterValidate, IInv, TypeOK, ModesAgree, ScoreAddsUp,
     ModelUnderTestIsFrozen, ResetValidation, scoreVars, LogicalModes, StoreModes
<1>3. CASE FlushOrFailedPause \/ UNCHANGED learningVars
  BY <1>3 DEF FlushOrFailedPause, learningVars, IInv, TypeOK, ModesAgree, ScoreAddsUp,
     ModelUnderTestIsFrozen
<1>4. ASSUME NEW m \in StoreModes, SetMode(m) PROVE IInv'
  BY <1>4 DEF SetMode, scoreVars, IInv, TypeOK, ModesAgree, ScoreAddsUp,
     ModelUnderTestIsFrozen, LogicalModes, StoreModes
<1>5. ASSUME NEW c \in Contexts, NEW k \in Candidates, ObserveInStore(c, k) PROVE IInv'
  <2>1. predictor' \in Tables
    BY <1>5, UpdateType DEF ObserveInStore, IInv, TypeOK
  <2> QED BY <1>5, <2>1 DEF ObserveInStore, scoreVars, IInv, TypeOK, ModesAgree,
          ScoreAddsUp, ModelUnderTestIsFrozen
<1>6. ASSUME NEW c \in Contexts, Validating(c) PROVE IInv'
  BY <1>6, ScorePredictionIInv, ObserveUnscoredIInv DEF Validating
<1> QED BY <1>1, <1>2, <1>3, <1>4, <1>5, <1>6 DEF LearningNext

-----------------------------------------------------------------------------
THEOREM Inductive == LearningSpec => []IInv
  BY InitIInv, NextIInv, PTL DEF LearningSpec

(* Every variable of the runtime keeps its type.                           *)
THEOREM TypeCorrect == LearningSpec => []TypeOK
<1>1. IInv => TypeOK
  BY DEF IInv
<1> QED BY <1>1, Inductive, PTL

(* Every observation made while validating is counted exactly once.        *)
THEOREM ScoreIsComplete == LearningSpec => []ScoreAddsUp
<1>1. IInv => ScoreAddsUp
  BY DEF IInv
<1> QED BY <1>1, Inductive, PTL

(* The predictor a validation scores is the one it started with.           *)
THEOREM ValidationNeverTrains == LearningSpec => []ModelUnderTestIsFrozen
<1>1. IInv => ModelUnderTestIsFrozen
  BY DEF IInv
<1> QED BY <1>1, Inductive, PTL

-----------------------------------------------------------------------------
(***************************************************************************)
(* The table of a validation holds the whole score.                        *)
(* The argument: an entry is only made for a context that the model under  *)
(* test can predict, which has an entry of its own in the model's set, and *)
(* the model does not change; so a set of the validation table cannot be   *)
(* full of other contexts when one comes that has no entry yet.            *)
(***************************************************************************)
AllSlots == Sets \X (1 .. Ways)

(* An entry is in its context's set, and the model under test knows it.    *)
EntriesAreTested ==
  \A x \in Slots : /\ EntryAt(x).ctx \in Contexts /\ SetOf[EntryAt(x).ctx] = x[1]
                   /\ Predictable(underTest, EntryAt(x).ctx)

ValidationInv == EntriesAreTested /\ IsFiniteSet(Slots) /\ NothingForgotten

LEMMA EmptyHoldsAll == validation = EmptyValidation /\ score = ZeroScore => ValidationInv
<1> SUFFICES ASSUME validation = EmptyValidation, score = ZeroScore PROVE ValidationInv
  OBVIOUS
<1>1. Slots = {}
  BY DEF Slots, EntryAt, EmptyValidation
<1>2. IsFiniteSet({}) /\ Cardinality({}) = 0
  BY FS_EmptySet
<1>3. \A field : Total(field) = 0
  BY <1>1, SumOfNone DEF Total
<1>4. score.contextsUsed = 0 /\ score.correct = 0 /\ score.incorrect = 0 /\ score.predictions = 0
  BY DEF ZeroScore
<1>5. NothingForgotten
  BY <1>1, <1>2, <1>3, <1>4 DEF NothingForgotten
<1> QED BY <1>1, <1>2, <1>5 DEF ValidationInv, EntriesAreTested

LEMMA ValidationStart == LearningInit => ValidationInv
BY EmptyHoldsAll DEF LearningInit

LEMMA ResetHoldsAll ==
  ASSUME NEW model, ResetValidation(model)
  PROVE  ValidationInv'
<1>1. validation' = EmptyValidation /\ score' = ZeroScore
  BY DEF ResetValidation
<1>2. (validation = EmptyValidation /\ score = ZeroScore => ValidationInv)'
  BY EmptyHoldsAll, PTL
<1> QED BY <1>1, <1>2 DEF EmptyValidation, ZeroScore

LEMMA ScoreMoves ==
  ASSUME ValidationInv, UNCHANGED <<validation, underTest>>,
         score'.contextsUsed = score.contextsUsed, score'.predictions = score.predictions,
         score'.correct = score.correct, score'.incorrect = score.incorrect
  PROVE  ValidationInv'
<1>1. Slots' = Slots /\ \A x : EntryAt(x)' = EntryAt(x)
  BY DEF Slots, EntryAt
<1>2. Total("correct")' = Total("correct") /\ Total("incorrect")' = Total("incorrect")
      /\ Total("predictions")' = Total("predictions")
  BY <1>1 DEF Total
<1> QED BY <1>1, <1>2 DEF ValidationInv, NothingForgotten, EntriesAreTested

(* A full set of the validation table holds every context of this set that *)
(* the model under test knows.                                             *)
LEMMA SetsHaveRoom ==
  ASSUME TypeOK, ValidationInv, NEW c \in Contexts, Predictable(underTest, c), WaysOf(c) = {}
  PROVE  \E w \in 1 .. Ways : validation[SetOf[c]][w] = Free
<1> SUFFICES ASSUME \A w \in 1 .. Ways : validation[SetOf[c]][w] # Free PROVE FALSE
  OBVIOUS
<1> DEFINE s == SetOf[c]
           Of(i) == IF i = 0 THEN c ELSE validation[s][i].ctx
           f == [i \in 0 .. Ways |-> CHOOSE w \in 1 .. Ways : underTest[s][w].ctx = Of(i)]
<1>1. s \in Sets /\ Ways \in Nat
  BY PredictorAssumption
<1>2. ASSUME NEW i \in 1 .. Ways
      PROVE  /\ <<s, i>> \in Slots /\ EntryAt(<<s, i>>) = validation[s][i]
             /\ Of(i) \in Contexts /\ SetOf[Of(i)] = s /\ Predictable(underTest, Of(i))
             /\ Of(i) # c
  <2>1. <<s, i>> \in Slots /\ EntryAt(<<s, i>>) = validation[s][i]
    BY <1>1, <1>2 DEF Slots, EntryAt
  <2>2. Of(i) = validation[s][i].ctx
    BY <1>2
  <2>3. Of(i) # c
    BY <1>2, <2>2 DEF WaysOf
  <2> QED BY <2>1, <2>2, <2>3 DEF ValidationInv, EntriesAreTested
<1>3. ASSUME NEW i \in 0 .. Ways PROVE \E w \in 1 .. Ways : underTest[s][w].ctx = Of(i)
  <2>1. Predictable(underTest, Of(i)) /\ SetOf[Of(i)] = s
    <3>1. CASE i = 0
      BY <3>1
    <3>2. CASE i # 0
      <4>1. i \in 1 .. Ways
        BY <1>1, <3>2
      <4> QED BY <1>2, <4>1
    <3> QED BY <3>1, <3>2
  <2> HIDE DEF Of
  <2> QED BY <2>1 DEF Predictable, Matching
<1>4. \A i \in 0 .. Ways : f[i] \in 1 .. Ways /\ underTest[s][f[i]].ctx = Of(i)
  <2> HIDE DEF Of, s
  <2> QED BY <1>3
<1>5. \E i, j \in 0 .. Ways : i # j /\ f[i] = f[j]
  <2>1. f \in [0 .. Ways -> 1 .. Ways]
    <3>1. \A i \in 0 .. Ways : f[i] \in 1 .. Ways
      BY <1>4
    <3> HIDE DEF Of
    <3> QED BY <3>1
  <2>2. /\ IsFiniteSet(0 .. Ways) /\ Cardinality(0 .. Ways) = Ways + 1
        /\ IsFiniteSet(1 .. Ways) /\ Cardinality(1 .. Ways) = Ways
    <3>1. 0 \in Int /\ 1 \in Int /\ Ways \in Int /\ 0 <= Ways /\ (1 > Ways => Ways = 0)
          /\ Ways - 0 + 1 = Ways + 1 /\ Ways - 1 + 1 = Ways
      BY <1>1
    <3>2. IsFiniteSet(0 .. Ways) /\ IsFiniteSet(1 .. Ways)
      BY <3>1, FS_Interval
    <3>3. Cardinality(0 .. Ways) = (IF 0 > Ways THEN 0 ELSE Ways - 0 + 1)
      BY <3>1, FS_Interval
    <3>4. Cardinality(1 .. Ways) = (IF 1 > Ways THEN 0 ELSE Ways - 1 + 1)
      BY <3>1, FS_Interval
    <3> QED BY <1>1, <3>1, <3>2, <3>3, <3>4
  <2> DEFINE D == 0 .. Ways
             T == 1 .. Ways
  <2>3. Cardinality(T) < Cardinality(D)
    BY <1>1, <2>2
  <2>4. f \in [D -> T] /\ IsFiniteSet(D) /\ IsFiniteSet(T)
    BY <2>1, <2>2
  <2> HIDE DEF f, D, T
  <2>5. \E i, j \in D : i # j /\ f[i] = f[j]
    BY <2>3, <2>4, FS_PigeonHole
  <2> QED BY <2>5 DEF D
<1>6. PICK i \in 0 .. Ways, j \in 0 .. Ways : i # j /\ f[i] = f[j]
  BY <1>5
<1>7. Of(i) = Of(j)
  <2> HIDE DEF f, Of
  <2> QED BY <1>4, <1>6
<1>8. CASE i = 0 \/ j = 0
  <2>1. PICK k \in 1 .. Ways : Of(k) = c
    BY <1>1, <1>6, <1>7, <1>8
  <2> HIDE DEF Of
  <2> QED BY <1>2, <2>1
<1>9. CASE i # 0 /\ j # 0
  <2>1. i \in 1 .. Ways /\ j \in 1 .. Ways
    BY <1>1, <1>9
  <2>2. EntryAt(<<s, i>>).ctx = EntryAt(<<s, j>>).ctx /\ <<s, i>> \in Slots /\ <<s, j>> \in Slots
    BY <1>2, <1>7, <2>1
  <2>3. <<s, i>> = <<s, j>>
    BY <2>2 DEF ValidationInv, NothingForgotten
  <2> QED BY <1>6, <2>3
<1> QED BY <1>8, <1>9

LEMMA SlotsAreEntries ==
  ASSUME TypeOK, NEW x \in Slots
  PROVE  /\ x \in AllSlots /\ x[1] \in Sets /\ x[2] \in 1 .. Ways
         /\ EntryAt(x) \in ValidationEntries
<1>1. x \in Sets \X (1 .. Ways) /\ EntryAt(x) # Free
  BY DEF Slots
<1>2. x[1] \in Sets /\ x[2] \in 1 .. Ways
  BY <1>1
<1>3. validation \in [Sets -> [1 .. Ways -> ValidationEntries \cup {Free}]]
  BY DEF TypeOK, ValidationTables
<1>4. validation[x[1]] \in [1 .. Ways -> ValidationEntries \cup {Free}]
  BY <1>2, <1>3
<1>5. validation[x[1]][x[2]] \in ValidationEntries \cup {Free}
  BY <1>2, <1>4
<1> QED BY <1>1, <1>2, <1>5 DEF EntryAt, AllSlots

(* One slot's field grows by d, in an entry that was there or is made.     *)
LEMMA TotalMoves ==
  ASSUME TypeOK, ValidationInv, NEW x \in AllSlots, Slots' = Slots \cup {x},
         \A y \in Slots \ {x} : EntryAt(y)' = EntryAt(y),
         NEW field \in {"predictions", "correct", "incorrect"}, NEW d \in Nat,
         EntryAt(x)'[field] = (IF x \in Slots THEN EntryAt(x)[field] ELSE 0) + d
  PROVE  Total(field)' = Total(field) + d
<1> DEFINE f == [y \in Slots |-> EntryAt(y)[field]]
           g == [y \in Slots' |-> EntryAt(y)'[field]]
<1>1. Total(field) = SumFunctionOnSet(f, Slots) /\ Total(field)' = SumFunctionOnSet(g, Slots')
  BY DEF Total
<1>2. IsFiniteSet(Slots)
  BY DEF ValidationInv
<1>3. ASSUME NEW y \in Slots PROVE f[y] \in Nat
  <2>1. EntryAt(y) \in ValidationEntries
    BY <1>3, SlotsAreEntries
  <2>2. EntryAt(y)[field] \in Nat
    BY <2>1 DEF ValidationEntries
  <2> QED BY <2>2
<1>4. \A y \in Slots \ {x} : g[y] = f[y]
  OBVIOUS
<1>5. g[x] = EntryAt(x)'[field] /\ (x \in Slots => f[x] = EntryAt(x)[field])
  OBVIOUS
<1> HIDE DEF f, g
<1>6. CASE x \in Slots
  <2>1. Slots' = Slots
    BY <1>6
  <2>2. d \in Int /\ g[x] = f[x] + d /\ \A y \in Slots : f[y] \in Int
    BY <1>3, <1>5, <1>6
  <2>3. SumFunctionOnSet(g, Slots) = SumFunctionOnSet(f, Slots) + d
    BY <1>2, <1>4, <1>6, <2>2, SumChanges
  <2> QED BY <1>1, <2>1, <2>3
<1>7. CASE x \notin Slots
  <2>1. g[x] = d /\ d \in Int /\ \A y \in Slots : f[y] \in Int /\ g[y] = f[y]
    BY <1>3, <1>4, <1>5, <1>7
  <2>2. SumFunctionOnSet(g, Slots \cup {x}) = SumFunctionOnSet(f, Slots) + g[x]
    BY <1>2, <1>7, <2>1, SumGrows
  <2> QED BY <1>1, <2>1, <2>2
<1> QED BY <1>6, <1>7

(* No entry's field exceeds the field's total.                             *)
LEMMA TotalBounds ==
  ASSUME TypeOK, ValidationInv, NEW x \in Slots,
         NEW field \in {"predictions", "correct", "incorrect"}
  PROVE  EntryAt(x)[field] \in Nat /\ EntryAt(x)[field] <= Total(field)
<1> DEFINE f == [y \in Slots |-> EntryAt(y)[field]]
<1>1. Total(field) = SumFunctionOnSet(f, Slots)
  BY DEF Total
<1>2. IsFiniteSet(Slots)
  BY DEF ValidationInv
<1>3. ASSUME NEW y \in Slots PROVE f[y] \in Nat
  <2>1. EntryAt(y) \in ValidationEntries
    BY <1>3, SlotsAreEntries
  <2>2. EntryAt(y)[field] \in Nat
    BY <2>1 DEF ValidationEntries
  <2> QED BY <2>2
<1>4. f[x] = EntryAt(x)[field]
  OBVIOUS
<1> HIDE DEF f
<1>5. f[x] <= SumFunctionOnSet(f, Slots)
  BY <1>2, <1>3, SumIsNat
<1> QED BY <1>1, <1>3, <1>4, <1>5

WithEntry(s, w, new) == [validation EXCEPT ![s][w] = new]

LEMMA ScoredInOneSlot ==
  ASSUME TypeOK, NEW c \in Contexts, NEW w \in 1 .. Ways, w = ValidationWay(c),
         WaysOf(c) # {} => w \in WaysOf(c),
         NEW new \in ValidationEntries,
         validation' = WithEntry(SetOf[c], w, new),
         NEW x, x = <<SetOf[c], w>>
  PROVE  /\ x \in AllSlots /\ Slots' = Slots \cup {x}
         /\ \A y \in AllSlots \ {x} : EntryAt(y)' = EntryAt(y)
         /\ EntryAt(x)' = new
         /\ ValidationEntry(c) \in ValidationEntries /\ ValidationEntry(c).ctx = c
         /\ WaysOf(c) # {} => ValidationEntry(c) = EntryAt(x) /\ x \in Slots
<1> DEFINE s == SetOf[c]
           e == ValidationEntry(c)
<1>1. s \in Sets /\ x \in AllSlots /\ x[1] = s /\ x[2] = w /\ x = <<s, w>>
  BY PredictorAssumption DEF AllSlots
<1>2. validation \in [Sets -> [1 .. Ways -> ValidationEntries \cup {Free}]]
  BY DEF TypeOK, ValidationTables
<1>3. WaysOf(c) # {} => e = EntryAt(x) /\ x \in Slots /\ EntryAt(x).ctx = c
  <2> SUFFICES ASSUME WaysOf(c) # {} PROVE e = EntryAt(x) /\ x \in Slots /\ EntryAt(x).ctx = c
    OBVIOUS
  <2>1. e = validation[s][w]
    BY DEF ValidationEntry
  <2>2. w \in WaysOf(c)
    OBVIOUS
  <2>3. validation[s][w] # Free /\ validation[s][w].ctx = c
    BY <2>2 DEF WaysOf
  <2>4. EntryAt(x) = validation[s][w]
    BY <1>1 DEF EntryAt
  <2> HIDE DEF e
  <2> QED BY <1>1, <2>1, <2>3, <2>4 DEF Slots, AllSlots
<1>4. e \in ValidationEntries /\ e.ctx = c
  <2>1. CASE WaysOf(c) # {}
    BY <1>3, <2>1, SlotsAreEntries
  <2>2. CASE WaysOf(c) = {}
    BY <2>2 DEF ValidationEntry, ValidationEntries
  <2> QED BY <2>1, <2>2
<1>6. new # Free
  BY RuntimeAssumption DEF ValidationEntries
<1>7. validation' = [validation EXCEPT ![s][w] = new]
  BY DEF WithEntry
<1> HIDE DEF e, s
<1> DEFINE row == [validation[s] EXCEPT ![w] = new]
<1>8. validation'[s] = row /\ row[w] = new /\ \A v \in (1 .. Ways) \ {w} : row[v] = validation[s][v]
  <2>1. validation[s] \in [1 .. Ways -> ValidationEntries \cup {Free}]
    BY <1>1, <1>2
  <2>2. row[w] = new /\ \A v \in (1 .. Ways) \ {w} : row[v] = validation[s][v]
    BY <2>1
  <2>3. validation' = [validation EXCEPT ![s] = row]
    BY <1>7
  <2> HIDE DEF row
  <2> QED BY <1>1, <1>2, <2>2, <2>3
<1> HIDE DEF row
<1>9. \A u \in Sets, v \in 1 .. Ways : u # s \/ v # w => validation'[u][v] = validation[u][v]
  <2>1. ASSUME NEW u \in Sets \ {s} PROVE validation'[u] = validation[u]
    BY <1>1, <1>2, <1>7
  <2> QED BY <1>8, <2>1
<1>10. EntryAt(x)' = new
  BY <1>1, <1>8 DEF EntryAt
<1>11. ASSUME NEW y \in AllSlots \ {x} PROVE EntryAt(y)' = EntryAt(y)
  <2>1. y[1] \in Sets /\ y[2] \in 1 .. Ways /\ y = <<y[1], y[2]>>
    BY DEF AllSlots
  <2>2. y[1] # s \/ y[2] # w
    BY <1>1, <1>11, <2>1
  <2> QED BY <1>9, <2>1, <2>2 DEF EntryAt
<1>12. Slots' = Slots \cup {x}
  <2> QED BY <1>1, <1>6, <1>10, <1>11 DEF Slots, AllSlots
<1> QED BY <1>1, <1>3, <1>4, <1>10, <1>11, <1>12 DEF e, s

(* The way is one of the context's, and free if it has none: there is no   *)
(* eviction.                                                               *)
LEMMA WayIsOwn ==
  ASSUME TypeOK, ValidationInv, NEW c \in Contexts, Predictable(underTest, c)
  PROVE  LET w == ValidationWay(c)
         IN  /\ w \in 1 .. Ways
             /\ WaysOf(c) # {} => w \in WaysOf(c)
             /\ WaysOf(c) = {} => validation[SetOf[c]][w] = Free
<1> DEFINE free == {w \in 1 .. Ways : validation[SetOf[c]][w] = Free}
<1>1. CASE WaysOf(c) # {}
  <2>1. ValidationWay(c) = CHOOSE w \in WaysOf(c) : TRUE
    BY <1>1 DEF ValidationWay
  <2>2. ValidationWay(c) \in WaysOf(c) /\ WaysOf(c) \subseteq 1 .. Ways
    BY <1>1, <2>1 DEF WaysOf
  <2> QED BY <1>1, <2>2
<1>2. CASE WaysOf(c) = {}
  <2>1. free # {} /\ free \subseteq Nat
    BY <1>2, SetsHaveRoom
  <2>2. ValidationWay(c) = FirstOf(free)
    BY <1>2, <2>1 DEF ValidationWay
  <2>3. \E w \in free : \A v \in free : w <= v
    <3> HIDE DEF free
    <3> QED BY <2>1, LeastExists
  <2>4. FirstOf(free) \in free
    <3> HIDE DEF free
    <3> QED BY <2>3 DEF FirstOf
  <2> QED BY <1>2, <2>2, <2>4
<1> QED BY <1>1, <1>2

LEMMA ScoreHoldsAll ==
  ASSUME IInv, ValidationInv, NEW c \in Contexts, NEW k \in Candidates, ScorePrediction(c, k)
  PROVE  ValidationInv'
<1> DEFINE right == Predict(predictor, c) = k
           n == score.observations + 1
           e == ValidationEntry(c)
           s == SetOf[c]
<1>0. PICK w \in 1 .. Ways : /\ w = ValidationWay(c)
                             /\ WaysOf(c) # {} => w \in WaysOf(c)
                             /\ WaysOf(c) = {} => validation[s][w] = Free
  <2>1. TypeOK /\ Predictable(underTest, c)
    BY DEF ScorePrediction, IInv, ModelUnderTestIsFrozen
  <2> QED BY <2>1, WayIsOwn
<1>00. PICK x \in AllSlots : x = <<s, w>>
  BY PredictorAssumption DEF AllSlots
<1>1. /\ TypeOK /\ Predictable(underTest, c) /\ n \in Nat /\ underTest' = underTest
      /\ validation' = [validation EXCEPT ![s][w] =
              [e EXCEPT !.last = n, !.predictions = Bump(@),
                        !.correct   = IF right THEN Bump(@) ELSE @,
                        !.incorrect = IF right THEN @ ELSE Bump(@)]]
      /\ score' = [score EXCEPT
              !.observations = n, !.predictions = @ + 1,
              !.correct   = IF right THEN @ + 1 ELSE @,
              !.incorrect = IF right THEN @ ELSE @ + 1,
              !.contextsUsed = IF validation[s][w] = Free THEN @ + 1 ELSE @]
      /\ score \in Scores /\ score.predictions = score.correct + score.incorrect
  BY <1>0 DEF ScorePrediction, IInv, ModelUnderTestIsFrozen, TypeOK, Scores, ScoreAddsUp
<1>2. /\ w \in 1 .. Ways
      /\ WaysOf(c) # {} => w \in WaysOf(c)
      /\ WaysOf(c) = {} => validation[s][w] = Free
  BY <1>0
<1>3. /\ x \in AllSlots /\ Slots' = Slots \cup {x}
      /\ \A y \in AllSlots \ {x} : EntryAt(y)' = EntryAt(y)
      /\ EntryAt(x)'.ctx = c
      /\ EntryAt(x)'.predictions = Bump(e.predictions)
      /\ EntryAt(x)'.correct = IF right THEN Bump(e.correct) ELSE e.correct
      /\ EntryAt(x)'.incorrect = IF right THEN e.incorrect ELSE Bump(e.incorrect)
      /\ WaysOf(c) # {} => e = EntryAt(x) /\ x \in Slots
  <2> DEFINE scored == [e EXCEPT !.last = n, !.predictions = Bump(@),
                                 !.correct   = IF right THEN Bump(@) ELSE @,
                                 !.incorrect = IF right THEN @ ELSE Bump(@)]
  <2>1. e \in ValidationEntries /\ e.ctx = c
    <3>1. CASE WaysOf(c) # {}
      <4>1. w \in WaysOf(c) /\ e = validation[s][w]
        BY <1>0, <3>1 DEF ValidationEntry
      <4>2. <<s, w>> \in Slots /\ e = EntryAt(<<s, w>>) /\ e.ctx = c
        BY <4>1, PredictorAssumption DEF Slots, EntryAt, WaysOf
      <4> QED BY <1>1, <4>2, SlotsAreEntries
    <3>2. CASE WaysOf(c) = {}
      BY <3>2 DEF ValidationEntry, ValidationEntries
    <3> QED BY <3>1, <3>2
  <2>2. /\ scored \in ValidationEntries /\ scored.ctx = c
        /\ scored.predictions = Bump(e.predictions)
        /\ scored.correct = IF right THEN Bump(e.correct) ELSE e.correct
        /\ scored.incorrect = IF right THEN e.incorrect ELSE Bump(e.incorrect)
    <3> HIDE DEF e, n, right
    <3>1. Bump(e.predictions) \in Nat /\ Bump(e.correct) \in Nat /\ Bump(e.incorrect) \in Nat
      BY <2>1 DEF ValidationEntries, Bump
    <3>2. n \in Nat
      BY <1>1
    <3> QED BY <2>1, <3>1, <3>2 DEF ValidationEntries
  <2>3. PICK new \in ValidationEntries :
           new = scored /\ validation' = WithEntry(s, w, new)
    BY <1>1, <2>2 DEF WithEntry
  <2>4. x = <<s, w>> /\ TypeOK
    BY <1>00, <1>1
  <2>5. /\ x \in AllSlots /\ Slots' = Slots \cup {x}
        /\ \A y \in AllSlots \ {x} : EntryAt(y)' = EntryAt(y)
        /\ EntryAt(x)' = new
        /\ WaysOf(c) # {} => e = EntryAt(x) /\ x \in Slots
    BY <1>0, <2>3, <2>4, ScoredInOneSlot
  <2> HIDE DEF scored
  <2> QED BY <2>2, <2>3, <2>5
<1>4. /\ score'.predictions = score.predictions + 1
      /\ score'.correct = IF right THEN score.correct + 1 ELSE score.correct
      /\ score'.incorrect = IF right THEN score.incorrect ELSE score.incorrect + 1
      /\ score'.contextsUsed = IF validation[s][w] = Free THEN score.contextsUsed + 1
                                                         ELSE score.contextsUsed
      /\ score.predictions \in Nat /\ score.correct \in Nat /\ score.incorrect \in Nat
      /\ score.contextsUsed \in Nat
  <2> HIDE DEF right, n, s
  <2> QED BY <1>1 DEF Scores
<1>5. x[1] = s /\ x[2] = w /\ EntryAt(x) = validation[s][w] /\ SetOf[c] = s /\ x = <<s, w>>
  BY <1>00 DEF EntryAt
<1>6. WaysOf(c) = {} => x \notin Slots /\ e.predictions = 0 /\ e.correct = 0 /\ e.incorrect = 0
  <2>1. WaysOf(c) = {} => e = [ctx |-> c, last |-> 0, predictions |-> 0, correct |-> 0, incorrect |-> 0]
    BY DEF ValidationEntry
  <2>2. WaysOf(c) = {} => x \notin Slots
    BY <1>2, <1>5 DEF Slots
  <2> HIDE DEF e
  <2> QED BY <2>1, <2>2
<1>7. validation[s][w] = Free <=> x \notin Slots
  BY <1>3, <1>5 DEF Slots, AllSlots
<1> HIDE DEF right, n, e, s
<1>8. EntriesAreTested'
  <2> SUFFICES ASSUME NEW y \in Slots'
               PROVE  /\ EntryAt(y)'.ctx \in Contexts /\ SetOf[EntryAt(y)'.ctx] = y[1]
                      /\ Predictable(underTest, EntryAt(y)'.ctx)
    BY <1>1 DEF EntriesAreTested
  <2>1. CASE y = x
    <3> QED BY <1>1, <1>3, <1>5, <2>1
  <2>2. CASE y # x
    <3>1. y \in Slots /\ EntryAt(y)' = EntryAt(y)
      BY <1>3, <2>2 DEF Slots, AllSlots
    <3> QED BY <3>1 DEF ValidationInv, EntriesAreTested
  <2> QED BY <2>1, <2>2
<1>9. IsFiniteSet(Slots')
  BY <1>3, FS_AddElement DEF ValidationInv
<1>10. score'.contextsUsed = Cardinality(Slots')
  <2>1. score.contextsUsed = Cardinality(Slots) /\ IsFiniteSet(Slots)
    BY DEF ValidationInv, NothingForgotten
  <2>2. CASE x \in Slots
    <3>1. Slots' = Slots
      BY <1>3, <2>2
    <3> QED BY <1>4, <1>7, <2>1, <2>2, <3>1
  <2>3. CASE x \notin Slots
    <3>1. Cardinality(Slots \cup {x}) = Cardinality(Slots) + 1
      BY <2>1, <2>3, FS_AddElement
    <3> QED BY <1>3, <1>4, <1>7, <2>1, <2>3, <3>1
  <2> QED BY <2>2, <2>3
<1>11. ASSUME NEW y \in Slots', NEW z \in Slots', EntryAt(y)'.ctx = EntryAt(z)'.ctx PROVE y = z
  <2>1. ASSUME NEW v \in Slots, v # x PROVE EntryAt(v)' = EntryAt(v) /\ EntryAt(v)'.ctx # c
    <3>1. EntryAt(v)' = EntryAt(v)
      BY <1>3, <2>1 DEF Slots, AllSlots
    <3> SUFFICES ASSUME EntryAt(v).ctx = c PROVE FALSE
      BY <3>1
    <3>2. v[1] = s /\ v[2] \in 1 .. Ways /\ v = <<v[1], v[2]>>
      BY <1>1, <1>5, <2>1, SlotsAreEntries DEF ValidationInv, EntriesAreTested, AllSlots
    <3>3. v[2] \in WaysOf(c)
      BY <1>5, <2>1, <3>2 DEF WaysOf, Slots, EntryAt
    <3>4. x \in Slots /\ EntryAt(x).ctx = c
      <4>1. w \in WaysOf(c)
        BY <1>2, <3>3
      <4> QED BY <1>3, <1>5, <3>3, <4>1 DEF WaysOf
    <3>5. x = v
      BY <2>1, <3>4 DEF ValidationInv, NothingForgotten
    <3> QED BY <2>1, <3>5
  <2>2. \A v \in Slots' : v # x => v \in Slots
    BY <1>3
  <2>3. CASE y = x \/ z = x
    BY <1>3, <1>11, <2>1, <2>2, <2>3
  <2>4. CASE y # x /\ z # x
    <3>1. EntryAt(y).ctx = EntryAt(z).ctx /\ y \in Slots /\ z \in Slots
      BY <1>11, <2>1, <2>2, <2>4
    <3> QED BY <3>1 DEF ValidationInv, NothingForgotten
  <2> QED BY <2>3, <2>4
<1>12. ASSUME score'.predictions < CountMax
       PROVE  /\ Total("correct")' = score'.correct /\ Total("incorrect")' = score'.incorrect
              /\ Total("predictions")' = score'.predictions
  <2>1. /\ score.predictions < CountMax /\ CountMax \in Nat
        /\ score.correct <= score.predictions /\ score.incorrect <= score.predictions
    BY <1>1, <1>4, <1>12, PredictorAssumption
  <2>2. /\ Total("correct") = score.correct /\ Total("incorrect") = score.incorrect
        /\ Total("predictions") = score.predictions
    BY <2>1 DEF ValidationInv, NothingForgotten
  <2>3. ASSUME NEW field \in {"predictions", "correct", "incorrect"}
        PROVE  /\ e[field] = IF x \in Slots THEN EntryAt(x)[field] ELSE 0
               /\ e[field] \in Nat /\ Bump(e[field]) = e[field] + 1
    <3>1. CASE x \in Slots
      <4>1. e = EntryAt(x)
        BY <1>3, <1>6, <3>1
      <4>2. EntryAt(x)[field] \in Nat /\ EntryAt(x)[field] <= Total(field)
        BY <1>1, <3>1, TotalBounds
      <4>3. Total(field) < CountMax /\ Total(field) \in Nat
        BY <1>4, <2>1, <2>2
      <4> QED BY <2>1, <3>1, <4>1, <4>2, <4>3 DEF Bump
    <3>2. CASE x \notin Slots
      <4>1. WaysOf(c) = {}
        BY <1>3, <3>2
      <4>2. e[field] = 0
        BY <1>6, <4>1
      <4> QED BY <2>1, <3>2, <4>2, PredictorAssumption DEF Bump
    <3> QED BY <3>1, <3>2
  <2>4. \A y \in Slots \ {x} : EntryAt(y)' = EntryAt(y)
    BY <1>3 DEF Slots, AllSlots
  <2>5. Total("predictions")' = Total("predictions") + 1
    <3>1. EntryAt(x)'["predictions"] = (IF x \in Slots THEN EntryAt(x)["predictions"] ELSE 0) + 1
      BY <1>3, <2>3
    <3> QED BY <1>1, <1>3, <2>4, <3>1, TotalMoves
  <2>6. Total("correct")' = Total("correct") + (IF right THEN 1 ELSE 0)
    <3>1. EntryAt(x)'["correct"] = (IF x \in Slots THEN EntryAt(x)["correct"] ELSE 0)
                                     + (IF right THEN 1 ELSE 0)
      BY <1>3, <2>3
    <3>2. (IF right THEN 1 ELSE 0) \in Nat
      OBVIOUS
    <3> QED BY <1>1, <1>3, <2>4, <3>1, <3>2, TotalMoves
  <2>7. Total("incorrect")' = Total("incorrect") + (IF right THEN 0 ELSE 1)
    <3>1. EntryAt(x)'["incorrect"] = (IF x \in Slots THEN EntryAt(x)["incorrect"] ELSE 0)
                                       + (IF right THEN 0 ELSE 1)
      BY <1>3, <2>3
    <3>2. (IF right THEN 0 ELSE 1) \in Nat
      OBVIOUS
    <3> QED BY <1>1, <1>3, <2>4, <3>1, <3>2, TotalMoves
  <2> QED BY <1>4, <2>2, <2>5, <2>6, <2>7
<1>13. NothingForgotten'
  BY <1>10, <1>11, <1>12 DEF NothingForgotten
<1> QED BY <1>8, <1>9, <1>13 DEF ValidationInv

LEMMA ValidationStep == IInv /\ ValidationInv /\ [LearningNext]_learningVars => ValidationInv'
<1> SUFFICES ASSUME IInv, ValidationInv, [LearningNext]_learningVars PROVE ValidationInv'
  OBVIOUS
<1>1. ASSUME UNCHANGED <<validation, score, underTest>> PROVE ValidationInv'
  BY <1>1, ScoreMoves
<1>2. CASE Open \/ OpenFails \/ ResetVolatile \/ Close
  BY <1>2, ResetHoldsAll DEF Open, OpenFails, ResetVolatile, Close, ZeroBoth
<1>3. CASE EnterValidate
  BY <1>1, <1>3, ResetHoldsAll DEF EnterValidate, scoreVars
<1>4. CASE FlushOrFailedPause \/ UNCHANGED learningVars
  BY <1>1, <1>4 DEF FlushOrFailedPause, learningVars
<1>5. ASSUME NEW m \in StoreModes, SetMode(m) PROVE ValidationInv'
  BY <1>1, <1>5 DEF SetMode, scoreVars
<1>6. ASSUME NEW c \in Contexts, NEW k \in Candidates, ObserveInStore(c, k) PROVE ValidationInv'
  BY <1>1, <1>6 DEF ObserveInStore, scoreVars
<1>7. ASSUME NEW c \in Contexts, ObserveUnscored(c) PROVE ValidationInv'
  <2>1. UNCHANGED <<validation, underTest>> /\ score \in Scores
    BY <1>7 DEF ObserveUnscored, IInv, TypeOK
  <2>2. /\ score'.contextsUsed = score.contextsUsed /\ score'.predictions = score.predictions
        /\ score'.correct = score.correct /\ score'.incorrect = score.incorrect
    BY <1>7, <2>1 DEF ObserveUnscored, Scores
  <2> QED BY <2>1, <2>2, ScoreMoves
<1>8. ASSUME NEW c \in Contexts, Validating(c) PROVE ValidationInv'
  BY <1>7, <1>8, ScoreHoldsAll DEF Validating
<1> QED BY <1>2, <1>3, <1>4, <1>5, <1>6, <1>8 DEF LearningNext

(* The validation table holds the whole score, entry by entry: validation  *)
(* never evicts, for any table geometry and any model under test.          *)
THEOREM ValidationForgetsNothing == LearningSpec => []NothingForgotten
<1>1. ValidationInv => NothingForgotten
  BY DEF ValidationInv
<1> QED BY <1>1, ValidationStart, ValidationStep, Inductive, PTL DEF LearningSpec

-----------------------------------------------------------------------------
(* The ratio.                                                              *)

LEMMA ModSmall == ASSUME NEW w \in Nat \ {0}, NEW a \in 0 .. w - 1 PROVE a % w = a
  OBVIOUS

LEMMA DivMod ==
  ASSUME NEW s \in Nat, NEW b \in Nat \ {0}
  PROVE  /\ s \div b \in Nat /\ s % b \in 0 .. b - 1
         /\ s = b * (s \div b) + (s % b)
  OBVIOUS

(* A quotient and a remainder are unique.                                  *)
LEMMA DivUnique ==
  ASSUME NEW s \in Nat, NEW b \in Nat \ {0}, NEW q \in Nat, NEW r \in 0 .. b - 1,
         s = b * q + r
  PROVE  s \div b = q
  OBVIOUS

(* The next bit of s is the last bit of the prefix that ends there.        *)
LEMMA NextBit ==
  ASSUME NEW s \in Nat, NEW b \in Nat \ {0}
  PROVE  s \div b = 2 * (s \div (2 * b)) + ((s \div b) % 2)
<1> DEFINE a == s \div b
           c == a % 2
           h == a \div 2
           r == s % b
<1>1. a \in Nat /\ c \in 0 .. 1 /\ h \in Nat /\ a = 2 * h + c
  BY DivMod
<1>2. r \in 0 .. b - 1 /\ s = b * a + r
  BY DivMod
<1> HIDE DEF a, c, h, r
<1>3. s = (2 * b) * h + (b * c + r)
  BY <1>1, <1>2
<1>4. b * c + r \in 0 .. (2 * b) - 1
  BY <1>1, <1>2
<1>5. 2 * b \in Nat \ {0}
  OBVIOUS
<1>6. s \div (2 * b) = h
  BY <1>1, <1>3, <1>4, <1>5, DivUnique
<1> QED BY <1>1, <1>6 DEF a, c

(* A ratio below one keeps the quotient below what was divided.            *)
LEMMA QuotientBound ==
  ASSUME NEW q \in Nat, NEW d \in Nat, NEW r \in Nat, NEW p \in Nat, NEW n \in Nat,
         n < d, q * d + r = p * n
  PROVE  q <= p
<1> SUFFICES ASSUME q > p PROVE FALSE
  OBVIOUS
<1>1. PICK k \in Nat : q = p + 1 + k
  <2>1. q - p - 1 \in Nat /\ q = p + 1 + (q - p - 1)
    OBVIOUS
  <2> QED BY <2>1
<1>2. PICK m \in Nat : d = n + 1 + m
  <2>1. d - n - 1 \in Nat /\ d = n + 1 + (d - n - 1)
    OBVIOUS
  <2> QED BY <2>1
<1>3. q * d = (p + 1 + k) * (n + 1 + m)
  BY <1>1, <1>2
<1>4. (p + 1 + k) * (n + 1 + m) = p * n + p * (1 + m) + (1 + k) * (n + 1 + m)
  OBVIOUS
<1>5. p * (1 + m) \in Nat /\ (1 + k) * (n + 1 + m) \in Nat /\ (1 + k) * (n + 1 + m) >= 1
  OBVIOUS
<1> QED BY <1>3, <1>4, <1>5

(* What the loop keeps: the arguments it was entered with, nothing divided *)
(* while leading zeros are skipped, exactness, and the result at the end.  *)
RatioInv ==
  /\ RatioTypeOK
  /\ Exact
  /\ pc = "call" => bit = TopBit /\ remainder = 0 /\ quotient = 0
  /\ pc = "skip" => remainder = 0 /\ quotient = 0 /\ Prefix = 0
  /\ pc \in {"skip", "loop"} => numerator < denominator
  /\ ReturnsRatio

LEMMA RatioTypes ==
  ASSUME RatioTypeOK
  PROVE  /\ numerator \in Nat /\ denominator \in Nat /\ scale \in Nat /\ Prefix \in Nat
         /\ Word32 \in Nat \ {0} /\ scale < Word32
         /\ bit # 0 => Prefix <= scale
<1>1. TopBit \in Nat \ {0} /\ Word32 \in Nat \ {0}
  BY RatioAssumption DEF Word32
<1>2. scale \in Nat /\ scale < Word32 /\ numerator \in Nat /\ denominator \in Nat
  BY <1>1, RatioAssumption DEF RatioTypeOK
<1>3. CASE bit = 0
  BY <1>1, <1>2, <1>3 DEF Prefix
<1>4. CASE bit # 0
  <2>1. 2 * bit \in Nat \ {0}
    BY <1>4, RatioAssumption DEF RatioTypeOK
  <2>2. scale \div (2 * bit) \in Nat /\ scale \div (2 * bit) <= scale
    BY <1>2, <2>1
  <2> QED BY <1>1, <1>2, <1>4, <2>2 DEF Prefix
<1> QED BY <1>3, <1>4

(* Halving bit takes the next bit of scale into the prefix.                *)
LEMMA PrefixStep ==
  ASSUME RatioTypeOK, bit # 0, bit' = bit \div 2, UNCHANGED scale
  PROVE  /\ bit' \in BitValues \cup {0}
         /\ Prefix' = 2 * Prefix + (IF BitSet THEN 1 ELSE 0)
         /\ Prefix' <= scale
<1>1. scale \in Nat /\ bit \in Nat \ {0} /\ bit \in BitValues
  BY RatioTypes, RatioAssumption DEF RatioTypeOK
<1>2. bit' \in BitValues \cup {0} /\ (bit' = 0 => bit = 1) /\ (bit' # 0 => bit = 2 * bit')
  BY <1>1, RatioAssumption
<1>3. Prefix' = scale \div bit
  <2>1. scale \div 1 = scale
    BY <1>1
  <2> QED BY <1>2, <2>1 DEF Prefix
<1>4. scale \div bit = 2 * (scale \div (2 * bit)) + ((scale \div bit) % 2)
  BY <1>1, NextBit
<1>5. (scale \div bit) % 2 = (IF BitSet THEN 1 ELSE 0)
  <2>1. scale \div bit \in Nat
    BY <1>1, DivMod
  <2>2. (scale \div bit) % 2 \in {0, 1}
    BY <2>1
  <2> QED BY <2>2 DEF BitSet
<1>6. scale \div bit <= scale
  BY <1>1
<1> QED BY <1>2, <1>3, <1>4, <1>5, <1>6 DEF Prefix

(* The doubling, without wrapping.                                         *)
LEMMA DoubledExact ==
  ASSUME RatioTypeOK, Exact, pc = "loop", numerator < denominator, 2 * Prefix < Word32
  PROVE  /\ Doubled.q \in Nat /\ Doubled.r \in Nat
         /\ Doubled.r < denominator
         /\ Doubled.q * denominator + Doubled.r = 2 * Prefix * numerator
<1> DEFINE d == denominator
           n == numerator
           r == remainder
           q == quotient
           p == Prefix
<1>1. d \in Nat /\ n \in Nat /\ r \in Nat /\ q \in Nat /\ p \in Nat /\ Word \in Nat \ {0}
      /\ Word32 \in Nat \ {0} /\ d < Word
  BY RatioTypes, RatioAssumption DEF RatioTypeOK
<1>2. r < d /\ n < d /\ q * d + r = p * n
  BY DEF Exact
<1>3. q <= p
  BY <1>1, <1>2, QuotientBound
<1>4. (2 * quotient) % Word32 = 2 * q
  BY <1>1, <1>3, ModSmall
<1>5. Room = d - r
  BY <1>1, <1>2, ModSmall DEF Room, Minus
<1>6. (2 * q) * d + 2 * r = 2 * p * n
  <2>1. (2 * q) * d + 2 * r = 2 * (q * d + r)
    BY <1>1
  <2>2. 2 * p * n = 2 * (p * n)
    BY <1>1
  <2> QED BY <1>2, <2>1, <2>2
<1>7. CASE remainder >= Room
  <2> DEFINE s == r - (d - r)
  <2>1. s \in Nat /\ s < d /\ s < Word /\ 2 * r = d + s
    BY <1>1, <1>2, <1>5, <1>7
  <2>2. Minus(remainder, Room) = s
    BY <1>1, <1>5, <2>1, ModSmall DEF Minus
  <2>3. (2 * q + 1) * d + s = 2 * p * n
    <3>1. (2 * q + 1) * d = (2 * q) * d + d
      BY <1>1
    <3>2. (2 * q) * d \in Nat
      BY <1>1
    <3> QED BY <1>1, <1>6, <2>1, <3>1, <3>2
  <2>4. 2 * q + 1 <= 2 * p
    <3> DEFINE q1 == 2 * q + 1
               p1 == 2 * p
    <3>1. q1 \in Nat /\ p1 \in Nat /\ q1 * d + s = p1 * n
      BY <1>1, <2>3
    <3> HIDE DEF q1, p1, s
    <3>2. q1 <= p1
      BY <1>1, <1>2, <2>1, <3>1, QuotientBound
    <3> QED BY <3>2 DEF q1, p1
  <2>5. Incremented(2 * q) = 2 * q + 1
    BY <1>1, <2>4, ModSmall DEF Incremented
  <2>6. Doubled = [r |-> s, q |-> 2 * q + 1]
    BY <1>4, <1>7, <2>2, <2>5 DEF Doubled
  <2> QED BY <1>1, <2>1, <2>3, <2>6
<1>8. CASE ~(remainder >= Room)
  <2>1. 2 * r \in Nat /\ 2 * r < d /\ r + r = 2 * r
    BY <1>1, <1>2, <1>5, <1>8
  <2>2. Plus(remainder, remainder) = 2 * r
    BY <1>1, <2>1, ModSmall DEF Plus
  <2>3. Doubled = [r |-> 2 * r, q |-> 2 * q]
    BY <1>4, <1>8, <2>2 DEF Doubled
  <2> QED BY <1>1, <1>6, <2>1, <2>3
<1> QED BY <1>7, <1>8

(* The addition of numerator, without wrapping.                            *)
LEMMA AddedExact ==
  ASSUME RatioTypeOK, numerator < denominator, NEW x, x.q \in Nat, x.r \in Nat,
         x.r < denominator, NEW p \in Nat, p + 1 < Word32,
         x.q * denominator + x.r = p * numerator
  PROVE  /\ Added(x).q \in Nat /\ Added(x).r \in Nat
         /\ Added(x).r < denominator
         /\ Added(x).q * denominator + Added(x).r = (p + 1) * numerator
<1> DEFINE d == denominator
           n == numerator
           r == x.r
           q == x.q
           room == Minus(denominator, numerator)
<1>1. d \in Nat /\ n \in Nat /\ r \in Nat /\ q \in Nat /\ Word \in Nat \ {0}
      /\ Word32 \in Nat \ {0} /\ d < Word /\ r < d /\ n < d
  BY RatioTypes, RatioAssumption DEF RatioTypeOK
<1>2. room = d - n
  <2>1. denominator - numerator \in 0 .. Word - 1
    BY <1>1
  <2> QED BY <1>1, <2>1, ModSmall DEF Minus
<1>3. q * d + r = p * n /\ q * d + (r + n) = (p + 1) * n
  <2>1. (p + 1) * n = p * n + n /\ q * d \in Nat
    BY <1>1
  <2> QED BY <1>1, <2>1
<1> HIDE DEF r, q, d, n
<1>4. CASE r >= room
  <2> DEFINE s == r - (d - n)
  <2>1. s \in Nat /\ s < d /\ s < Word /\ r + n = d + s
    BY <1>1, <1>2, <1>4
  <2>2. Minus(r, room) = s
    BY <1>1, <1>2, <2>1, ModSmall DEF Minus
  <2>3. (q + 1) * d + s = (p + 1) * n
    <3>1. (q + 1) * d = q * d + d /\ q * d \in Nat
      BY <1>1
    <3> QED BY <1>1, <1>3, <2>1, <3>1
  <2>4. q + 1 <= p + 1
    <3> DEFINE q1 == q + 1
               p1 == p + 1
    <3>1. q1 \in Nat /\ p1 \in Nat /\ q1 * d + s = p1 * n
      BY <1>1, <2>3
    <3> HIDE DEF q1, p1, s
    <3>2. q1 <= p1
      BY <1>1, <2>1, <3>1, QuotientBound
    <3> QED BY <3>2 DEF q1, p1
  <2>5. Incremented(q) = q + 1
    BY <1>1, <2>4, ModSmall DEF Incremented
  <2>6. Added(x) = [r |-> s, q |-> q + 1]
    BY <1>4, <2>2, <2>5 DEF Added, r, q
  <2> QED BY <1>1, <2>1, <2>3, <2>6 DEF d, n
<1>5. CASE ~(r >= room)
  <2>1. r + n \in Nat /\ r + n < d
    BY <1>1, <1>2, <1>5
  <2>2. Plus(r, n) = r + n
    BY <1>1, <2>1, ModSmall DEF Plus
  <2>3. Added(x) = [r |-> r + n, q |-> q]
    BY <1>5, <2>2 DEF Added, r, q, n
  <2> QED BY <1>1, <1>3, <2>1, <2>3 DEF d, n
<1> QED BY <1>4, <1>5

LEMMA RoundKeeps == RatioInv /\ Round => RatioInv'
<1> SUFFICES ASSUME RatioInv, Round PROVE RatioInv'
  OBVIOUS
<1> DEFINE y == IF BitSet THEN Added(Doubled) ELSE Doubled
<1>1. /\ RatioTypeOK /\ Exact /\ pc = "loop" /\ bit # 0 /\ numerator < denominator
      /\ bit' = bit \div 2 /\ UNCHANGED args /\ pc' = pc
      /\ remainder' = y.r /\ quotient' = y.q
  BY DEF RatioInv, Round
<1>2. /\ numerator \in Nat /\ denominator \in Nat /\ Prefix \in Nat
      /\ scale < Word32 /\ scale \in Nat /\ Word32 \in Nat
  BY <1>1, RatioTypes
<1>3. /\ bit' \in BitValues \cup {0} /\ Prefix' <= scale
      /\ Prefix' = 2 * Prefix + (IF BitSet THEN 1 ELSE 0)
  BY <1>1, PrefixStep DEF args
<1>4. /\ Doubled.q \in Nat /\ Doubled.r \in Nat
      /\ Doubled.r < denominator
      /\ Doubled.q * denominator + Doubled.r = 2 * Prefix * numerator
  BY <1>1, <1>2, <1>3, DoubledExact
<1>5. /\ y.q \in Nat /\ y.r \in Nat /\ y.r < denominator
      /\ y.q * denominator + y.r = Prefix' * numerator
  <2>1. CASE BitSet
    <3> DEFINE p == 2 * Prefix
    <3>1. p \in Nat /\ p + 1 < Word32 /\ Prefix' = p + 1
      BY <1>2, <1>3, <2>1
    <3> HIDE DEF p
    <3>2. Doubled.q * denominator + Doubled.r = p * numerator
      BY <1>4 DEF p
    <3> QED BY <1>1, <1>4, <2>1, <3>1, <3>2, AddedExact
  <2>2. CASE ~BitSet
    BY <1>2, <1>3, <1>4, <2>2
  <2> QED BY <2>1, <2>2
<1> HIDE DEF y
<1>6. y.q <= Prefix'
  <2>1. Prefix' \in Nat
    BY <1>2, <1>3
  <2> QED BY <1>1, <1>2, <1>5, <2>1, QuotientBound
<1>7. RatioTypeOK'
  <2>1. Word \in Nat /\ denominator \in 0 .. Word - 1
    BY <1>1, RatioAssumption DEF RatioTypeOK
  <2>2. Prefix' \in Nat
    BY <1>2, <1>3
  <2>3. quotient' \in 0 .. Word32 - 1 /\ remainder' \in 0 .. Word - 1
    BY <1>1, <1>2, <1>3, <1>5, <1>6, <2>1, <2>2
  <2>4. Word32' = Word32
    BY DEF Word32
  <2> QED BY <1>1, <1>3, <2>3, <2>4 DEF RatioTypeOK, args
<1>8. Exact'
  BY <1>1, <1>5 DEF Exact, args
<1> QED BY <1>1, <1>7, <1>8 DEF RatioInv, ReturnsRatio, args

LEMMA RatioStep == RatioInv /\ [RatioNext]_ratioVars => RatioInv'
<1> SUFFICES ASSUME RatioInv, [RatioNext]_ratioVars PROVE RatioInv'
  OBVIOUS
<1>1. /\ numerator \in Nat /\ denominator \in Nat /\ Prefix \in Nat
      /\ scale < Word32 /\ scale \in Nat /\ Word32 \in Nat
  BY RatioTypes DEF RatioInv
<1>2. CASE UNCHANGED ratioVars
  BY <1>2 DEF ratioVars, args, RatioInv, RatioTypeOK, Exact, Prefix, ReturnsRatio
<1>3. CASE ReturnZero
  <2>1. 0 \div denominator = 0 \/ denominator = 0
    BY <1>1
  <2>2. scale = 0 => scale * numerator = 0
    BY <1>1
  <2>3. Ratio(numerator, denominator, scale) = 0
    BY <1>1, <1>3, <2>1, <2>2 DEF ReturnZero, Ratio
  <2> QED BY <1>1, <1>3, <2>3 DEF ReturnZero, Return, args, RatioInv, RatioTypeOK, Exact, ReturnsRatio
<1>4. CASE ReturnScale
  <2>1. Ratio(numerator, denominator, scale) = scale
    BY <1>4 DEF ReturnScale, Ratio
  <2> QED BY <1>1, <1>4, <2>1 DEF ReturnScale, Return, args, RatioInv, RatioTypeOK, Exact, ReturnsRatio
<1>5. CASE Enter
  <2>1. Prefix = 0 /\ Prefix' = 0
    BY <1>1, <1>5, RatioAssumption DEF Enter, RatioInv, Prefix, Word32, args
  <2>2. remainder = 0 /\ quotient = 0 /\ 0 * denominator + 0 = 0 * numerator
    BY <1>1, <1>5 DEF Enter, RatioInv
  <2>3. Exact'
    BY <1>1, <1>5, <2>1, <2>2 DEF Enter, Exact, args
  <2> QED BY <1>1, <1>5, <2>1, <2>2, <2>3 DEF Enter, RatioInv, RatioTypeOK, ReturnsRatio, args
<1>6. CASE Skip
  <2>1. CASE bit # 0 /\ ~BitSet
    <3>1. bit' = bit \div 2 /\ UNCHANGED <<args, remainder, quotient, pc>> /\ pc = "skip"
      BY <1>6, <2>1 DEF Skip
    <3>2. bit' \in BitValues \cup {0} /\ Prefix' = 2 * Prefix + 0
      BY <2>1, <3>1, PrefixStep DEF RatioInv, args
    <3>3. Prefix = 0 /\ Prefix' = 0
      BY <3>1, <3>2 DEF RatioInv
    <3> QED BY <3>1, <3>2, <3>3 DEF RatioInv, RatioTypeOK, Exact, ReturnsRatio, args
  <2>2. CASE ~(bit # 0 /\ ~BitSet)
    <3>1. bit' = bit /\ UNCHANGED <<args, remainder, quotient>> /\ pc = "skip" /\ pc' = "loop"
      BY <1>6, <2>2 DEF Skip
    <3>2. Prefix' = Prefix
      BY <3>1 DEF Prefix, args
    <3> QED BY <3>1, <3>2 DEF RatioInv, RatioTypeOK, Exact, ReturnsRatio, args
  <2> QED BY <2>1, <2>2
<1>7. CASE Round
  BY <1>7, RoundKeeps
<1>8. CASE Finish
  <2> DEFINE d == denominator
             sn == scale * numerator
             dq == d * quotient
  <2>1. /\ quotient * d + remainder = scale * numerator
        /\ remainder < d /\ numerator < d /\ remainder \in Nat /\ quotient \in Nat
        /\ d \in Nat \ {0} /\ sn \in Nat
    BY <1>1, <1>8 DEF Finish, RatioInv, Exact, RatioTypeOK, Prefix
  <2>2. sn = d * quotient + remainder /\ remainder \in 0 .. d - 1
    BY <2>1
  <2>3. sn \div d = quotient
    <3> HIDE DEF sn
    <3> QED BY <2>1, <2>2, DivUnique
  <2>4. Ratio(numerator, denominator, scale) = quotient
    BY <1>1, <2>1, <2>3 DEF Ratio
  <2> QED BY <1>8, <2>4 DEF Finish, RatioInv, RatioTypeOK, Exact, ReturnsRatio, args
<1> QED BY <1>2, <1>3, <1>4, <1>5, <1>6, <1>7, <1>8 DEF RatioNext

LEMMA RatioStart == RatioInit => RatioInv
<1> SUFFICES ASSUME RatioInit PROVE RatioInv
  OBVIOUS
<1>1. RatioTypeOK
  BY RatioAssumption DEF RatioInit, RatioTypeOK, Word32
<1> QED BY <1>1 DEF RatioInit, RatioInv, Exact, ReturnsRatio

-----------------------------------------------------------------------------
THEOREM RatioInductive == RatioSpec => []RatioInv
  BY RatioStart, RatioStep, PTL DEF RatioSpec

(* No sum, difference or shift of the division leaves its word.            *)
THEOREM RatioTypeCorrect == RatioSpec => []RatioTypeOK
<1>1. RatioInv => RatioTypeOK
  BY DEF RatioInv
<1> QED BY <1>1, RatioInductive, PTL

(* rafaelia_l0_ratio_scaled returns the exact ratio, rounded down.         *)
THEOREM RatioIsExact == RatioSpec => []ReturnsRatio
<1>1. RatioInv => ReturnsRatio
  BY DEF RatioInv
<1> QED BY <1>1, RatioInductive, PTL
=============================================================================
