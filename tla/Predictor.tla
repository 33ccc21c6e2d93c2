------------------------------ MODULE Predictor ------------------------------
(***************************************************************************)
(* The set-associative shadow predictor of learning_store.c.  A context    *)
(* hashes to a set of Ways entries; an entry counts how often a candidate  *)
(* was the outcome of a context.                                           *)
(***************************************************************************)
EXTENDS Integers

CONSTANTS Contexts,    \* context hashes
          Candidates,  \* candidate ids: numbers, ties go to the lower one
          Sets,        \* predictor sets
          SetOf,       \* rfl_set_index: the set a context hashes to
          Ways,        \* entries per set (4 in the code)
          CountMax,    \* saturation of an entry's count (UINT32_MAX)
          Free         \* an entry that is not used

ASSUME PredictorAssumption ==
  /\ Candidates \subseteq Nat
  /\ SetOf \in [Contexts -> Sets]
  /\ Ways \in Nat \ {0}
  /\ CountMax \in Nat \ {0}

Entries == [ctx : Contexts, cand : Candidates, count : 1 .. CountMax, seq : Nat]

Tables == [Sets -> [1 .. Ways -> Entries \cup {Free}]]

EmptyTable == [s \in Sets |-> [w \in 1 .. Ways |-> Free]]

(* The ways of c's set that speak of context c.                            *)
Matching(p, c) ==
  LET row == p[SetOf[c]] IN {w \in 1 .. Ways : row[w] # Free /\ row[w].ctx = c}

(* rfl_predict_locked finds something to report exactly when the context   *)
(* has an entry.                                                           *)
Predictable(p, c) == Matching(p, c) # {}

(* The candidate it reports: the best supported one, a tie going to the    *)
(* lower id.                                                               *)
Predict(p, c) ==
  LET row == p[SetOf[c]]
      best == CHOOSE w \in Matching(p, c) : \A v \in Matching(p, c) :
                \/ row[v].count < row[w].count
                \/ row[v].count = row[w].count /\ row[v].cand >= row[w].cand
  IN  row[best].cand

(* The entry rfl_update_predictor_locked replaces in a full set: least     *)
(* supported, then oldest, then first.                                     *)
Victim(row) ==
  CHOOSE w \in 1 .. Ways : \A v \in 1 .. Ways :
    \/ row[w].count < row[v].count
    \/ row[w].count = row[v].count /\ row[w].seq < row[v].seq
    \/ row[w].count = row[v].count /\ row[w].seq = row[v].seq /\ w <= v

FirstOf(ways) == CHOOSE w \in ways : \A v \in ways : w <= v

NewEntry(c, k, s) == [ctx |-> c, cand |-> k, count |-> 1, seq |-> s]

(* rfl_update_predictor_locked: candidate k was the outcome of context c   *)
(* in the record with sequence number s.  At most one way hits, since an   *)
(* entry is only made when none does.                                      *)
Update(p, c, k, s) ==
  LET row   == p[SetOf[c]]
      hits  == {w \in Matching(p, c) : row[w].cand = k}
      free  == {w \in 1 .. Ways : row[w] = Free}
      fresh == NewEntry(c, k, s)
      bump(e) == [e EXCEPT !.seq = s,
                           !.count = IF @ < CountMax THEN @ + 1 ELSE @]
      new == IF hits # {} THEN LET w == CHOOSE h \in hits : TRUE
                               IN  [row EXCEPT ![w] = bump(row[w])]
             ELSE LET w == IF free # {} THEN FirstOf(free) ELSE Victim(row)
                  IN  [row EXCEPT ![w] = fresh]
  IN  [p EXCEPT ![SetOf[c]] = new]
=============================================================================
