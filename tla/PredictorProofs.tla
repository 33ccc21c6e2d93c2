--------------------------- MODULE PredictorProofs ---------------------------
(***************************************************************************)
(* What both users of the predictor need to know of its operators.         *)
(***************************************************************************)
EXTENDS Predictor, DataLemmas

(* Training keeps the table a table: no field runs past its range.         *)
LEMMA UpdateType ==
  ASSUME NEW p \in Tables, NEW c \in Contexts, NEW k \in Candidates, NEW s \in Nat
  PROVE  Update(p, c, k, s) \in Tables
<1> DEFINE row   == p[SetOf[c]]
           hits  == {w \in Matching(p, c) : row[w].cand = k}
           free  == {w \in 1 .. Ways : row[w] = Free}
           fresh == NewEntry(c, k, s)
           bump(e) == [e EXCEPT !.seq = s,
                                !.count = IF @ < CountMax THEN @ + 1 ELSE @]
           Rows == [1 .. Ways -> Entries \cup {Free}]
<1>1. SetOf[c] \in Sets /\ row \in Rows
  BY PredictorAssumption DEF Tables
<1>2. fresh \in Entries
  BY PredictorAssumption DEF Entries, NewEntry
<1>3. \A w : [row EXCEPT ![w] = fresh] \in Rows
  BY <1>1, <1>2
<1>4. ASSUME hits # {}
      PROVE  LET w == CHOOSE h \in hits : TRUE
             IN  [row EXCEPT ![w] = bump(row[w])] \in Rows
  <2> DEFINE w == CHOOSE h \in hits : TRUE
  <2>1. w \in hits
    BY <1>4
  <2>2. w \in 1 .. Ways /\ row[w] # Free
    BY <2>1 DEF Matching
  <2> HIDE DEF w
  <2>3. row[w] \in Entries
    BY <1>1, <2>2
  <2>4. bump(row[w]) \in Entries
    <3> DEFINE e == row[w]
    <3>1. e \in [ctx : Contexts, cand : Candidates, count : 1 .. CountMax, seq : Nat]
      BY <2>3 DEF Entries
    <3> HIDE DEF e
    <3> DEFINE q == IF e.count < CountMax THEN e.count + 1 ELSE e.count
    <3>2. q \in 1 .. CountMax
      BY <3>1, PredictorAssumption
    <3>3. bump(e) = [e EXCEPT !.seq = s, !.count = q]
      OBVIOUS
    <3> HIDE DEF q
    <3>4. [e EXCEPT !.seq = s, !.count = q]
            \in [ctx : Contexts, cand : Candidates, count : 1 .. CountMax, seq : Nat]
      BY <3>1, <3>2
    <3>5. bump(e) \in Entries
      BY <3>3, <3>4 DEF Entries
    <3> QED BY <3>5 DEF e
  <2> HIDE DEF bump
  <2>5. [row EXCEPT ![w] = bump(row[w])] \in Rows
    BY <1>1, <2>4
  <2> QED BY <2>5 DEF w
<1> QED BY <1>1, <1>3, <1>4 DEF Update, Tables
-----------------------------------------------------------------------------
(* What an update does, and what the predictor reports.                    *)

(* q is p but for way w of c's set, which holds e: an entry of candidate k *)
(* for context c, either the one that was there, counted up or saturated,  *)
(* or a first one, in a free way or in that of the least supported entry.  *)
UpdatesBy(p, q, c, k, s, w, e) ==
  /\ w \in 1 .. Ways /\ e \in Entries
  /\ e.ctx = c /\ e.cand = k /\ e.seq = s
  /\ q = [p EXCEPT ![SetOf[c]] = [p[SetOf[c]] EXCEPT ![w] = e]]
  /\ LET row == p[SetOf[c]]
     IN  \/ /\ row[w] # Free /\ row[w].ctx = c /\ row[w].cand = k
            /\ e.count = row[w].count \/ e.count = row[w].count + 1
         \/ /\ \A v \in 1 .. Ways : row[v] # Free => row[v].ctx # c \/ row[v].cand # k
            /\ e.count = 1
            /\ \/ row[w] = Free
               \/ \A v \in 1 .. Ways : row[v] # Free /\ row[w].count <= row[v].count

(* A full set has a victim, and nothing in the set is supported less.      *)
LEMMA VictimIs ==
  ASSUME NEW row \in [1 .. Ways -> Entries]
  PROVE  /\ Victim(row) \in 1 .. Ways
         /\ \A v \in 1 .. Ways : row[Victim(row)].count <= row[v].count
<1> DEFINE Beats(w, v) == \/ row[w].count < row[v].count
                          \/ row[w].count = row[v].count /\ row[w].seq < row[v].seq
                          \/ row[w].count = row[v].count /\ row[w].seq = row[v].seq /\ w <= v
           N == {row[w].count : w \in 1 .. Ways}
           Least == {w \in 1 .. Ways : \A v \in 1 .. Ways : row[w].count <= row[v].count}
           S == {row[w].seq : w \in Least}
           Oldest == {w \in Least : \A v \in Least : row[w].seq <= row[v].seq}
<1>1. \A w \in 1 .. Ways : row[w].count \in Nat /\ row[w].seq \in Nat
  BY PredictorAssumption DEF Entries
<1>2. Least # {}
  <2>1. N \subseteq Nat
    BY <1>1
  <2>2. 1 \in 1 .. Ways /\ row[1].count \in N
    BY PredictorAssumption
  <2>3. PICK n \in N : \A m \in N : n <= m
    <3> HIDE DEF N
    <3> QED BY <2>1, <2>2, LeastExists
  <2>4. PICK w \in 1 .. Ways : row[w].count = n
    BY <2>3
  <2>5. w \in Least
    BY <2>3, <2>4
  <2> QED BY <2>5
<1>3. Oldest # {}
  <2>1. S \subseteq Nat /\ S # {}
    BY <1>1, <1>2
  <2>2. PICK n \in S : \A m \in S : n <= m
    <3> HIDE DEF S
    <3> QED BY <2>1, LeastExists
  <2>3. PICK w \in Least : row[w].seq = n
    BY <2>2
  <2>4. w \in Oldest
    BY <2>2, <2>3
  <2> QED BY <2>4
<1>4. PICK w \in Oldest : \A v \in Oldest : w <= v
  <2>1. Oldest \subseteq Nat
    OBVIOUS
  <2> HIDE DEF Oldest
  <2> QED BY <2>1, <1>3, LeastExists
<1>5. \A v \in 1 .. Ways : Beats(w, v)
  <2> SUFFICES ASSUME NEW v \in 1 .. Ways PROVE Beats(w, v)
    OBVIOUS
  <2>1. /\ w \in Least /\ row[w].count <= row[v].count
        /\ row[w].count \in Nat /\ row[v].count \in Nat
        /\ row[w].seq \in Nat /\ row[v].seq \in Nat
    BY <1>1
  <2>2. CASE row[w].count < row[v].count
    BY <2>2
  <2>3. CASE row[w].count = row[v].count
    <3>1. v \in Least
      BY <2>1, <2>3
    <3>2. row[w].seq <= row[v].seq
      BY <3>1, <1>4
    <3>3. CASE row[w].seq < row[v].seq
      BY <2>3, <3>3
    <3>4. CASE row[w].seq = row[v].seq
      <4>1. \A u \in Least : row[v].seq <= row[u].seq
        BY <3>4, <1>4
      <4>2. v \in Oldest
        BY <3>1, <4>1
      <4> QED BY <2>3, <3>4, <4>2, <1>4
    <3> QED BY <3>2, <3>3, <3>4, <2>1
  <2> QED BY <2>1, <2>2, <2>3
<1> DEFINE x == Victim(row)
<1>6. x \in 1 .. Ways /\ \A v \in 1 .. Ways : Beats(x, v)
  <2>1. x = CHOOSE u \in 1 .. Ways : \A v \in 1 .. Ways : Beats(u, v)
    BY DEF Victim
  <2>2. w \in 1 .. Ways
    OBVIOUS
  <2> HIDE DEF Beats, x
  <2> QED BY <2>1, <2>2, <1>5
<1>7. ASSUME NEW v \in 1 .. Ways PROVE row[x].count <= row[v].count
  <2>1. Beats(x, v) /\ row[x].count \in Nat /\ row[v].count \in Nat
    BY <1>1, <1>6
  <2> HIDE DEF x
  <2> QED BY <2>1
<1> QED BY <1>6, <1>7

(* Every update is one of these.                                           *)
LEMMA UpdateIs ==
  ASSUME NEW p \in Tables, NEW c \in Contexts, NEW k \in Candidates, NEW s \in Nat
  PROVE  \E w, e : UpdatesBy(p, Update(p, c, k, s), c, k, s, w, e)
<1> DEFINE row   == p[SetOf[c]]
           hits  == {w \in Matching(p, c) : row[w].cand = k}
           free  == {w \in 1 .. Ways : row[w] = Free}
           fresh == NewEntry(c, k, s)
           bump(x) == [x EXCEPT !.seq = s,
                                !.count = IF @ < CountMax THEN @ + 1 ELSE @]
<1>1. SetOf[c] \in Sets /\ row \in [1 .. Ways -> Entries \cup {Free}]
  BY PredictorAssumption DEF Tables
<1>2. fresh \in Entries /\ fresh.ctx = c /\ fresh.cand = k /\ fresh.seq = s /\ fresh.count = 1
  BY PredictorAssumption DEF Entries, NewEntry
<1>3. CASE hits # {}
  <2> DEFINE w == CHOOSE h \in hits : TRUE
             e == bump(row[w])
  <2>1. w \in hits
    BY <1>3
  <2>2. w \in 1 .. Ways /\ row[w] # Free /\ row[w].ctx = c /\ row[w].cand = k
    BY <2>1 DEF Matching
  <2>3. Update(p, c, k, s) = [p EXCEPT ![SetOf[c]] = [row EXCEPT ![w] = e]]
    BY <1>3 DEF Update
  <2> HIDE DEF w
  <2>4. row[w] \in Entries
    BY <1>1, <2>2
  <2>5. /\ e \in Entries /\ e.ctx = row[w].ctx /\ e.cand = row[w].cand /\ e.seq = s
        /\ e.count = row[w].count \/ e.count = row[w].count + 1
    <3> DEFINE x == row[w]
    <3>1. x \in [ctx : Contexts, cand : Candidates, count : 1 .. CountMax, seq : Nat]
      BY <2>4 DEF Entries
    <3> HIDE DEF x
    <3> DEFINE q == IF x.count < CountMax THEN x.count + 1 ELSE x.count
               y == [x EXCEPT !.seq = s, !.count = q]
    <3>2. q \in 1 .. CountMax /\ (q = x.count \/ q = x.count + 1)
      BY <3>1, PredictorAssumption
    <3>3. bump(x) = y
      OBVIOUS
    <3> HIDE DEF q
    <3>4. /\ y \in [ctx : Contexts, cand : Candidates, count : 1 .. CountMax, seq : Nat]
          /\ y.ctx = x.ctx /\ y.cand = x.cand /\ y.seq = s /\ y.count = q
      BY <3>1, <3>2
    <3> HIDE DEF y, bump
    <3>5. /\ bump(x) \in Entries /\ bump(x).ctx = x.ctx /\ bump(x).cand = x.cand
          /\ bump(x).seq = s
          /\ bump(x).count = x.count \/ bump(x).count = x.count + 1
      BY <3>2, <3>3, <3>4 DEF Entries
    <3> QED BY <3>5 DEF x
  <2> HIDE DEF e
  <2>6. UpdatesBy(p, Update(p, c, k, s), c, k, s, w, e)
    BY <2>2, <2>3, <2>5 DEF UpdatesBy
  <2> QED BY <2>6
<1>4. CASE hits = {}
  <2> DEFINE w == IF free # {} THEN FirstOf(free) ELSE Victim(row)
  <2>1. Update(p, c, k, s) = [p EXCEPT ![SetOf[c]] = [row EXCEPT ![w] = fresh]]
    BY <1>4 DEF Update
  <2>2. \A v \in 1 .. Ways : row[v] # Free => row[v].ctx # c \/ row[v].cand # k
    BY <1>4 DEF Matching
  <2>3. CASE free # {}
    <3>1. free \subseteq Nat
      OBVIOUS
    <3>2. PICK u \in free : \A v \in free : u <= v
      <4> HIDE DEF free
      <4> QED BY <2>3, <3>1, LeastExists
    <3>3. FirstOf(free) \in free
      <4> HIDE DEF free
      <4> QED BY <3>2 DEF FirstOf
    <3>4. w \in 1 .. Ways /\ row[w] = Free
      BY <2>3, <3>3
    <3> HIDE DEF w, fresh
    <3>5. UpdatesBy(p, Update(p, c, k, s), c, k, s, w, fresh)
      BY <1>2, <2>1, <2>2, <3>4 DEF UpdatesBy
    <3> QED BY <3>5
  <2>4. CASE free = {}
    <3>1. \A v \in 1 .. Ways : row[v] # Free
      BY <2>4
    <3>2. row \in [1 .. Ways -> Entries]
      BY <1>1, <3>1
    <3>3. w = Victim(row)
      BY <2>4
    <3> HIDE DEF row, w, fresh
    <3>4. w \in 1 .. Ways /\ \A v \in 1 .. Ways : row[w].count <= row[v].count
      BY <3>2, <3>3, VictimIs
    <3>5. UpdatesBy(p, Update(p, c, k, s), c, k, s, w, fresh)
      BY <1>2, <2>1, <2>2, <3>1, <3>4 DEF UpdatesBy, row
    <3> QED BY <3>5
  <2> QED BY <2>3, <2>4
<1> QED BY <1>3, <1>4

(* Every entry is in the set its context hashes to, and no two of a set    *)
(* are for the same context and candidate.                                 *)
EntriesAreSound(p) ==
  \A g \in Sets : \A w \in 1 .. Ways : p[g][w] # Free =>
    /\ SetOf[p[g][w].ctx] = g
    /\ \A v \in 1 .. Ways :
         p[g][v] # Free /\ p[g][v].ctx = p[g][w].ctx /\ p[g][v].cand = p[g][w].cand => v = w

LEMMA UpdateSound ==
  ASSUME NEW p \in Tables, NEW c \in Contexts, NEW k \in Candidates, NEW s \in Nat,
         EntriesAreSound(p), Free \notin Entries
  PROVE  EntriesAreSound(Update(p, c, k, s))
<1> DEFINE q == Update(p, c, k, s)
<1>1. PICK w, e : UpdatesBy(p, q, c, k, s, w, e)
  BY UpdateIs
<1> HIDE DEF q
<1>2. /\ w \in 1 .. Ways /\ e \in Entries /\ e # Free /\ e.ctx = c /\ e.cand = k
      /\ SetOf[c] \in Sets
      /\ q = [p EXCEPT ![SetOf[c]] = [p[SetOf[c]] EXCEPT ![w] = e]]
      /\ \A v \in 1 .. Ways :
           LET x == p[SetOf[c]][v]
           IN  x # Free /\ x.ctx = c /\ x.cand = k => v = w
  <2>1. /\ w \in 1 .. Ways /\ e \in Entries /\ e # Free /\ e.ctx = c /\ e.cand = k
        /\ SetOf[c] \in Sets
        /\ q = [p EXCEPT ![SetOf[c]] = [p[SetOf[c]] EXCEPT ![w] = e]]
    BY <1>1, PredictorAssumption DEF UpdatesBy
  <2> DEFINE row == p[SetOf[c]]
  <2>2. \/ row[w] # Free /\ row[w].ctx = c /\ row[w].cand = k
        \/ \A v \in 1 .. Ways : row[v] # Free => row[v].ctx # c \/ row[v].cand # k
    BY <1>1 DEF UpdatesBy
  <2>3. ASSUME NEW v \in 1 .. Ways, row[v] # Free, row[v].ctx = c, row[v].cand = k
        PROVE  v = w
    <3>1. row[w] # Free /\ row[w].ctx = c /\ row[w].cand = k
      BY <2>2, <2>3
    <3> QED BY <3>1, <2>1, <2>3 DEF EntriesAreSound
  <2> QED BY <2>1, <2>3
<1>3. ASSUME NEW g \in Sets, NEW v \in 1 .. Ways
      PROVE  q[g][v] = IF g = SetOf[c] /\ v = w THEN e ELSE p[g][v]
  <2>1. p \in [Sets -> [1 .. Ways -> Entries \cup {Free}]]
    BY DEF Tables
  <2> QED BY <1>2, <2>1
<1>4. ASSUME NEW g \in Sets, NEW v \in 1 .. Ways, q[g][v] # Free
      PROVE  /\ SetOf[q[g][v].ctx] = g
             /\ \A u \in 1 .. Ways :
                  q[g][u] # Free /\ q[g][u].ctx = q[g][v].ctx /\ q[g][u].cand = q[g][v].cand
                    => u = v
  <2>1. SetOf[q[g][v].ctx] = g
    BY <1>2, <1>3, <1>4 DEF EntriesAreSound
  <2>2. ASSUME NEW u \in 1 .. Ways, q[g][u] # Free, q[g][u].ctx = q[g][v].ctx,
               q[g][u].cand = q[g][v].cand
        PROVE  u = v
    <3>1. CASE g = SetOf[c] /\ v = w
      BY <1>2, <1>3, <2>2, <3>1
    <3>2. CASE g = SetOf[c] /\ u = w
      BY <1>2, <1>3, <1>4, <2>2, <3>2
    <3>3. CASE g # SetOf[c] \/ (v # w /\ u # w)
      <4>1. q[g][v] = p[g][v] /\ q[g][u] = p[g][u]
        BY <1>3, <3>3
      <4> QED BY <4>1, <1>4, <2>2 DEF EntriesAreSound
    <3> QED BY <3>1, <3>2, <3>3
  <2> QED BY <2>1, <2>2
<1>5. EntriesAreSound(q)
  BY <1>4 DEF EntriesAreSound
<1> QED BY <1>5 DEF q

(* k is the best supported candidate for c in p, the lowest of its equals. *)
BestOf(p, c, k) ==
  LET row == p[SetOf[c]] IN
  \E w \in Matching(p, c) :
    /\ row[w].cand = k
    /\ \A v \in Matching(p, c) :
         row[v].count < row[w].count \/ (row[v].count = row[w].count /\ k <= row[v].cand)

(* There is one whenever there is anything to report, and it is reported.  *)
LEMMA PredictIs ==
  ASSUME NEW p \in Tables, NEW c \in Contexts, Predictable(p, c)
  PROVE  BestOf(p, c, Predict(p, c))
<1> DEFINE row == p[SetOf[c]]
           M == Matching(p, c)
           Beats(w, v) == \/ row[v].count < row[w].count
                          \/ row[v].count = row[w].count /\ row[v].cand >= row[w].cand
           N == {row[w].count : w \in M}
           Most == {w \in M : \A v \in M : row[v].count <= row[w].count}
           K == {row[w].cand : w \in Most}
<1>1. /\ M # {}
      /\ \A w \in M : row[w].count \in 1 .. CountMax /\ row[w].cand \in Nat
  <2>1. row \in [1 .. Ways -> Entries \cup {Free}]
    BY PredictorAssumption DEF Tables
  <2>2. \A w \in M : w \in 1 .. Ways /\ row[w] # Free
    BY DEF Matching
  <2>3. \A w \in M : row[w] \in Entries
    BY <2>1, <2>2
  <2> QED BY <2>3, PredictorAssumption DEF Entries, Predictable
<1> HIDE DEF M
<1>2. Most # {}
  <2>1. N \subseteq 1 .. CountMax /\ N # {} /\ CountMax \in Nat
    BY <1>1, PredictorAssumption
  <2>2. PICK n \in N : \A m \in N : m <= n
    <3> HIDE DEF N
    <3> QED BY <2>1, MaxExists
  <2>3. PICK w \in M : row[w].count = n
    BY <2>2
  <2>4. w \in Most
    BY <2>2, <2>3
  <2> QED BY <2>4
<1>3. PICK w \in Most : \A v \in Most : row[w].cand <= row[v].cand
  <2>1. K \subseteq Nat /\ K # {}
    BY <1>1, <1>2
  <2>2. PICK n \in K : \A m \in K : n <= m
    <3> HIDE DEF K
    <3> QED BY <2>1, LeastExists
  <2>3. PICK w \in Most : row[w].cand = n
    BY <2>2
  <2> QED BY <2>2, <2>3
<1>4. w \in M /\ \A v \in M : Beats(w, v)
  <2>1. ASSUME NEW v \in M PROVE Beats(w, v)
    <3>1. /\ row[v].count <= row[w].count
          /\ row[v].count \in Nat /\ row[w].count \in Nat
          /\ row[v].cand \in Nat /\ row[w].cand \in Nat
      BY <1>1
    <3>2. CASE row[v].count = row[w].count
      <4>1. v \in Most
        BY <3>2
      <4> QED BY <3>1, <3>2, <4>1, <1>3
    <3> QED BY <3>1, <3>2
  <2> QED BY <2>1
<1> DEFINE best == CHOOSE u \in M : \A v \in M : Beats(u, v)
<1>5. best \in M /\ \A v \in M : Beats(best, v)
  <2> HIDE DEF Beats
  <2> QED BY <1>4
<1>6. Predict(p, c) = row[best].cand
  BY DEF Predict, M
<1>7. ASSUME NEW v \in M
      PROVE  \/ row[v].count < row[best].count
             \/ row[v].count = row[best].count /\ row[best].cand <= row[v].cand
  <2>1. Beats(best, v) /\ row[best].cand \in Nat /\ row[v].cand \in Nat
    BY <1>1, <1>5
  <2> HIDE DEF best
  <2> QED BY <2>1
<1> HIDE DEF best
<1> QED BY <1>5, <1>6, <1>7 DEF BestOf, M
=============================================================================
