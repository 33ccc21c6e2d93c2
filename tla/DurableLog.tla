----------------------------- MODULE DurableLog -----------------------------
(***************************************************************************)
(* What a learning store promises of its log, in the terms of its callers: *)
(* while it is open, records are numbered and appended one at a time, and  *)
(* a durable call confirms all of them.  Opening it changes nothing.  When *)
(* it closes or fails it may lose the most recent records, but never a     *)
(* confirmed one and never one from the middle; unless its header is torn  *)
(* just then, for a log with a torn header is refused as a whole.  Of a    *)
(* machine that may lose its power it promises less: behind the confirmed  *)
(* records others may come back, and a header that is not synced may be    *)
(* torn by the loss itself.                                                *)
(***************************************************************************)
EXTENDS Integers, Sequences

CONSTANT Record   \* records, with a field seq

VARIABLES log,       \* the records that a reader would be given
          confirmed, \* those that the last durable call has confirmed
          open,      \* calls are answered
          header     \* of the log: on the disk ("synced"), whole but perhaps
                     \* not on the disk ("written"), or "torn"

promiseVars == <<log, confirmed, open, header>>

HeaderStates == {"synced", "written", "torn"}

(* All of s is there, first and in place.                                  *)
Begins(l, s) == Len(s) <= Len(l) /\ \A i \in 1 .. Len(s) : l[i] = s[i]

LogInit == log = << >> /\ confirmed = << >> /\ open = FALSE /\ header = "synced"

(* The header of a new log is written, or only part of it.                 *)
Create ==
  /\ ~open /\ log = << >> /\ confirmed = << >> /\ header # "torn"
  /\ header' \in HeaderStates
  /\ UNCHANGED <<log, confirmed, open>>

Open ==
  /\ ~open /\ header # "torn"
  /\ open' = TRUE /\ header' \in {header, "synced"}
  /\ UNCHANGED <<log, confirmed>>

(* Between its records an open log writes its header, or part of it, over  *)
(* the old one, and brings it to the disk.                                 *)
Rewrite == open /\ header' \in HeaderStates /\ UNCHANGED <<log, confirmed, open>>

(* A new record is numbered above all the others.                          *)
AppendRecord ==
  /\ open
  /\ Len(log') = Len(log) + 1
  /\ LET r == log'[Len(log')] IN
       /\ r \in Record
       /\ \A i \in 1 .. Len(log) : log[i].seq < r.seq
       /\ log' = Append(log, r)
  /\ UNCHANGED <<confirmed, open, header>>

(* The last durable call closes the log.                                   *)
Confirm ==
  /\ open /\ header = "synced"
  /\ confirmed' = log /\ open' \in BOOLEAN
  /\ UNCHANGED <<log, header>>

(* What is left when the log is no longer open; a torn header leaves       *)
(* nothing, confirmed or not.                                              *)
Lose ==
  /\ open /\ open' = FALSE
  /\ IF header = "torn" THEN log' = << >>
     ELSE \E n \in Len(confirmed) .. Len(log) : log' = SubSeq(log, 1, n)
  /\ UNCHANGED <<confirmed, header>>

LogNext == Create \/ Open \/ Rewrite \/ AppendRecord \/ Confirm \/ Lose

LogSpec == LogInit /\ [][LogNext]_promiseVars

(* Without power, what was written since the last confirmation is there in *)
(* any part, and what was cut off since then may be there again.  Only a   *)
(* header that was being rewritten can come out torn.                      *)
Resurface ==
  /\ open' = FALSE
  /\ header' \in HeaderStates /\ (header = "synced" => header' = "synced")
  /\ IF header' = "torn" THEN log' = << >>
     ELSE log' \in Seq(Record) /\ Begins(log', confirmed)
  /\ UNCHANGED confirmed

SurvivalNext == Create \/ Open \/ Rewrite \/ AppendRecord \/ Confirm \/ Resurface

SurvivalSpec == LogInit /\ [][SurvivalNext]_promiseVars
=============================================================================
