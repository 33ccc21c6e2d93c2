----------------------------- MODULE RecordBank -----------------------------
(***************************************************************************)
(* The circular bank that tools/frida-runtime-stability-recorder.c and     *)
(* tools/frida-runtime-crash-observer.c both keep.  The hash that chains   *)
(* the records is taken as collision free, and is represented by the       *)
(* number of records hashed into it.                                       *)
(***************************************************************************)
EXTENDS Integers, Sequences

CONSTANTS Capacity,  \* FRIDA_RS_EVENT_CAPACITY, FRIDA_RCO_EVENT_CAPACITY
          Blank      \* a zeroed record

ASSUME CapacityAssumption == Capacity \in Nat \ {0}

Slots == 0 .. Capacity - 1

BlankBank(chain) ==
  [records |-> [i \in Slots |-> Blank], write |-> 0, readable |-> 0,
   chain |-> chain]

ReadableAfterCommit(bank) ==
  IF bank.readable < Capacity THEN bank.readable + 1 ELSE bank.readable

Commit(bank, body) ==
  [records  |-> [bank.records EXCEPT ![bank.write] =
                   [body |-> body, chain |-> bank.chain + 1]],
   write    |-> (bank.write + 1) % Capacity,
   readable |-> ReadableAfterCommit(bank),
   chain    |-> bank.chain + 1]

Oldest(bank) == (bank.write + Capacity - bank.readable) % Capacity

Copied(bank, count) ==
  [i \in 1 .. count |-> bank.records[(Oldest(bank) + i - 1) % Capacity]]

(* Faulty form: a drain empties the bank whatever it copied.               *)
DrainedWholly(bank, count) == [bank EXCEPT !.readable = 0]

Drained(bank, count) == [bank EXCEPT !.readable = @ - count]

(* What a drain into a large enough buffer would copy.                     *)
Pending(bank) == Copied(bank, bank.readable)
=============================================================================
