----------------------------- MODULE RecordFile -----------------------------
(***************************************************************************)
(* The RFL store file as the operations of learning_store.c see it: a      *)
(* header and a sequence of 64-byte record slots.  A slot whose bytes fail *)
(* the per-record CRC, or that the end of the file cuts short, is Garbage; *)
(* a header that fails its checks is TornHeader; NoHeader is the empty     *)
(* file that open(O_CREAT) leaves behind.                                  *)
(*                                                                         *)
(* A page-cache image (what pread returns) and a disk image (what survives *)
(* a power loss) are both values of this kind.  The kernel below pwrite,   *)
(* ftruncate and fdatasync is external and modelled from how the store     *)
(* uses it.                                                                *)
(***************************************************************************)
EXTENDS Integers, Sequences

CONSTANTS Garbage, NoHeader, TornHeader

EmptyFile == [hdr |-> NoHeader, recs |-> << >>]

(* A header image: the two fields the store ever changes.                  *)
Header(e, n) == [epoch |-> e, committed |-> n]

(* pwrite of the whole of s at record offset off (off <= Len(f)).          *)
WriteAt(f, off, s) ==
  [i \in 1 .. (IF Len(f) > off + Len(s) THEN Len(f) ELSE off + Len(s)) |->
     IF i > off /\ i <= off + Len(s) THEN s[i - off] ELSE f[i]]

(* pwrite that stopped inside record j+1 of s: rfl_write_full_at returns an *)
(* error after any number of bytes.  A slot that already held the record   *)
(* being written is not damaged by writing part of it again.               *)
WriteTorn(f, off, s, j) ==
  LET old == IF off + j + 1 <= Len(f) THEN f[off + j + 1] ELSE Garbage
  IN  WriteAt(f, off, Append(SubSeq(s, 1, j),
                             IF old = s[j + 1] THEN old ELSE Garbage))

(* ftruncate to n records.                                                 *)
Truncate(f, n) == SubSeq(f, 1, n)

(* Length of the longest prefix in which every slot passes its CRC.        *)
VerifiedLen(f) ==
  CHOOSE n \in 0 .. Len(f) : /\ \A i \in 1 .. n : f[i] # Garbage
                             /\ n < Len(f) => f[n + 1] = Garbage

VerifiedPrefix(f) == SubSeq(f, 1, VerifiedLen(f))

(* What a slot may hold after a power loss.  A slot whose cached and       *)
(* durable contents agree was not dirty and is unharmed; a dirty one is    *)
(* old, new, or half of each.                                              *)
SlotsAfterLoss(d, c, i) ==
  CASE i <= Len(d) /\ i <= Len(c) ->
         IF d[i] = c[i] THEN {c[i]} ELSE {d[i], c[i], Garbage}
    [] i <= Len(c) /\ i > Len(d)  -> {c[i], Garbage}
    [] OTHER                      -> {d[i]}

(* The record areas a power loss may leave of durable area d and cached    *)
(* area c.  The length is a single metadata update: old or new.            *)
AreasAfterLoss(d, c) ==
  LET Area(n) == {g \in [1 .. n -> UNION {SlotsAfterLoss(d, c, i) : i \in 1 .. n}] :
                    \A i \in 1 .. n : g[i] \in SlotsAfterLoss(d, c, i)}
  IN  Area(Len(d)) \cup Area(Len(c))

(* A header that was being rewritten in place is old, new, or half of each. *)
HeadersAfterLoss(d, c) == IF d = c THEN {c} ELSE {d, c, TornHeader}

(* A file that has records but never got its header has zeros in its place. *)
FilesAfterLoss(d, c) ==
  LET Headed(h, r) == IF h = NoHeader /\ r # << >> THEN TornHeader ELSE h
  IN  {[hdr |-> Headed(h, r), recs |-> r] :
         h \in HeadersAfterLoss(d.hdr, c.hdr), r \in AreasAfterLoss(d.recs, c.recs)}
=============================================================================
