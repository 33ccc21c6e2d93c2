----------------------------- MODULE DumpStore -----------------------------
(***************************************************************************)
(* The directory of runtime stability dumps and its two kinds of writers:  *)
(* write_append_only of tools/runtime_stability_storage.py, which works    *)
(* under a lock and chains its dumps, and the controller                   *)
(* tools/capture-runtime-stability-dump.py, which does neither and keeps a *)
(* ledger.  Every writer is a process that writes one dump, named like the *)
(* writer.  Any process may die between two steps; the power may fail.     *)
(***************************************************************************)
EXTENDS Naturals, Sequences, FiniteSets, SequencesExt

CONSTANTS Storers, Controllers,  \* the processes of either kind
          Genesis,               \* the predecessor of the first dump
          MaxDumps,              \* --max-dumps
          Ledgers,               \* what earlier runs may have left as ledger
          MaxAccidents           \* bound: deaths, power losses, full disks

ASSUME DumpAssumption ==
  /\ Storers \cap Controllers = {} /\ Genesis \notin Storers \cup Controllers
  /\ MaxDumps \in Nat \ {0}
  /\ MaxAccidents \in Nat

Writers == Storers \cup Controllers

VARIABLES
  dir,       \* names in the directory: <<writer, kind>>, and the ledger's
  synced,    \* those that a power loss leaves
  partial,   \* those whose content is not complete
  order,     \* the controllers' dumps, oldest first
  previous,  \* of each storer: the previous_dump_sha256 in its dump
  ledger,    \* its lines
  at, lock,  \* where each writer stands; who holds the directory's lock
  accidents  \* how many there were

dumpVars == <<dir, synced, partial, order, previous, ledger, at, lock, accidents>>

Ledger == <<Genesis, "ledger">>
Begin == <<"begin", "none">>
Refused == <<"refused", "none">>
Published == <<"published", "none">>

DumpInit ==
  /\ ledger \in Ledgers /\ dir = {Ledger : line \in ToSet(ledger)}
  /\ synced = dir /\ partial = {} /\ order = << >>
  /\ previous = [s \in Storers |-> Genesis]
  /\ at = [w \in Writers |-> Begin] /\ lock = Genesis
  /\ accidents = 0

Goes(w, from, to) == at[w] = from /\ at' = [at EXCEPT ![w] = to]
Accident == accidents < MaxAccidents /\ accidents' = accidents + 1
Dumps == {w \in Writers : <<w, "dump">> \in dir}

-----------------------------------------------------------------------------
(* runtime_stability_storage.py                                            *)

Chained == Dumps \cap Storers

(* Faulty form: nobody looks for what an earlier writer left behind.       *)
NothingIsLeftUnseen == TRUE

(* No temporary file; a sidecar for every dump and for nothing else.       *)
NothingIsLeft ==
  /\ \A w \in Writers : <<w, "dumptmp">> \notin dir /\ <<w, "sidetmp">> \notin dir
  /\ \A w \in Writers : <<w, "dump">> \in dir <=> <<w, "side">> \in dir

(* validate_directory_integrity: besides, every digest verifies, every     *)
(* predecessor is there, none has two successors, the chain has one head.  *)
DirectoryIsSound ==
  /\ NothingIsLeft
  /\ partial = {}
  /\ \A s \in Chained : previous[s] \in Dumps \cup {Genesis}
  /\ \A s, t \in Chained : previous[s] = previous[t] => s = t
  /\ Chained # {} => Cardinality(Chained \ {previous[s] : s \in Chained}) = 1

(* latest_dump_sha256: the head of the chain, else the newest dump.        *)
LatestDump ==
  IF Chained # {} THEN CHOOSE s \in Chained : \A t \in Chained : previous[t] # s
  ELSE IF Dumps # {} THEN Last(SelectSeq(order, LAMBDA c : c \in Dumps)) ELSE Genesis

(* The caller asks for the predecessor before it calls write_append_only.  *)
ObservePrevious(s) ==
  /\ Goes(s, Begin, <<"observed", "none">>) /\ DirectoryIsSound
  /\ previous' = [previous EXCEPT ![s] = LatestDump]
  /\ UNCHANGED <<dir, synced, partial, order, ledger, lock, accidents>>

LockDirectory(s) ==
  /\ Goes(s, <<"observed", "none">>, <<"locked", "none">>)
  /\ lock = Genesis /\ lock' = s
  /\ UNCHANGED <<dir, synced, partial, order, previous, ledger, accidents>>

(* retention_preflight, under the lock.                                    *)
RetentionPreflight(s) ==
  /\ Goes(s, <<"locked", "none">>, <<"fits", "none">>)
  /\ Cardinality(Dumps) < MaxDumps /\ DirectoryIsSound
  /\ UNCHANGED <<dir, synced, partial, order, previous, ledger, lock, accidents>>

(* The preflight refuses, if only for the bytes, or the predecessor is not *)
(* the one that was observed.                                              *)
Refuse(s) ==
  /\ \/ Goes(s, <<"locked", "none">>, Refused)
     \/ Goes(s, <<"fits", "none">>, Refused) /\ (~DirectoryIsSound \/ previous[s] # LatestDump)
  /\ lock' = Genesis
  /\ UNCHANGED <<dir, synced, partial, order, previous, ledger, accidents>>

(* Faulty form: what was observed before the lock was taken is believed.   *)
PredecessorIsBelieved(s) ==
  /\ Goes(s, <<"fits", "none">>, <<"write", "dump">>)
  /\ UNCHANGED <<dir, synced, partial, order, previous, ledger, lock, accidents>>

PredecessorIsCurrent(s) ==
  /\ Goes(s, <<"fits", "none">>, <<"write", "dump">>)
  /\ DirectoryIsSound /\ previous[s] = LatestDump
  /\ UNCHANGED <<dir, synced, partial, order, previous, ledger, lock, accidents>>

(* publish_exclusive: the temporary file with its fsync, the link, the     *)
(* directory's fsync and the end of the temporary file, first for the dump *)
(* and then for its sidecar.                                               *)
Temporary(s, kind) == <<s, IF kind = "dump" THEN "dumptmp" ELSE "sidetmp">>

WriteTemporary(s, kind) ==
  /\ Goes(s, <<"write", kind>>, <<"link", kind>>)
  /\ dir' = dir \cup {Temporary(s, kind)}
  /\ UNCHANGED <<synced, partial, order, previous, ledger, lock, accidents>>

LinkFile(s, kind) ==
  /\ Goes(s, <<"link", kind>>, <<"sync", kind>>)
  /\ dir' = dir \cup {<<s, kind>>}
  /\ UNCHANGED <<synced, partial, order, previous, ledger, lock, accidents>>

(* Faulty form: the directory itself is not synced.                        *)
SkipFsync(s, kind) ==
  /\ Goes(s, <<"sync", kind>>, <<"unlink", kind>>)
  /\ UNCHANGED <<dir, synced, partial, order, previous, ledger, lock, accidents>>

FsyncDirectory(s, kind) ==
  /\ Goes(s, <<"sync", kind>>, <<"unlink", kind>>)
  /\ synced' = dir
  /\ UNCHANGED <<dir, partial, order, previous, ledger, lock, accidents>>

UnlinkTemporary(s, kind) ==
  /\ Goes(s, <<"unlink", kind>>, IF kind = "dump" THEN <<"write", "side">> ELSE Published)
  /\ dir' = dir \ {Temporary(s, kind)}
  /\ lock' = IF kind = "dump" THEN lock ELSE Genesis
  /\ UNCHANGED <<synced, partial, order, previous, ledger, accidents>>

(* An error removes the temporary file; what was linked stays, a dump      *)
(* without sidecar too.                                                    *)
PublishFails(s, kind) ==
  /\ \E step \in {"write", "link", "sync"} : Goes(s, <<step, kind>>, Refused)
  /\ Accident
  /\ dir' = dir \ {Temporary(s, kind)} /\ lock' = Genesis
  /\ UNCHANGED <<synced, partial, order, previous, ledger>>

-----------------------------------------------------------------------------
(* capture-runtime-stability-dump.py                                       *)

(* retention_preflight, before the target is even attached to.             *)
CheckRetention(c) ==
  /\ \/ Cardinality(Dumps) < MaxDumps /\ Goes(c, Begin, <<"create", "dump">>)
     \/ Goes(c, Begin, Refused)
  /\ UNCHANGED <<dir, synced, partial, order, previous, ledger, lock, accidents>>

(* The session fails, times out, or yields a dump that is not valid.       *)
CaptureFails(c) ==
  /\ Goes(c, <<"create", "dump">>, Refused)
  /\ UNCHANGED <<dir, synced, partial, order, previous, ledger, lock, accidents>>

CreateFile(c, kind) ==
  /\ Goes(c, <<"create", kind>>, <<"fill", kind>>)
  /\ dir' = dir \cup {<<c, kind>>} /\ partial' = partial \cup {<<c, kind>>}
  /\ order' = IF kind = "dump" THEN Append(order, c) ELSE order
  /\ UNCHANGED <<synced, previous, ledger, lock, accidents>>

FillFile(c, kind) ==
  /\ \/ Goes(c, <<"fill", kind>>, IF kind = "dump" THEN <<"create", "side">> ELSE <<"append", "none">>)
        /\ partial' = partial \ {<<c, kind>>} /\ UNCHANGED accidents
     \/ Goes(c, <<"fill", kind>>, Refused) /\ Accident /\ UNCHANGED partial
  /\ UNCHANGED <<dir, synced, order, previous, ledger, lock>>

Line(text, c, p) == [text |-> text, dump |-> c, previous |-> p]
Lines == [text     : {"record", "torn", "garbage"},
          dump     : Controllers \cup {Genesis},
          previous : Controllers \cup {Genesis, "TOKEN_VAZIO_LEDGER_PARSE"}]

(* Each record names the dump of the line before, or that it is unreadable. *)
Linked(lines) ==
  \A i \in 2 .. Len(lines) : lines[i].text = "record" =>
    lines[i].previous = IF lines[i-1].text = "record" THEN lines[i-1].dump
                                                      ELSE "TOKEN_VAZIO_LEDGER_PARSE"

ASSUME LedgerAssumption == \A lines \in Ledgers : lines \in Seq(Lines) /\ Linked(lines)

(* Faulty form: lines that cannot be read are passed over.                 *)
LedgerHeadReadable ==
  LET read == SelectSeq(ledger, LAMBDA l : l.text = "record")
  IN IF read = << >> THEN Genesis ELSE Last(read).dump

(* What the newest line names: nothing that can be read, if it is torn.    *)
LedgerHead ==
  IF ledger = << >> THEN Genesis
  ELSE IF Last(ledger).text = "record" THEN Last(ledger).dump ELSE "TOKEN_VAZIO_LEDGER_PARSE"

(* A line that was cut off has no newline: the next one continues it.      *)
Written(text, c, p) ==
  IF ledger # << >> /\ Last(ledger).text = "torn"
  THEN Front(ledger) \o <<Line(IF text = "torn" THEN "torn" ELSE "garbage", c, p)>>
  ELSE Append(ledger, Line(text, c, p))

(* append_hash_chain reads and writes under the ledger's own lock.  The    *)
(* file is unbuffered and nobody looks at how much was written.            *)
AppendHashChain(c) ==
  /\ Goes(c, <<"append", "none">>, Published)
  /\ dir' = dir \cup {Ledger}
  /\ \/ ledger' = Written("record", c, LedgerHead) /\ UNCHANGED accidents
     \/ ledger' = Written("torn", c, LedgerHead) /\ Accident
  /\ UNCHANGED <<synced, partial, order, previous, lock>>

-----------------------------------------------------------------------------
Finished(w) == at[w] \in {Refused, Published}
Stopped == [w \in Writers |-> IF Finished(w) \/ at[w] = Begin THEN at[w] ELSE Refused]

(* A process that dies gives its locks back and leaves its files.          *)
Die(w) ==
  /\ ~Finished(w) /\ at[w] # Begin
  /\ Accident
  /\ at' = [at EXCEPT ![w] = Refused]
  /\ lock' = IF lock = w THEN Genesis ELSE lock
  /\ UNCHANGED <<dir, synced, partial, order, previous, ledger>>

(* Of the names made or removed since the directory's last fsync, any may  *)
(* be there afterwards.                                                    *)
PowerLoss ==
  /\ Accident
  /\ \E left \in SUBSET ((dir \cup synced) \ (dir \cap synced)) :
       dir' = left \cup (dir \cap synced)
  /\ synced' = dir' /\ partial' = partial \cap dir'
  /\ ledger' = IF Ledger \in dir' THEN ledger ELSE << >>
  /\ at' = Stopped /\ lock' = Genesis
  /\ UNCHANGED <<order, previous>>

DumpNext ==
  \/ \E s \in Storers :
       \/ ObservePrevious(s) \/ LockDirectory(s) \/ RetentionPreflight(s) \/ Refuse(s)
       \/ PredecessorIsCurrent(s)
       \/ \E kind \in {"dump", "side"} :
            \/ WriteTemporary(s, kind) \/ LinkFile(s, kind) \/ FsyncDirectory(s, kind)
            \/ UnlinkTemporary(s, kind) \/ PublishFails(s, kind)
  \/ \E c \in Controllers :
       \/ CheckRetention(c) \/ CaptureFails(c) \/ AppendHashChain(c)
       \/ \E kind \in {"dump", "side"} : CreateFile(c, kind) \/ FillFile(c, kind)
  \/ \E w \in Writers : Die(w)
  \/ PowerLoss

DumpSpec == DumpInit /\ [][DumpNext]_dumpVars

-----------------------------------------------------------------------------
(* The chained dumps form one chain: no two follow the same dump, and at   *)
(* most one follows none of them, whoever dies, and where the power fails. *)
ChainIsOne ==
  /\ \A s, t \in Chained : previous[s] = previous[t] => s = t
  /\ Cardinality({s \in Chained : previous[s] \notin Chained}) <= 1

(* A dump that was reported published, and its sidecar, survive a loss of  *)
(* power.                                                                  *)
PublishedIsDurable ==
  \A s \in Storers : at[s] = Published =>
    {<<s, "dump">>, <<s, "side">>} \subseteq (dir \cap synced) \ partial

(* The ledger never skips: every record names the dump of the line before  *)
(* it, or says that this line cannot be read, though lines are cut off.    *)
LedgerIsLinked == Linked(ledger)

(* Nothing is published over the remains of another chained dump: only a   *)
(* person may clear a directory in which a writer died.                    *)
NothingOverDamage ==
  [][\A s \in Storers : <<s, "dump">> \in dir' \ dir /\ at'[s] = <<"sync", "dump">> =>
       \A t \in Storers \ {s} :
         /\ <<t, "dump">> \in dir <=> <<t, "side">> \in dir
         /\ <<t, "dumptmp">> \notin dir /\ <<t, "sidetmp">> \notin dir]_dumpVars
=============================================================================
