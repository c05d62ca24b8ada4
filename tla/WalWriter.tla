----------------------------- MODULE WalWriter ------------------------------
(***************************************************************************)
(* The write-ahead log file and the single WalWriter that owns it          *)
(* (vidarax-core, timeline.rs).  A file is a sequence of complete records  *)
(* followed by at most one damaged tail:                                   *)
(*   "none"    the file ends with a complete record;                       *)
(*   "torn"    bytes without a final newline follow the last record;       *)
(*   "garbled" a newline-terminated line follows that no record decodes to. *)
(* Byte offsets are counted in records: committed_end and pending_end are  *)
(* only ever moved to the end of a whole record.                           *)
(*                                                                         *)
(* `file' and `tail' are what a read of the file returns (page cache       *)
(* included).  `durable' counts the records known to be on stable storage  *)
(* and `synced' says that everything in the file is, its length included.  *)
(* A process crash keeps the page cache.  A power failure keeps `durable'  *)
(* records, any further prefix, and any tail.                              *)
(*                                                                         *)
(* X_<mistake> is X with that mistake in it.  No behaviour uses it: it     *)
(* stands for the bug that a property of the module catches.               *)
(***************************************************************************)
EXTENDS Integers, Sequences

CONSTANTS Events,      \* the record bodies appended to the log
          MaxFile      \* bound on the records in the file

ASSUME MaxFileAssumption == MaxFile \in Nat

VARIABLES file,           \* complete records, as the next read returns them
          tail,           \* what follows the last complete record
          durable,        \* records that survive a power failure
          synced,         \* nothing in the file is waiting for a sync
          handle,         \* the WalWriter: how far open() got, or its absence
          committed_end,  \* records acknowledged to callers and shown to readers
          pending_end,    \* records staged by this writer
          poisoned        \* a write or a sync of this writer failed

vars == <<file, tail, durable, synced, handle, committed_end, pending_end, poisoned>>
disk == <<file, tail, durable, synced>>
offsets == <<committed_end, pending_end, poisoned>>

Tails == {"none", "torn", "garbled"}
Handles == {"closed", "truncate", "resync", "open", "refused"}

(* A new file is created, locked and synced before anything is scanned. *)
Init ==
  /\ file = <<>>
  /\ tail = "none"
  /\ durable = 0
  /\ synced = TRUE
  /\ handle = "closed"
  /\ committed_end = 0
  /\ pending_end = 0
  /\ poisoned = FALSE

---------------------------------------------------------------------------
(* WalWriter::open *)

(* Scan the locked file: a complete line that does not decode is an error, *)
(* an unterminated one is remembered for truncation.                       *)
OpenScan ==
  /\ handle = "closed"
  /\ handle' = CASE tail = "garbled" -> "refused"
                 [] tail = "torn"    -> "truncate"
                 [] tail = "none"    -> "resync"
  /\ UNCHANGED <<disk, offsets>>

(* set_len(last_complete_end): the page cache loses the torn bytes, stable *)
(* storage may still hold them.                                            *)
OpenTruncate ==
  /\ handle = "truncate"
  /\ tail' = "none"
  /\ synced' = FALSE
  /\ handle' = "resync"
  /\ UNCHANGED <<file, durable, offsets>>

(* sync_file_durable before the recovered records are exposed. *)
OpenSync_unsynced ==
  /\ handle = "resync"
  /\ handle' = "open"
  /\ committed_end' = Len(file)
  /\ pending_end' = Len(file)
  /\ poisoned' = FALSE
  /\ UNCHANGED disk

OpenSync ==
  /\ handle = "resync"
  /\ durable' = Len(file)
  /\ synced' = TRUE
  /\ handle' = "open"
  /\ committed_end' = Len(file)
  /\ pending_end' = Len(file)
  /\ poisoned' = FALSE
  /\ UNCHANGED <<file, tail>>

(* An I/O error in open() drops both locks; the next open starts over. *)
OpenFail ==
  /\ handle \in {"truncate", "resync"}
  /\ handle' = "closed"
  /\ UNCHANGED <<disk, offsets>>

---------------------------------------------------------------------------
(* WalWriter::stage and WalWriter::sync_pending *)

Writable == handle = "open" /\ ~poisoned

(* write_all returned.  Behind torn bytes the new record would complete    *)
(* one malformed line instead of a record.                                 *)
StageOk(e) ==
  /\ Writable
  /\ IF tail = "none"
     THEN file' = Append(file, e) /\ UNCHANGED tail
     ELSE tail' = "garbled" /\ UNCHANGED file
  /\ pending_end' = pending_end + 1
  /\ synced' = FALSE
  /\ UNCHANGED <<durable, handle, committed_end, poisoned>>

(* write_all failed: none or a part of the record reached the file. *)
StageFail_unpoisoned ==
  /\ Writable
  /\ tail' = "torn" /\ synced' = FALSE
  /\ UNCHANGED <<file, durable, handle, offsets>>

StageFail ==
  /\ Writable
  /\ poisoned' = TRUE
  /\ \/ UNCHANGED <<tail, synced>>
     \/ tail' = "torn" /\ synced' = FALSE
  /\ UNCHANGED <<file, durable, handle, committed_end, pending_end>>

SyncOk_early ==
  /\ Writable
  /\ pending_end # committed_end
  /\ committed_end' = pending_end
  /\ UNCHANGED <<disk, handle, pending_end, poisoned>>

SyncOk ==
  /\ Writable
  /\ pending_end # committed_end
  /\ durable' = Len(file)
  /\ synced' = TRUE
  /\ committed_end' = pending_end
  /\ UNCHANGED <<file, tail, handle, pending_end, poisoned>>

(* The staged records stay in the file, unacknowledged. *)
SyncFail ==
  /\ Writable
  /\ pending_end # committed_end
  /\ poisoned' = TRUE
  /\ UNCHANGED <<disk, handle, committed_end, pending_end>>

---------------------------------------------------------------------------
(* The environment *)

(* The process ends: locks and writer are gone, the page cache is not.     *)
(* committed_end keeps the dead writer's value as history.                 *)
ProcessCrash ==
  /\ handle \notin {"closed", "refused"}
  /\ handle' = "closed"
  /\ UNCHANGED <<disk, offsets>>

PowerLoss ==
  /\ handle' = IF handle = "refused" THEN "refused" ELSE "closed"
  /\ \/ synced /\ UNCHANGED disk
     \/ /\ ~synced
        /\ \E k \in durable..Len(file), t \in Tails :
             /\ file' = SubSeq(file, 1, k)
             /\ durable' = k
             /\ tail' = t
        /\ synced' = TRUE
  /\ UNCHANGED offsets

---------------------------------------------------------------------------
Stage == \E e \in Events : Len(file) < MaxFile /\ StageOk(e)

Next ==
  \/ OpenScan \/ OpenTruncate \/ OpenSync \/ OpenFail
  \/ Stage \/ StageFail \/ SyncOk \/ SyncFail
  \/ ProcessCrash \/ PowerLoss

Spec == Init /\ [][Next]_vars

---------------------------------------------------------------------------
(* Properties *)

(* Every offset the writer holds is one a file of MaxFile records can      *)
(* have, and open() is at one of its steps.                                *)
TypeOK ==
  /\ file \in Seq(Events)
  /\ Len(file) <= MaxFile
  /\ tail \in Tails
  /\ durable \in Nat
  /\ synced \in BOOLEAN
  /\ handle \in Handles
  /\ committed_end \in 0..MaxFile
  /\ pending_end \in 0..MaxFile
  /\ poisoned \in BOOLEAN

(* The history readers and acknowledged callers rely on: what              *)
(* read_all_events_up_to(path, Some(committed_end)) returns.               *)
Log == SubSeq(file, 1, IF committed_end <= Len(file) THEN committed_end ELSE Len(file))

(* Every record that was acknowledged or shown to a reader is on stable    *)
(* storage, whatever crashed since: sync_pending moves committed_end only  *)
(* after the sync, and open() syncs what it recovered before exposing it.  *)
CommittedIsDurable == committed_end <= durable /\ durable <= Len(file)

(* The boundary a reader stops at is always the end of a complete record,  *)
(* so a bounded read of a running writer's log never reports corruption:   *)
(* a failed write poisons the writer before another record could be        *)
(* appended behind the torn bytes.                                         *)
ReadsEndAtARecord ==
  handle = "open" =>
    /\ committed_end <= pending_end
    /\ pending_end = Len(file)
    /\ tail # "none" => poisoned /\ tail = "torn"

(* What readers and callers were told is durable, whole records.           *)
ReadersSeeDurableRecords == CommittedIsDurable /\ ReadsEndAtARecord

(* No crash, power failure, failed write or recovery removes or rewrites a *)
(* record that was once acknowledged or readable: WalWriter::open keeps    *)
(* every complete record, and truncates only what follows the last one.    *)
KeepsHistory ==
  /\ committed_end <= committed_end'
  /\ committed_end <= Len(file')
  /\ \A i \in 1..committed_end : file'[i] = file[i]

HistoryIsAppendOnly == [][KeepsHistory]_vars

(* Written, and neither acknowledged nor shown to anybody. *)
Unacknowledged == SubSeq(file, committed_end + 1, Len(file))

(* The log implements the abstract promise of DurableLog: an acknowledged  *)
(* record is never lost, an unacknowledged one may survive or not, and     *)
(* what survives a crash is a prefix of what was written.                  *)
Abstract ==
  INSTANCE DurableLog
    WITH log <- Log,
         maybe <- Unacknowledged,
         up <- handle = "open"

ImplementsDurableLog == Abstract!Spec
=============================================================================
