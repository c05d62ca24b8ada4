-------------------------- MODULE WalWriter_proofs --------------------------
(***************************************************************************)
(* What WalWriter guarantees for every set of records and every bound on   *)
(* the file: type correctness, the durability of what was committed, the   *)
(* record boundary readers stop at, the append-only history, and the       *)
(* refinement of DurableLog.                                               *)
(***************************************************************************)
EXTENDS WalWriter, SequenceTheorems, TLAPS

(* The strengthening that makes the two safety invariants inductive: the   *)
(* tail of the file is clean by the time open() reaches its sync, so the   *)
(* offsets of an open writer count records and nothing else.               *)
IInv ==
  /\ TypeOK
  /\ CommittedIsDurable
  /\ ReadsEndAtARecord
  /\ handle = "resync" => tail = "none"

USE MaxFileAssumption

(* The freshly created, synced and unscanned file satisfies the invariant. *)
LEMMA InitIInv == Init => IInv
<1> SUFFICES ASSUME Init PROVE IInv
  OBVIOUS
<1>1. file = <<>> /\ file \in Seq(Events) /\ Len(file) = 0
  BY DEF Init
<1>a. synced \in BOOLEAN /\ poisoned \in BOOLEAN
  BY Zenon DEF Init
<1>2. TypeOK
  BY <1>1, <1>a DEF Init, TypeOK, Tails, Handles
<1>3. CommittedIsDurable
  BY <1>1 DEF Init, CommittedIsDurable
<1>4. ReadsEndAtARecord /\ handle # "resync"
  BY DEF Init, ReadsEndAtARecord
<1> QED
  BY <1>2, <1>3, <1>4 DEF IInv

(* WalWriter::open, at each of its steps, whether it succeeds, refuses the *)
(* file or fails: its offsets are set only once the torn tail is cut off.  *)
LEMMA OpenKeepsIInv ==
  ASSUME IInv, OpenScan \/ OpenTruncate \/ OpenSync \/ OpenFail
  PROVE  IInv'
<1>1. CASE OpenScan
  <2>1. handle' \in {"refused", "truncate", "resync"} /\ (handle' = "resync" => tail = "none")
    BY <1>1 DEF OpenScan, IInv, TypeOK, Tails
  <2> QED
    BY <1>1, <2>1 DEF OpenScan, IInv, TypeOK, CommittedIsDurable, ReadsEndAtARecord,
                      Tails, Handles, disk, offsets
<1>2. CASE OpenTruncate
  BY <1>2 DEF OpenTruncate, IInv, TypeOK, CommittedIsDurable, ReadsEndAtARecord,
              Tails, Handles, offsets
<1>3. CASE OpenSync
  <2>a. synced' \in BOOLEAN /\ poisoned' \in BOOLEAN
    BY <1>3, Zenon DEF OpenSync
  <2>1. TypeOK' /\ CommittedIsDurable'
    BY <1>3, <2>a DEF OpenSync, IInv, TypeOK, CommittedIsDurable, Tails, Handles
  <2>2. tail' = "none" /\ handle' = "open"
    BY <1>3 DEF OpenSync, IInv
  <2>3. ReadsEndAtARecord'
    BY <1>3, <2>2 DEF OpenSync, IInv, TypeOK, ReadsEndAtARecord
  <2> QED
    BY <2>1, <2>2, <2>3 DEF IInv
<1>4. CASE OpenFail
  BY <1>4 DEF OpenFail, IInv, TypeOK, CommittedIsDurable, ReadsEndAtARecord,
              Tails, Handles, disk, offsets
<1> QED BY <1>1, <1>2, <1>3, <1>4

(* WalWriter::stage: a record goes behind a clean tail, and a failed write *)
(* poisons the writer together with the tail it may leave.                 *)
LEMMA StageKeepsIInv ==
  ASSUME IInv, Stage \/ StageFail
  PROVE  IInv'
<1>1. CASE Stage
  <2>1. PICK e \in Events : Len(file) < MaxFile /\ StageOk(e)
    BY <1>1 DEF Stage
  <2>2. /\ Append(file, e) \in Seq(Events)
        /\ Len(Append(file, e)) = Len(file) + 1
    BY AppendProperties DEF IInv, TypeOK
  <2>3. tail = "none"
    BY <2>1 DEF StageOk, Writable, IInv, ReadsEndAtARecord
  <2>4. /\ file' = Append(file, e) /\ tail' = tail
        /\ handle = "open" /\ handle' = "open"
    BY <2>1, <2>3 DEF StageOk, Writable
  <2>5. ReadsEndAtARecord'
    BY <2>1, <2>2, <2>3, <2>4 DEF StageOk, IInv, TypeOK, ReadsEndAtARecord
  <2>a. synced' \in BOOLEAN
    BY <2>1, Zenon DEF StageOk
  <2>6. TypeOK' /\ CommittedIsDurable'
    BY <2>a, <2>1, <2>2, <2>4 DEF StageOk, IInv, TypeOK, CommittedIsDurable,
                            ReadsEndAtARecord, Tails, Handles
  <2> QED
    BY <2>4, <2>5, <2>6 DEF IInv
<1>2. CASE StageFail
  BY <1>2 DEF StageFail, Writable, IInv, TypeOK, CommittedIsDurable, ReadsEndAtARecord,
              Tails, Handles
<1> QED BY <1>1, <1>2

(* WalWriter::sync_pending: the boundary moves to what was just synced, or *)
(* stays where it is and the writer is poisoned.                           *)
LEMMA SyncKeepsIInv ==
  ASSUME IInv, SyncOk \/ SyncFail
  PROVE  IInv'
<1>1. CASE SyncOk
  BY <1>1 DEF SyncOk, Writable, IInv, TypeOK, CommittedIsDurable, ReadsEndAtARecord,
              Tails, Handles
<1>2. CASE SyncFail
  BY <1>2 DEF SyncFail, Writable, IInv, TypeOK, CommittedIsDurable, ReadsEndAtARecord,
              Tails, Handles, disk
<1> QED BY <1>1, <1>2

(* A process or a power failure loses nothing below the durable mark.      *)
LEMMA CrashKeepsIInv ==
  ASSUME IInv, ProcessCrash \/ PowerLoss
  PROVE  IInv'
<1>1. CASE ProcessCrash
  BY <1>1 DEF ProcessCrash, IInv, TypeOK, CommittedIsDurable, ReadsEndAtARecord,
              Tails, Handles, disk, offsets
<1>2. CASE PowerLoss /\ synced /\ UNCHANGED disk
  BY <1>2 DEF PowerLoss, IInv, TypeOK, CommittedIsDurable, ReadsEndAtARecord,
              Tails, Handles, disk, offsets
<1>3. CASE PowerLoss /\ ~(synced /\ UNCHANGED disk)
  <2>1. PICK k \in durable..Len(file), t \in Tails :
          file' = SubSeq(file, 1, k) /\ durable' = k /\ tail' = t /\ synced' = TRUE
    BY <1>3 DEF PowerLoss
  <2>2. k \in Nat /\ k <= Len(file) /\ committed_end <= k
    BY DEF IInv, TypeOK, CommittedIsDurable
  <2>3. file' \in Seq(Events) /\ Len(file') = k
    BY <2>1, <2>2, SubSeqProperties DEF IInv, TypeOK
  <2> QED
    BY <1>3, <2>1, <2>2, <2>3 DEF PowerLoss, IInv, TypeOK, CommittedIsDurable,
                               ReadsEndAtARecord, Tails, Handles, offsets
<1> QED BY <1>1, <1>2, <1>3

(* The invariant is inductive: every step of the log file keeps it.        *)
LEMMA NextKeepsIInv == IInv /\ [Next]_vars => IInv'
<1> SUFFICES ASSUME IInv, [Next]_vars PROVE IInv'
  OBVIOUS
<1>1. CASE UNCHANGED vars
  BY <1>1 DEF vars, IInv, TypeOK, CommittedIsDurable, ReadsEndAtARecord
<1>2. CASE Next
  BY <1>2, OpenKeepsIInv, StageKeepsIInv, SyncKeepsIInv, CrashKeepsIInv DEF Next
<1> QED BY <1>1, <1>2

(* The inductive invariant holds in every reachable state. *)
THEOREM Invariance == Spec => []IInv
  BY InitIInv, NextKeepsIInv, PTL DEF Spec

(* Every variable keeps its type, and every offset stays within a file of  *)
(* MaxFile records.                                                        *)
THEOREM TypeCorrect == Spec => []TypeOK
<1>1. IInv => TypeOK  BY DEF IInv
<1> QED BY <1>1, Invariance, PTL

(* Whatever was acknowledged or shown to a reader is on stable storage, and *)
(* readers of an open writer's log stop at the end of a complete record.    *)
THEOREM DurableReads == Spec => []ReadersSeeDurableRecords
<1>1. IInv => ReadersSeeDurableRecords  BY DEF IInv, ReadersSeeDurableRecords
<1> QED BY <1>1, Invariance, PTL

---------------------------------------------------------------------------
(* No step removes or rewrites what was committed. *)
LEMMA StepKeepsHistory == IInv /\ [Next]_vars => [KeepsHistory]_vars
<1> SUFFICES ASSUME IInv, Next PROVE KeepsHistory
  BY DEF vars
<1> USE DEF IInv, TypeOK, CommittedIsDurable, KeepsHistory
<1>1. CASE OpenScan \/ OpenTruncate \/ OpenSync \/ OpenFail
  BY <1>1 DEF OpenScan, OpenTruncate, OpenSync, OpenFail, disk, offsets
<1>2. CASE Stage
  <2>1. PICK e \in Events : StageOk(e)
    BY <1>2 DEF Stage
  <2>2. /\ Len(Append(file, e)) = Len(file) + 1
        /\ \A i \in 1..Len(file) : Append(file, e)[i] = file[i]
    BY AppendProperties
  <2> QED BY <2>1, <2>2 DEF StageOk
<1>3. CASE StageFail \/ SyncOk \/ SyncFail
  BY <1>3 DEF StageFail, SyncOk, SyncFail, Writable, ReadsEndAtARecord, disk
<1>4. CASE ProcessCrash
  BY <1>4 DEF ProcessCrash, disk, offsets
<1>5. CASE PowerLoss /\ UNCHANGED disk
  BY <1>5 DEF PowerLoss, disk, offsets
<1>6. CASE PowerLoss /\ ~UNCHANGED disk
  <2>1. PICK k \in durable..Len(file) : file' = SubSeq(file, 1, k)
    BY <1>6 DEF PowerLoss
  <2>2. k \in Nat /\ k <= Len(file) /\ committed_end <= k
    OBVIOUS
  <2>3. Len(file') = k /\ \A i \in 1..k : file'[i] = file[i]
    BY <2>1, <2>2, SubSeqProperties
  <2> QED BY <1>6, <2>2, <2>3 DEF PowerLoss, offsets
<1> QED BY <1>1, <1>2, <1>3, <1>4, <1>5, <1>6 DEF Next

(* The committed history is append-only, through crashes and recoveries.   *)
THEOREM History == Spec => HistoryIsAppendOnly
  BY Invariance, StepKeepsHistory, PTL DEF Spec, HistoryIsAppendOnly

---------------------------------------------------------------------------
(* The refinement of DurableLog.                                           *)

(* A part of a prefix is that part of the whole. *)
LEMMA SubSeqOfPrefix ==
  ASSUME NEW S, NEW s \in Seq(S), NEW k \in 0..Len(s),
         NEW m \in 1..k+1, NEW n \in 0..k
  PROVE  SubSeq(SubSeq(s, 1, k), m, n) = SubSeq(s, m, n)
<1> DEFINE p == SubSeq(s, 1, k)
<1>1. p \in Seq(S) /\ Len(p) = k /\ \A i \in 1..k : p[i] = s[i]
  BY SubSeqProperties
<1>2. \A i \in m..n : p[i] = s[i] /\ p[i] \in S /\ s[i] \in S
  BY <1>1
<1> HIDE DEF p
<1>3. /\ SubSeq(p, m, n) \in Seq(S)
      /\ Len(SubSeq(p, m, n)) = IF m <= n THEN n-m+1 ELSE 0
      /\ \A i \in 1..n-m+1 : SubSeq(p, m, n)[i] = p[m+i-1]
  BY <1>2, SubSeqProperties
<1>4. /\ SubSeq(s, m, n) \in Seq(S)
      /\ Len(SubSeq(s, m, n)) = IF m <= n THEN n-m+1 ELSE 0
      /\ \A i \in 1..n-m+1 : SubSeq(s, m, n)[i] = s[m+i-1]
  BY <1>2, SubSeqProperties
<1>5. Len(SubSeq(p, m, n)) = Len(SubSeq(s, m, n))
  BY <1>3, <1>4
<1>6. \A i \in 1..Len(SubSeq(p, m, n)) : SubSeq(p, m, n)[i] = SubSeq(s, m, n)[i]
  BY <1>2, <1>3, <1>4
<1>7. SubSeq(p, m, n) = SubSeq(s, m, n)
  BY <1>3, <1>4, <1>5, <1>6, SeqEqual
<1> QED BY <1>7 DEF p

(* The first part of a suffix is that part of the whole. *)
LEMMA SubSeqOfPart ==
  ASSUME NEW S, NEW s \in Seq(S), NEW c \in 0..Len(s), NEW k \in c..Len(s)
  PROVE  SubSeq(SubSeq(s, c+1, Len(s)), 1, k-c) = SubSeq(s, c+1, k)
<1> DEFINE p == SubSeq(s, c+1, Len(s))
<1>1. /\ p \in Seq(S) /\ Len(p) = Len(s) - c
      /\ \A i \in 1..Len(s)-c : p[i] = s[c+i]
  BY SubSeqProperties
<1> HIDE DEF p
<1>2. /\ SubSeq(p, 1, k-c) \in Seq(S) /\ Len(SubSeq(p, 1, k-c)) = k - c
      /\ \A i \in 1..k-c : SubSeq(p, 1, k-c)[i] = p[i]
  BY <1>1, SubSeqProperties
<1>3. /\ SubSeq(s, c+1, k) \in Seq(S) /\ Len(SubSeq(s, c+1, k)) = k - c
      /\ \A i \in 1..k-c : SubSeq(s, c+1, k)[i] = s[c+i]
  BY SubSeqProperties
<1>4. ASSUME NEW i \in 1..k-c PROVE SubSeq(p, 1, k-c)[i] = SubSeq(s, c+1, k)[i]
  <2>1. i \in 1..Len(s)-c
    BY LenProperties
  <2> QED BY <2>1, <1>1, <1>2, <1>3
<1>5. SubSeq(p, 1, k-c) = SubSeq(s, c+1, k)
  BY <1>2, <1>3, <1>4, SeqEqual
<1> QED BY <1>5 DEF p

(* Appending extends every suffix and leaves every prefix alone. *)
LEMMA SubSeqOfAppend ==
  ASSUME NEW S, NEW s \in Seq(S), NEW e \in S, NEW k \in 0..Len(s)
  PROVE  /\ SubSeq(Append(s, e), 1, k) = SubSeq(s, 1, k)
         /\ SubSeq(Append(s, e), k+1, Len(s)+1) = Append(SubSeq(s, k+1, Len(s)), e)
<1> DEFINE t == Append(s, e)
<1>1. /\ t \in Seq(S) /\ Len(t) = Len(s) + 1 /\ t[Len(s) + 1] = e
      /\ \A i \in 1..Len(s) : t[i] = s[i]
  BY AppendProperties
<1> HIDE DEF t
<1>2. SubSeq(t, 1, k) = SubSeq(s, 1, k)
  <2>1. /\ SubSeq(t, 1, k) \in Seq(S) /\ Len(SubSeq(t, 1, k)) = k
        /\ \A i \in 1..k : SubSeq(t, 1, k)[i] = t[i]
    BY <1>1, SubSeqProperties
  <2>2. /\ SubSeq(s, 1, k) \in Seq(S) /\ Len(SubSeq(s, 1, k)) = k
        /\ \A i \in 1..k : SubSeq(s, 1, k)[i] = s[i]
    BY SubSeqProperties
  <2>3. \A i \in 1..k : SubSeq(t, 1, k)[i] = SubSeq(s, 1, k)[i]
    BY <1>1, <2>1, <2>2
  <2> QED BY <2>1, <2>2, <2>3, SeqEqual
<1>3. SubSeq(t, k+1, Len(s)+1) = Append(SubSeq(s, k+1, Len(s)), e)
  <2> DEFINE u == SubSeq(s, k+1, Len(s))
             w == SubSeq(t, k+1, Len(s)+1)
             n == Len(s) - k
  <2>1. /\ u \in Seq(S) /\ Len(u) = n
        /\ \A i \in 1..n : u[i] = s[k+i]
    BY SubSeqProperties
  <2>2. /\ w \in Seq(S) /\ Len(w) = n + 1
        /\ \A i \in 1..n+1 : w[i] = t[k+i]
    BY <1>1, SubSeqProperties
  <2> HIDE DEF u, w
  <2>3. /\ Append(u, e) \in Seq(S) /\ Len(Append(u, e)) = n + 1
        /\ Append(u, e)[n+1] = e
        /\ \A i \in 1..n : Append(u, e)[i] = u[i]
    BY <2>1, AppendProperties
  <2>4. ASSUME NEW i \in 1..n+1 PROVE w[i] = Append(u, e)[i]
    <3>1. CASE i = n + 1
      BY <3>1, <1>1, <2>2, <2>3
    <3>2. CASE i \in 1..n
      BY <3>2, <1>1, <2>1, <2>2, <2>3
    <3>3. i = n + 1 \/ i \in 1..n
      BY LenProperties
    <3> QED BY <3>1, <3>2, <3>3, Zenon
  <2>5. w = Append(u, e)
    BY <2>2, <2>3, <2>4, SeqEqual
  <2> QED BY <2>5 DEF u, w
<1> QED BY <1>2, <1>3 DEF t

(* The history really is the committed part of the file. *)
LEMMA LogIsCommitted == IInv => Log = SubSeq(file, 1, committed_end)
  BY DEF IInv, TypeOK, CommittedIsDurable, Log

(* An empty file that nobody has opened is an empty, stopped log.          *)
LEMMA InitMaps == Init => Abstract!Init
<1> SUFFICES ASSUME Init PROVE Abstract!Init
  OBVIOUS
<1>1. Log = <<>> /\ Unacknowledged = <<>>
  BY SubSeqEmpty DEF Init, Log, Unacknowledged
<1>2. (handle = "open") = FALSE
  BY DEF Init
<1> QED BY <1>1, <1>2, Zenon DEF Abstract!Init

(* Steps that touch neither the records nor the boundary, and leave the    *)
(* handle as far from open as it was, are stutters.                        *)
LEMMA StutterMaps ==
  ASSUME UNCHANGED <<file, committed_end>>, (handle' = "open") = (handle = "open")
  PROVE  UNCHANGED Abstract!vars
<1>1. Log' = Log /\ Unacknowledged' = Unacknowledged
  BY DEF Log, Unacknowledged
<1> QED BY <1>1 DEF Abstract!vars

(* The last step of WalWriter::open is the recovery: whatever survived     *)
(* becomes history.                                                        *)
LEMMA OpenSyncMaps == ASSUME IInv, OpenSync PROVE Abstract!Recover
<1> DEFINE n == Len(file)
<1>1. n \in Nat /\ committed_end \in 0..n /\ file \in Seq(Events)
  BY DEF IInv, TypeOK, CommittedIsDurable
<1>2. /\ file' = file /\ committed_end' = n
      /\ (handle = "open") = FALSE /\ (handle' = "open") = TRUE
  BY DEF OpenSync
<1>3. Log' = file
  BY <1>1, <1>2, SubSeqFull DEF Log
<1>4. Log \o Unacknowledged = file
  BY <1>1, LogIsCommitted, ConcatAdjacentSubSeq, SubSeqFull DEF Unacknowledged
<1>5. Unacknowledged' = <<>>
  BY <1>1, <1>2, SubSeqEmpty DEF Unacknowledged
<1> QED BY <1>2, <1>3, <1>4, <1>5, Zenon DEF Abstract!Recover

(* WalWriter::stage writes one unacknowledged record.                      *)
LEMMA StageMaps == ASSUME IInv, Stage PROVE Abstract!Write
<1>1. PICK e \in Events : StageOk(e)
  BY DEF Stage
<1> DEFINE n == Len(file)
<1>2. n \in Nat /\ committed_end \in 0..n /\ file \in Seq(Events)
  BY DEF IInv, TypeOK, CommittedIsDurable
<1>3. /\ handle = "open" /\ handle' = "open"
      /\ committed_end' = committed_end /\ file' = Append(file, e)
  BY <1>1 DEF StageOk, Writable, IInv, ReadsEndAtARecord
<1>4. Len(file') = n + 1
  BY <1>2, <1>3, AppendProperties
<1>5. Log' = Log
  <2>1. Log' = SubSeq(file', 1, committed_end)
    BY <1>2, <1>3, <1>4 DEF Log
  <2> QED BY <2>1, <1>2, <1>3, LogIsCommitted, SubSeqOfAppend
<1>6. Unacknowledged' = Append(Unacknowledged, e)
  BY <1>2, <1>3, <1>4, SubSeqOfAppend DEF Unacknowledged
<1> QED BY <1>3, <1>5, <1>6, Zenon DEF Abstract!Write

(* A successful sync_pending commits everything that was staged.           *)
LEMMA SyncMaps == ASSUME IInv, SyncOk PROVE Abstract!Commit
<1> DEFINE n == Len(file)
<1>1. n \in Nat /\ committed_end \in 0..n /\ file \in Seq(Events)
  BY DEF IInv, TypeOK, CommittedIsDurable
<1>2. /\ handle = "open" /\ handle' = "open"
      /\ file' = file /\ committed_end' = n
  BY DEF SyncOk, Writable, IInv, ReadsEndAtARecord
<1>3. Log' = file
  BY <1>1, <1>2, SubSeqFull DEF Log
<1>4. Log \o Unacknowledged = file
  BY <1>1, LogIsCommitted, ConcatAdjacentSubSeq, SubSeqFull DEF Unacknowledged
<1>5. Unacknowledged' = <<>>
  BY <1>1, <1>2, SubSeqEmpty DEF Unacknowledged
<1> QED BY <1>2, <1>3, <1>4, <1>5, Zenon DEF Abstract!Commit

(* A crash that leaves the file alone stops the log and keeps everything.  *)
LEMMA QuietCrashMaps ==
  ASSUME IInv, UNCHANGED <<file, committed_end>>, handle' # "open"
  PROVE  Abstract!Stop
<1> DEFINE n == Len(Unacknowledged)
<1>1. Unacknowledged \in Seq(Events)
  BY SubSeqProperties DEF IInv, TypeOK, CommittedIsDurable, Unacknowledged
<1>2. n \in 0..n /\ SubSeq(Unacknowledged, 1, n) = Unacknowledged
  BY <1>1, SubSeqFull
<1>3. Log' = Log /\ Unacknowledged' = Unacknowledged
  BY DEF Log, Unacknowledged
<1>4. (handle' = "open") = FALSE
  OBVIOUS
<1>5. /\ n \in 0..n
      /\ (handle' = "open") = FALSE
      /\ Unacknowledged' = SubSeq(Unacknowledged, 1, n)
      /\ UNCHANGED Log
  BY <1>2, <1>3, <1>4
<1> HIDE DEF n
<1> QED BY <1>5, Zenon DEF n, Abstract!Stop

(* A power failure keeps a prefix that reaches past the committed records. *)
LEMMA PowerLossMaps ==
  ASSUME IInv, PowerLoss, ~UNCHANGED disk
  PROVE  Abstract!Stop
<1> DEFINE n == Len(file)
           c == committed_end
<1>1. /\ n \in Nat /\ c \in Nat /\ durable \in Nat
      /\ c <= durable /\ durable <= n /\ file \in Seq(Events)
  BY DEF IInv, TypeOK, CommittedIsDurable
<1>2. PICK k \in durable..n : file' = SubSeq(file, 1, k)
  BY DEF PowerLoss
<1>3. k \in Nat /\ c <= k /\ k <= n
  BY <1>1
<1>4. committed_end' = c /\ handle' # "open"
  BY DEF PowerLoss, offsets
<1>5. file' \in Seq(Events) /\ Len(file') = k
  BY <1>1, <1>2, <1>3, SubSeqProperties
<1>6. UNCHANGED Log
  <2>1. Log' = SubSeq(file', 1, c)
    BY <1>3, <1>4, <1>5 DEF Log
  <2>2. SubSeq(SubSeq(file, 1, k), 1, c) = SubSeq(file, 1, c)
    BY <1>1, <1>3, SubSeqOfPrefix
  <2> QED BY <2>1, <2>2, <1>2, LogIsCommitted
<1>7. Unacknowledged \in Seq(Events) /\ Len(Unacknowledged) = n - c
  BY <1>1, SubSeqProperties DEF Unacknowledged
<1>8. Unacknowledged' = SubSeq(Unacknowledged, 1, k - c)
  <2>1. Unacknowledged' = SubSeq(SubSeq(file, 1, k), c + 1, k)
    BY <1>2, <1>4, <1>5 DEF Unacknowledged
  <2>2. SubSeq(SubSeq(file, 1, k), c + 1, k) = SubSeq(file, c + 1, k)
    BY <1>1, <1>3, SubSeqOfPrefix
  <2>3. SubSeq(SubSeq(file, c + 1, n), 1, k - c) = SubSeq(file, c + 1, k)
    BY <1>1, <1>3, SubSeqOfPart
  <2> QED BY <2>1, <2>2, <2>3 DEF Unacknowledged
<1>9. k - c \in 0..Len(Unacknowledged)
  BY <1>1, <1>3, <1>7
<1>10. (handle' = "open") = FALSE
  BY <1>4
<1> QED BY <1>6, <1>8, <1>9, <1>10, Zenon DEF Abstract!Stop

(* Every step of the log file is a step of the abstract log or a stutter.  *)
LEMMA StepMaps == IInv /\ [Next]_vars => [Abstract!Next]_(Abstract!vars)
<1> SUFFICES ASSUME IInv, [Next]_vars PROVE Abstract!Next \/ UNCHANGED Abstract!vars
  OBVIOUS
<1>1. CASE UNCHANGED vars
  BY <1>1, StutterMaps DEF vars
<1>2. CASE OpenScan \/ OpenTruncate \/ OpenFail
  BY <1>2, StutterMaps DEF OpenScan, OpenTruncate, OpenFail, disk, offsets, IInv, TypeOK, Tails
<1>3. CASE OpenSync
  BY <1>3, OpenSyncMaps DEF Abstract!Next
<1>4. CASE Stage
  BY <1>4, StageMaps DEF Abstract!Next
<1>5. CASE StageFail \/ SyncFail
  BY <1>5, StutterMaps DEF StageFail, SyncFail, disk
<1>6. CASE SyncOk
  BY <1>6, SyncMaps DEF Abstract!Next
<1>7. CASE ProcessCrash
  BY <1>7, QuietCrashMaps DEF ProcessCrash, disk, offsets, Abstract!Next
<1>8. CASE PowerLoss /\ UNCHANGED disk
  BY <1>8, QuietCrashMaps DEF PowerLoss, disk, offsets, Abstract!Next
<1>9. CASE PowerLoss /\ ~UNCHANGED disk
  BY <1>9, PowerLossMaps DEF Abstract!Next
<1> QED
  BY <1>1, <1>2, <1>3, <1>4, <1>5, <1>6, <1>7, <1>8, <1>9 DEF Next

(* The file, its cache, its offsets and its recovery implement DurableLog. *)
THEOREM Refinement == Spec => ImplementsDurableLog
  BY InitMaps, StepMaps, Invariance, PTL DEF Spec, ImplementsDurableLog, Abstract!Spec
=============================================================================
