----------------------- MODULE TimelineWriter_proofs -----------------------
(***************************************************************************)
(* What the writer thread guarantees for every number of callers, runs,    *)
(* batches, crashes and every capacity.  First the log: contiguous         *)
(* sequence numbers, durable acknowledgements, and readers that see the    *)
(* record behind every state; none of it depends on the registry or on     *)
(* what is queued.  Then the deletion protocol on top of it: one guard per *)
(* claim, one tombstone per run, a registry that tells what the log says.  *)
(***************************************************************************)
EXTENDS TimelineWriter, SequenceTheorems, FiniteSetTheorems, WellFoundedInduction, TLAPS

(* A sequence, whatever it holds. *)
IsSeq(s) == s \in Seq(Range(s))

(* The batch in memory is the part of the file behind the first n records. *)
StagedBehind(n) == \A i \in 1..Len(staged) : staged[i].event = file[n + i]

Batching == wpc \in {"recv", "stage", "sync"}
Publishing == wpc \in {"store", "apply", "evict", "remove", "guard", "reply"}
(* Behind the record of a delete: eviction, then the commit of its guard.  *)
Settling == wpc \in {"evict", "remove", "guard"}

(* The file and its offsets, as WalWriter keeps them for any writer. *)
FileInv ==
  /\ IsSeq(file)
  /\ SequenceContiguous
  /\ {durable, committed_end, pending_end} \subseteq Nat /\ poisoned \in BOOLEAN
  /\ committed_end <= durable /\ durable <= Len(file)
  /\ tail \in W!Tails
  /\ handle = "resync" => tail = "none"
  /\ handle = "open" /\ ~poisoned => tail = "none" /\ pending_end = Len(file)

(* Between batches the writer, the readers and the file agree; a batch     *)
(* that was synced ends the file; after a failure nothing is staged again. *)
WriterInv ==
  /\ IsSeq(staged)
  /\ {next_seq, published} \subseteq Nat
  /\ wpc \in WriterPCs
  /\ wpc = "down" => /\ staged = <<>>
                     /\ handle = "open" => committed_end = Len(file) /\ ~poisoned
  /\ wpc # "down" => handle = "open"
  /\ Batching \/ wpc = "fail" => next_seq = committed_end /\ published = committed_end
  /\ Batching /\ ~poisoned => Len(file) = next_seq + Len(staged) /\ StagedBehind(next_seq)
  /\ wpc = "fail" => poisoned /\ staged # <<>>
  /\ Publishing => /\ ~poisoned
                   /\ committed_end = Len(file)
                   /\ Len(staged) \in 1..Len(file)
                   /\ StagedBehind(Len(file) - Len(staged))
  /\ wpc = "store" => next_seq = Len(file) - Len(staged) /\ published = next_seq
  /\ wpc \in {"apply", "evict", "remove", "guard"} =>
        published = Len(file) /\ next_seq \in Len(file) - Len(staged) .. Len(file)
  /\ wpc = "reply" => next_seq = Len(file) /\ published = Len(file)

(* What was acknowledged is below the durable mark. *)
AckedInv == \A e \in acked : e.seq \in 1..durable /\ file[e.seq] = e

IInv == FileInv /\ WriterInv /\ AckedInv

---------------------------------------------------------------------------
(* Sequences of anything *)

(* A sequence over any set is one over its own elements, and conversely. *)
LEMMA SeqIsSeq ==
  ASSUME NEW S, NEW s \in Seq(S)
  PROVE  IsSeq(s)
<1>1. Len(s) \in Nat /\ s \in [1..Len(s) -> S]
  BY LenProperties
<1>2. s \in [1..Len(s) -> Range(s)]
  BY <1>1 DEF Range
<1> QED BY <1>1, <1>2, SeqDef DEF IsSeq

(* The library's facts, without a set the elements come from. *)
LEMMA SeqFacts ==
  ASSUME NEW s, IsSeq(s)
  PROVE  Len(s) \in Nat /\ DOMAIN s = 1..Len(s)
<1> DEFINE R == Range(s)
<1>1. s \in Seq(R)
  BY DEF IsSeq
<1> HIDE DEF R
<1> QED BY <1>1, LenProperties

(* Append puts the element behind the others. *)
LEMMA AppendFacts ==
  ASSUME NEW s, IsSeq(s), NEW e
  PROVE  /\ IsSeq(Append(s, e))
         /\ Len(Append(s, e)) = Len(s) + 1
         /\ \A i \in 1..Len(s) : Append(s, e)[i] = s[i]
         /\ Append(s, e)[Len(s) + 1] = e
<1> DEFINE R == Range(s)
           S == R \cup {e}
<1>1. s \in Seq(R)
  BY DEF IsSeq
<1> HIDE DEF R
<1>2. Len(s) \in Nat /\ s \in [1..Len(s) -> R]
  BY <1>1, LenProperties
<1>3. s \in [1..Len(s) -> S] /\ e \in S
  BY <1>2
<1> HIDE DEF S
<1>4. s \in Seq(S)
  BY <1>2, <1>3, SeqDef
<1>5. /\ Append(s, e) \in Seq(S)
      /\ Len(Append(s, e)) = Len(s) + 1
      /\ \A i \in 1..Len(s) : Append(s, e)[i] = s[i]
      /\ Append(s, e)[Len(s) + 1] = e
  BY <1>3, <1>4, AppendProperties
<1>6. IsSeq(Append(s, e))
  BY <1>5, SeqIsSeq, Zenon
<1> QED BY <1>5, <1>6

(* Tail moves every element one place down. *)
LEMMA TailFacts ==
  ASSUME NEW s, IsSeq(s), s # <<>>
  PROVE  /\ IsSeq(Tail(s))
         /\ Len(Tail(s)) = Len(s) - 1
         /\ \A i \in 1..Len(s) - 1 : Tail(s)[i] = s[i + 1]
<1> DEFINE R == Range(s)
<1>1. s \in Seq(R)
  BY DEF IsSeq
<1> HIDE DEF R
<1>2. /\ Tail(s) \in Seq(R)
      /\ Len(Tail(s)) = Len(s) - 1
      /\ \A i \in 1..Len(Tail(s)) : Tail(s)[i] = s[i + 1]
  BY <1>1, HeadTailProperties
<1>3. IsSeq(Tail(s))
  BY <1>2, SeqIsSeq, Zenon
<1> QED BY <1>2, <1>3

(* A prefix keeps every element in its place. *)
LEMMA PrefixFacts ==
  ASSUME NEW s, IsSeq(s), NEW k \in 0..Len(s)
  PROVE  /\ IsSeq(SubSeq(s, 1, k))
         /\ Len(SubSeq(s, 1, k)) = k
         /\ \A i \in 1..k : SubSeq(s, 1, k)[i] = s[i]
<1> DEFINE R == Range(s)
<1>1. s \in Seq(R)
  BY DEF IsSeq
<1> HIDE DEF R
<1>2. Len(s) \in Nat /\ k \in Nat
  BY <1>1, LenProperties
<1>3. \A i \in 1..k : s[i] \in R
  BY <1>1, <1>2, ElementOfSeq
<1>4. /\ SubSeq(s, 1, k) \in Seq(R)
      /\ Len(SubSeq(s, 1, k)) = k
      /\ \A i \in 1..k : SubSeq(s, 1, k)[i] = s[i]
  BY <1>1, <1>2, <1>3, SubSeqProperties
<1>5. IsSeq(SubSeq(s, 1, k))
  BY <1>4, SeqIsSeq, Zenon
<1> QED BY <1>4, <1>5

---------------------------------------------------------------------------
(* The invariant is inductive *)

(* What the invariant is about; no client step changes any of it. *)
core == <<Wal, wpc, staged, next_seq, published, acked>>

(* An unopened, empty file and a writer that is down. *)
LEMMA InitIInv == Init => IInv
<1> SUFFICES ASSUME Init PROVE IInv
  OBVIOUS
<1>1. <<>> \in Seq({}) /\ Len(<<>>) = 0
  BY EmptySeq
<1>2. IsSeq(<<>>)
  BY <1>1, SeqIsSeq
<1>3. /\ file = <<>> /\ staged = <<>> /\ IsSeq(<<>>) /\ Len(<<>>) = 0
      /\ DOMAIN file = 1..0
  BY <1>1, <1>2, SeqFacts DEF Init, W!Init
<1>4. poisoned \in BOOLEAN
  BY Zenon DEF Init, W!Init
<1>5. FileInv
  BY <1>3, <1>4 DEF Init, W!Init, W!Tails, FileInv, SequenceContiguous
<1>6. WriterInv
  BY <1>3 DEF Init, W!Init, WriterInv, WriterPCs, Batching, Publishing
<1>7. AckedInv
  BY DEF Init, AckedInv
<1> QED BY <1>5, <1>6, <1>7 DEF IInv

(* Callers, generations, and the writer's steps on the registry. *)
LEMMA QuietKeepsIInv == ASSUME IInv, UNCHANGED core PROVE IInv'
<1>1. FileInv'
  BY DEF core, Wal, IInv, FileInv, SequenceContiguous
<1>2. WriterInv'
  BY DEF core, Wal, IInv, WriterInv, StagedBehind, Batching, Publishing
<1>3. AckedInv'
  BY DEF core, Wal, IInv, AckedInv
<1> QED BY <1>1, <1>2, <1>3 DEF IInv

(* A batch that takes, rejects or defers a command, or ends. *)
LEMMA BatchKeepsIInv ==
  ASSUME IInv, UNCHANGED <<Wal, staged, next_seq, published, acked>>,
         Batching, wpc' \in {"stage", "sync", "recv"}
  PROVE  IInv'
<1>1. FileInv'
  BY DEF Wal, IInv, FileInv, SequenceContiguous
<1>2. WriterInv'
  BY DEF Wal, IInv, WriterInv, StagedBehind, Batching, Publishing, WriterPCs
<1>3. AckedInv'
  BY DEF Wal, IInv, AckedInv
<1> QED BY <1>1, <1>2, <1>3 DEF IInv

(* stage_command appends the record numbered behind the batch. *)
LEMMA StageKeepsIInv == ASSUME IInv, StageCommand PROVE IInv'
<1> DEFINE e == NextEvent(Current)
           a == [event |-> e, client |-> Current.client, guard |-> Current.guard]
<1>1. /\ W!StageOk(e) /\ staged' = Append(staged, a)
      /\ wpc \in {"recv", "stage"} /\ wpc' \in {"stage", "sync"}
      /\ UNCHANGED <<next_seq, published, acked>>
  BY DEF StageCommand, CanTake, Advance, clients, history
<1>2. e.seq = next_seq + Len(staged) + 1 /\ a.event = e
  BY DEF NextEvent
<1> HIDE DEF e, a
<1>3. handle = "open" /\ ~poisoned /\ tail = "none" /\ pending_end = Len(file)
  BY <1>1 DEF W!StageOk, W!Writable, IInv, FileInv
<1>4. /\ file' = Append(file, e) /\ pending_end' = pending_end + 1
      /\ UNCHANGED <<tail, durable, handle, committed_end, poisoned>>
  BY <1>1, <1>3 DEF W!StageOk
<1>5. IsSeq(file) /\ IsSeq(staged) /\ Len(file) \in Nat /\ Len(staged) \in Nat
  BY SeqFacts DEF IInv, FileInv, WriterInv
<1>6. /\ IsSeq(file') /\ Len(file') = Len(file) + 1 /\ file'[Len(file) + 1] = e
      /\ \A i \in 1..Len(file) : file'[i] = file[i]
      /\ DOMAIN file = 1..Len(file) /\ DOMAIN file' = 1..Len(file')
  BY <1>4, <1>5, AppendFacts, SeqFacts
<1>7. /\ IsSeq(staged') /\ Len(staged') = Len(staged) + 1 /\ staged'[Len(staged) + 1] = a
      /\ \A i \in 1..Len(staged) : staged'[i] = staged[i]
  BY <1>1, <1>5, AppendFacts
<1>8. /\ Len(file) = next_seq + Len(staged) /\ StagedBehind(next_seq)
      /\ next_seq \in Nat
  BY <1>1, <1>3 DEF IInv, WriterInv, Batching
<1>9. SequenceContiguous'
  <2> SUFFICES ASSUME NEW i \in DOMAIN file' PROVE file'[i].seq = i
    BY DEF SequenceContiguous
  <2>1. CASE i \in 1..Len(file)
    BY <2>1, <1>6 DEF IInv, FileInv, SequenceContiguous
  <2>2. CASE i = Len(file) + 1
    BY <2>2, <1>2, <1>6, <1>8
  <2> QED BY <2>1, <2>2, <1>5, <1>6
<1>10. FileInv'
  BY <1>3, <1>4, <1>5, <1>6, <1>9 DEF IInv, FileInv
<1>11. StagedBehind(next_seq)'
  <2> SUFFICES ASSUME NEW i \in 1..Len(staged') PROVE staged'[i].event = file'[next_seq + i]
    BY <1>1 DEF StagedBehind
  <2>1. CASE i \in 1..Len(staged)
    BY <2>1, <1>5, <1>6, <1>7, <1>8 DEF StagedBehind
  <2>2. CASE i = Len(staged) + 1
    BY <2>2, <1>2, <1>6, <1>7, <1>8
  <2> QED BY <2>1, <2>2, <1>5, <1>7
<1>12. WriterInv'
  BY <1>1, <1>3, <1>4, <1>5, <1>6, <1>7, <1>8, <1>11
     DEF IInv, WriterInv, WriterPCs, Batching, Publishing
<1>13. AckedInv'
  BY <1>1, <1>4, <1>5, <1>6 DEF IInv, FileInv, AckedInv
<1> QED BY <1>10, <1>12, <1>13 DEF IInv

(* A failed write poisons the writer before anything else is staged. *)
LEMMA StageWriteFailsKeepsIInv == ASSUME IInv, StageWriteFails PROVE IInv'
<1>1. /\ poisoned' = TRUE /\ wpc \in {"recv", "stage"} /\ wpc' \in {"stage", "sync"}
      /\ handle = "open" /\ tail' \in {tail, "torn"}
      /\ UNCHANGED <<file, durable, handle, committed_end, pending_end, staged,
                     next_seq, published, acked>>
  BY DEF StageWriteFails, W!StageFail, W!Writable, CanTake, Advance, history
<1>2. FileInv'
  BY <1>1 DEF IInv, FileInv, SequenceContiguous, W!Tails
<1>3. WriterInv'
  BY <1>1 DEF IInv, WriterInv, WriterPCs, Batching, Publishing
<1>4. AckedInv'
  BY <1>1 DEF IInv, AckedInv
<1> QED BY <1>2, <1>3, <1>4 DEF IInv

(* Only the empty sequence has no elements. *)
LEMMA EmptyIsEmpty == ASSUME NEW s, IsSeq(s), s # <<>> PROVE Len(s) # 0
<1> DEFINE R == Range(s)
<1>1. s \in Seq(R)
  BY DEF IsSeq
<1> HIDE DEF R
<1> QED BY <1>1, EmptySeq

(* sync_and_publish: the whole batch is durable, or nobody is told it is. *)
LEMMA SyncKeepsIInv == ASSUME IInv, SyncBatch PROVE IInv'
<1>1. /\ wpc = "sync" /\ staged # <<>>
      /\ UNCHANGED <<staged, next_seq, published, acked>>
  BY DEF SyncBatch, history
<1>2. IsSeq(file) /\ IsSeq(staged) /\ Len(file) \in Nat /\ Len(staged) \in Nat
  BY SeqFacts DEF IInv, FileInv, WriterInv
<1>3. Len(staged) # 0
  BY <1>1, <1>2, EmptyIsEmpty
<1>4. CASE W!SyncOk /\ wpc' = "store"
  <2>1. /\ ~poisoned /\ handle = "open"
        /\ Len(file) = next_seq + Len(staged) /\ StagedBehind(next_seq)
        /\ next_seq \in Nat /\ published = next_seq
        /\ pending_end = Len(file)
    BY <1>1, <1>4 DEF W!SyncOk, W!Writable, IInv, FileInv, WriterInv, Batching
  <2>2. /\ durable' = Len(file) /\ committed_end' = Len(file)
        /\ UNCHANGED <<file, tail, handle, pending_end, poisoned>>
    BY <1>4, <2>1 DEF W!SyncOk
  <2>3. FileInv'
    BY <1>2, <2>1, <2>2 DEF IInv, FileInv, SequenceContiguous
  <2>4. Len(file) - Len(staged) = next_seq /\ Len(staged) \in 1..Len(file)
    BY <1>2, <1>3, <2>1
  <2>5. StagedBehind(Len(file) - Len(staged))'
    BY <1>1, <2>1, <2>2, <2>4 DEF StagedBehind
  <2>6. WriterInv'
    BY <1>1, <1>4, <2>1, <2>2, <2>4, <2>5 DEF IInv, WriterInv, WriterPCs, Batching, Publishing
  <2>7. AckedInv'
    BY <1>1, <1>2, <2>2 DEF IInv, FileInv, AckedInv
  <2> QED BY <2>3, <2>6, <2>7 DEF IInv
<1>5. CASE ~(W!SyncOk /\ wpc' = "store")
  <2>1. /\ poisoned' = TRUE /\ wpc' = "fail"
        /\ UNCHANGED <<file, tail, durable, handle, committed_end, pending_end>>
    <3>1. CASE W!SyncFail /\ wpc' = "fail"
      BY <3>1 DEF W!SyncFail, W!disk
    <3>2. CASE poisoned /\ wpc' = "fail" /\ UNCHANGED Wal
      <4>1. poisoned' = poisoned
        BY <3>2 DEF Wal
      <4>2. poisoned' = TRUE
        BY <3>2, <4>1 DEF IInv, FileInv
      <4> QED BY <3>2, <4>2 DEF Wal
    <3> QED BY <3>1, <3>2, <1>5 DEF SyncBatch
  <2>2. FileInv'
    BY <2>1 DEF IInv, FileInv, SequenceContiguous
  <2>3. WriterInv'
    BY <1>1, <2>1 DEF IInv, WriterInv, WriterPCs, Batching, Publishing
  <2>4. AckedInv'
    BY <1>1, <2>1 DEF IInv, AckedInv
  <2> QED BY <2>2, <2>3, <2>4 DEF IInv
<1> QED BY <1>4, <1>5

(* The readable bound moves to the synced end, in front of the states. *)
LEMMA StoreKeepsIInv == ASSUME IInv, StoreCommittedEnd PROVE IInv'
<1>1. /\ wpc = "store" /\ wpc' = "apply" /\ published' = committed_end
      /\ UNCHANGED <<Wal, staged, next_seq, acked>>
  BY DEF StoreCommittedEnd, history
<1>2. FileInv'
  BY <1>1 DEF Wal, IInv, FileInv, SequenceContiguous
<1>3. Len(file) \in Nat
  BY SeqFacts DEF IInv, FileInv
<1>4. WriterInv'
  BY <1>1, <1>3 DEF Wal, IInv, FileInv, WriterInv, StagedBehind, WriterPCs, Batching, Publishing
<1>5. AckedInv'
  BY <1>1 DEF Wal, IInv, AckedInv
<1> QED BY <1>2, <1>4, <1>5 DEF IInv

(* apply_committed_event: the batch is applied in the order of the file. *)
LEMMA ApplyKeepsIInv == ASSUME IInv, ApplyCommittedEvent PROVE IInv'
<1> DEFINE n == Len(file)
           m == Len(staged)
<1>1. /\ wpc = "apply" /\ ~AllApplied /\ next_seq' = Applying.event.seq
      /\ wpc' \in {"apply", "evict", "guard"}
      /\ UNCHANGED <<Wal, staged, published, acked>>
  BY DEF ApplyCommittedEvent, GuardOrNext, history
<1>2. /\ n \in Nat /\ m \in 1..n /\ DOMAIN file = 1..n
      /\ next_seq \in n - m .. n /\ StagedBehind(n - m) /\ SequenceContiguous
  BY <1>1, SeqFacts DEF IInv, FileInv, WriterInv, Publishing
<1> HIDE DEF n, m
<1>3. \A i \in 1..m : staged[i].event.seq = n - m + i
  <2> TAKE i \in 1..m
  <2>1. n - m + i \in DOMAIN file
    BY <1>2
  <2>2. staged[i].event = file[n - m + i]
    BY <1>2 DEF StagedBehind, m
  <2> QED BY <2>1, <2>2, <1>2 DEF SequenceContiguous
<1>4. next_seq # n
  <2>1. staged[m].event.seq = n
    BY <1>2, <1>3
  <2> QED BY <1>1, <2>1 DEF AllApplied, m
<1>5. next_seq + 2 - staged[1].event.seq \in 1..m /\ staged[1].event.seq = n - m + 1
  BY <1>2, <1>3, <1>4
<1>6. next_seq' = next_seq + 1
  BY <1>1, <1>2, <1>3, <1>5 DEF Applying
<1>7. next_seq' \in n - m .. n /\ next_seq' \in Nat
  BY <1>2, <1>4, <1>6
<1>8. FileInv'
  BY <1>1 DEF Wal, IInv, FileInv, SequenceContiguous
<1>9. WriterInv'
  BY <1>1, <1>7 DEF n, m, Wal, IInv, WriterInv, StagedBehind, WriterPCs, Batching, Publishing
<1>10. AckedInv'
  BY <1>1 DEF Wal, IInv, AckedInv
<1> QED BY <1>8, <1>9, <1>10 DEF IInv

(* Eviction and the commit of the delete guard come between two records. *)
LEMMA SettleKeepsIInv ==
  ASSUME IInv, CheckTombstone \/ RemoveTombstone \/ EndEviction \/ CommitGuard
  PROVE  IInv'
<1>1. /\ wpc \in {"evict", "remove", "guard"} /\ wpc' \in {"apply", "evict", "remove", "guard"}
      /\ UNCHANGED <<Wal, staged, next_seq, published, acked>>
  BY DEF CheckTombstone, RemoveTombstone, EndEviction, CommitGuard, Evicting, GuardOrNext, history
<1>2. FileInv'
  BY <1>1 DEF Wal, IInv, FileInv, SequenceContiguous
<1>3. WriterInv'
  BY <1>1 DEF Wal, IInv, WriterInv, StagedBehind, WriterPCs, Batching, Publishing
<1>4. AckedInv'
  BY <1>1 DEF Wal, IInv, AckedInv
<1> QED BY <1>2, <1>3, <1>4 DEF IInv

(* Between the last record and the replies the writer has reached the end. *)
LEMMA PublishKeepsIInv == ASSUME IInv, Publish PROVE IInv'
<1> DEFINE n == Len(file)
           m == Len(staged)
<1>1. /\ wpc = "apply" /\ next_seq = staged[m].event.seq /\ wpc' = "reply"
      /\ UNCHANGED <<Wal, staged, next_seq, published, acked>>
  BY DEF Publish, AllApplied, history
<1>2. /\ n \in Nat /\ m \in 1..n /\ DOMAIN file = 1..n
      /\ StagedBehind(n - m) /\ SequenceContiguous
  BY <1>1, SeqFacts DEF IInv, FileInv, WriterInv, Publishing
<1> HIDE DEF n, m
<1>3. staged[m].event = file[n - m + m] /\ n - m + m = n /\ n \in DOMAIN file
  BY <1>2 DEF StagedBehind, m
<1>4. next_seq = n
  BY <1>1, <1>2, <1>3 DEF SequenceContiguous
<1>5. FileInv'
  BY <1>1 DEF Wal, IInv, FileInv, SequenceContiguous
<1>6. WriterInv'
  BY <1>1, <1>4 DEF n, Wal, IInv, WriterInv, StagedBehind, WriterPCs, Batching, Publishing
<1>7. AckedInv'
  BY <1>1 DEF Wal, IInv, AckedInv
<1> QED BY <1>5, <1>6, <1>7 DEF IInv

(* A reply names the oldest record of the batch, which is on stable storage. *)
LEMMA ReplyOkKeepsIInv == ASSUME IInv, ReplyOk PROVE IInv'
<1> DEFINE n == Len(file)
           m == Len(staged)
<1>1. /\ wpc = "reply" /\ staged' = Tail(staged)
      /\ wpc' = IF m = 1 THEN "recv" ELSE "reply"
      /\ acked' \in {acked, acked \cup {staged[1].event}}
      /\ UNCHANGED <<Wal, next_seq, published>>
  BY DEF ReplyOk
<1>2. /\ n \in Nat /\ m \in 1..n /\ DOMAIN file = 1..n /\ IsSeq(staged)
      /\ StagedBehind(n - m) /\ SequenceContiguous
      /\ committed_end = n /\ durable = n
      /\ next_seq = n /\ published = n /\ ~poisoned /\ handle = "open"
  BY <1>1, SeqFacts DEF IInv, FileInv, WriterInv, Publishing
<1>3. staged # <<>>
  BY <1>2, EmptySeq
<1>4. /\ IsSeq(staged') /\ Len(staged') = m - 1
      /\ \A i \in 1..m - 1 : staged'[i] = staged[i + 1]
  BY <1>1, <1>2, <1>3, TailFacts
<1> HIDE DEF n, m
<1>5. StagedBehind(Len(file) - Len(staged))'
  <2> SUFFICES ASSUME NEW i \in 1..m - 1 PROVE staged'[i].event = file[n - (m - 1) + i]
    BY <1>1, <1>4 DEF StagedBehind, n, Wal
  <2>1. staged[i + 1].event = file[n - m + (i + 1)] /\ i + 1 \in 1..m
    BY <1>2 DEF StagedBehind, m
  <2>2. n - m + (i + 1) = n - (m - 1) + i
    BY <1>2
  <2> QED BY <1>4, <2>1, <2>2
<1>6. FileInv'
  BY <1>1 DEF Wal, IInv, FileInv, SequenceContiguous
<1>7. WriterInv'
  <2>1. CASE m = 1
    BY <2>1, <1>1, <1>2, <1>4
       DEF n, Wal, IInv, WriterInv, StagedBehind, WriterPCs, Batching, Publishing
  <2>2. CASE m # 1
    <3>1. wpc' = "reply" /\ m - 1 \in 1..n
      BY <2>2, <1>1, <1>2
    <3>2. Len(staged') \in 1..Len(file') /\ Len(file') = n
      BY <3>1, <1>1, <1>4 DEF n, Wal
    <3> QED BY <3>1, <3>2, <1>1, <1>2, <1>4, <1>5
            DEF Wal, WriterInv, WriterPCs, Batching, Publishing
  <2> QED BY <2>1, <2>2
<1>8. AckedInv'
  <2>1. staged[1].event = file[n - m + 1] /\ n - m + 1 \in 1..n
    BY <1>2 DEF StagedBehind, m
  <2>2. staged[1].event.seq = n - m + 1
    BY <2>1, <1>2 DEF SequenceContiguous
  <2> QED BY <1>1, <1>2, <2>1, <2>2 DEF Wal, IInv, AckedInv
<1> QED BY <1>6, <1>7, <1>8 DEF IInv

(* A failed batch is answered with errors and acknowledges nothing. *)
LEMMA ReplyErrKeepsIInv == ASSUME IInv, ReplyErr PROVE IInv'
<1>1. /\ wpc = "fail" /\ staged' = Tail(staged)
      /\ wpc' = IF Len(staged) = 1 THEN "recv" ELSE "fail"
      /\ UNCHANGED <<Wal, next_seq, published, acked>>
  BY DEF ReplyErr, history
<1>2. poisoned /\ IsSeq(staged) /\ staged # <<>> /\ Len(staged) \in Nat
  BY <1>1, SeqFacts DEF IInv, WriterInv
<1>3. IsSeq(staged') /\ Len(staged') = Len(staged) - 1
  BY <1>1, <1>2, TailFacts
<1>4. Len(<<>>) = 0
  BY EmptySeq
<1>5. wpc' = "fail" => staged' # <<>>
  BY <1>1, <1>2, <1>3, <1>4
<1>6. FileInv'
  BY <1>1 DEF Wal, IInv, FileInv, SequenceContiguous
<1>7. WriterInv'
  BY <1>1, <1>2, <1>3, <1>5 DEF Wal, IInv, WriterInv, WriterPCs, Batching, Publishing
<1>8. AckedInv'
  BY <1>1 DEF Wal, IInv, AckedInv
<1> QED BY <1>6, <1>7, <1>8 DEF IInv

(* Whatever a power failure takes, it leaves every durable record.         *)
LEMMA CrashKeepsIInv == ASSUME IInv, Crash PROVE IInv'
<1>1. /\ wpc' = "down" /\ staged' = <<>> /\ next_seq' = 0 /\ published' = 0
      /\ acked' = acked
  BY DEF Crash
<1>2. /\ handle' # "open" /\ handle' # "resync"
      /\ UNCHANGED <<committed_end, pending_end, poisoned>>
  BY DEF Crash, W!ProcessCrash, W!PowerLoss, W!offsets
<1>3. Len(file) \in Nat /\ DOMAIN file = 1..Len(file)
  BY SeqFacts DEF IInv, FileInv
<1>4. /\ IsSeq(file') /\ durable' \in Nat /\ durable <= durable' /\ durable' <= Len(file')
      /\ Len(file') <= Len(file) /\ Len(file') \in Nat
      /\ \A i \in 1..Len(file') : file'[i] = file[i]
  <2>1. CASE UNCHANGED W!disk
    BY <2>1, <1>3 DEF W!disk, IInv, FileInv
  <2>2. CASE ~UNCHANGED W!disk
    <3>1. PICK k \in durable..Len(file) : file' = SubSeq(file, 1, k) /\ durable' = k
      BY <2>2 DEF Crash, W!ProcessCrash, W!PowerLoss
    <3>2. k \in 0..Len(file) /\ k \in Nat /\ durable <= k
      BY <1>3 DEF IInv, FileInv
    <3> QED BY <3>1, <3>2, PrefixFacts DEF IInv, FileInv
  <2> QED BY <2>1, <2>2
<1>5. DOMAIN file' = 1..Len(file')
  BY <1>4, SeqFacts
<1>6. tail' \in W!Tails
  BY DEF Crash, W!ProcessCrash, W!PowerLoss, W!disk, IInv, FileInv
<1>7. FileInv'
  BY <1>2, <1>3, <1>4, <1>5, <1>6 DEF IInv, FileInv, SequenceContiguous
<1>8. IsSeq(<<>>)
  BY EmptySeq, SeqIsSeq
<1>9. WriterInv'
  BY <1>1, <1>2, <1>8 DEF WriterInv, WriterPCs, Batching, Publishing
<1>10. AckedInv'
  BY <1>1, <1>3, <1>4 DEF IInv, FileInv, AckedInv
<1> QED BY <1>7, <1>9, <1>10 DEF IInv

(* WalWriter::open only exposes records it synced, and drops none.         *)
LEMMA OpenKeepsIInv == ASSUME IInv, OpenStep PROVE IInv'
<1>1. /\ wpc = "down" /\ UNCHANGED <<wpc, staged, next_seq, published, acked>>
  BY DEF OpenStep, writer, history
<1>2. Len(file) \in Nat
  BY SeqFacts DEF IInv, FileInv
<1>3. /\ file' = file /\ durable' \in Nat /\ durable <= durable' /\ durable' <= Len(file)
      /\ handle # "open"
  BY <1>2 DEF OpenStep, W!OpenScan, W!OpenTruncate, W!OpenSync, W!OpenFail, W!disk,
              IInv, FileInv
<1>4. CASE W!OpenSync
  <2>1. /\ tail = "none" /\ tail' = tail /\ handle' = "open" /\ durable' = Len(file)
        /\ committed_end' = Len(file) /\ pending_end' = Len(file) /\ poisoned' = FALSE
    BY <1>4 DEF W!OpenSync, IInv, FileInv
  <2>2. FileInv'
    BY <1>2, <1>3, <2>1 DEF IInv, FileInv, SequenceContiguous
  <2>3. WriterInv'
    BY <1>1, <1>3, <2>1 DEF IInv, WriterInv, WriterPCs, Batching, Publishing
  <2> QED BY <1>1, <1>3, <2>2, <2>3 DEF IInv, FileInv, AckedInv
<1>5. CASE ~W!OpenSync
  <2>1. /\ UNCHANGED <<durable, committed_end, pending_end, poisoned>>
        /\ handle' # "open" /\ (handle' = "resync" => tail' = "none")
    BY <1>5 DEF OpenStep, W!OpenScan, W!OpenTruncate, W!OpenFail, W!disk, W!offsets,
                IInv, FileInv, W!Tails
  <2>2. FileInv'
    <3>1. tail' \in W!Tails
      BY <1>5 DEF OpenStep, W!OpenScan, W!OpenTruncate, W!OpenFail, W!disk, IInv, FileInv, W!Tails
    <3> QED BY <1>3, <2>1, <3>1 DEF IInv, FileInv, SequenceContiguous
  <2>3. WriterInv'
    BY <1>1, <1>3, <2>1 DEF IInv, WriterInv, WriterPCs, Batching, Publishing
  <2> QED BY <1>1, <1>3, <2>1, <2>2, <2>3 DEF IInv, AckedInv
<1> QED BY <1>4, <1>5

(* from_wal: the writer continues behind the last recovered record.        *)
LEMMA RestoreKeepsIInv == ASSUME IInv, Restore PROVE IInv'
<1>1. /\ wpc = "down" /\ handle = "open" /\ wpc' = "recv"
      /\ next_seq' = Len(file) /\ published' = committed_end
      /\ UNCHANGED <<Wal, staged, acked>>
  BY DEF Restore, history
<1>2. /\ Len(file) \in Nat /\ staged = <<>> /\ Len(<<>>) = 0
      /\ committed_end = Len(file) /\ ~poisoned
  BY <1>1, SeqFacts, EmptySeq DEF IInv, FileInv, WriterInv
<1>3. FileInv'
  BY <1>1 DEF Wal, IInv, FileInv, SequenceContiguous
<1>4. WriterInv'
  BY <1>1, <1>2 DEF Wal, IInv, WriterInv, StagedBehind, WriterPCs, Batching, Publishing
<1>5. AckedInv'
  BY <1>1 DEF Wal, IInv, AckedInv
<1> QED BY <1>3, <1>4, <1>5 DEF IInv

(* Every step of the writer thread, the callers and the environment keeps  *)
(* the invariant.                                                          *)
LEMMA NextKeepsIInv == IInv /\ [Next]_vars => IInv'
<1> SUFFICES ASSUME IInv, [Next]_vars PROVE IInv'
  OBVIOUS
<1>1. CASE UNCHANGED vars
  BY <1>1, QuietKeepsIInv DEF vars, core, Wal, writer, history
<1>2. CASE DeferDelete \/ StageReject \/ EndBatch \/ SyncNothing
  <2>1. /\ UNCHANGED <<Wal, staged, next_seq, published, acked>>
        /\ Batching /\ wpc' \in {"stage", "sync", "recv"}
    BY <1>2 DEF DeferDelete, StageReject, EndBatch, SyncNothing, CanTake, Advance,
                Batching, history
  <2> QED BY <2>1, BatchKeepsIInv
<1>3. CASE StageCommand \/ StageWriteFails
  BY <1>3, StageKeepsIInv, StageWriteFailsKeepsIInv
<1>4. CASE SyncBatch \/ StoreCommittedEnd \/ ApplyCommittedEvent \/ Publish
  BY <1>4, SyncKeepsIInv, StoreKeepsIInv, ApplyKeepsIInv, PublishKeepsIInv
<1>5. CASE CheckTombstone \/ RemoveTombstone \/ EndEviction \/ CommitGuard
  BY <1>5, SettleKeepsIInv
<1>6. CASE ReplyOk \/ ReplyErr
  BY <1>6, ReplyOkKeepsIInv, ReplyErrKeepsIInv
<1>7. CASE DropGuard
  <2>1. UNCHANGED core
    BY <1>7 DEF DropGuard, core, history
  <2> QED BY <2>1, QuietKeepsIInv
<1>8. CASE \E c \in Clients :
             \/ ClientStep(c)
             \/ \E r \in Runs : StartCreate(c, r) \/ StartAppend(c, r) \/ StartDelete(c, r)
  <2>1. UNCHANGED core
    BY <1>8 DEF ClientStep, CheckDeleted, Lookup, Claim, Arm, Test, Wake, Send, SendRefused,
                StartCreate, StartAppend, StartDelete, core, writer, history
  <2> QED BY <2>1, QuietKeepsIInv
<1>9. CASE \E r \in Runs : AppendDetached(r) \/ ProtectTombstone(r) \/ ReleaseTombstone(r)
  <2>1. UNCHANGED core
    BY <1>9 DEF AppendDetached, ProtectTombstone, ReleaseTombstone, core, writer, history
  <2> QED BY <2>1, QuietKeepsIInv
<1>10. CASE OpenStep \/ Restore \/ Crash
  BY <1>10, OpenKeepsIInv, RestoreKeepsIInv, CrashKeepsIInv
<1> QED
  BY <1>1, <1>2, <1>3, <1>4, <1>5, <1>6, <1>7, <1>8, <1>9, <1>10 DEF Next, WriterStep

---------------------------------------------------------------------------
(* The inductive invariant holds in every reachable state. *)
THEOREM Invariance == Spec => []IInv
  BY InitIInv, NextKeepsIInv, PTL DEF Spec

(* The sequence numbers in the log are 1, 2, 3, ..., whatever was rejected, *)
(* failed to be written or synced, or was lost in a crash.                  *)
THEOREM SequenceIsContiguous == Spec => []SequenceContiguous
<1>1. IInv => SequenceContiguous  BY DEF IInv, FileInv
<1> QED BY <1>1, Invariance, PTL

(* A record whose append returned Ok stays at its place in the log, on      *)
(* stable storage.                                                          *)
LEMMA AcknowledgedIsDurable == Spec => []AckedIsDurable
<1>1. IInv => AckedIsDurable
  <2> SUFFICES ASSUME IInv, NEW e \in acked
               PROVE  e.seq <= durable /\ e.seq <= Len(file) /\ file[e.seq] = e
    BY DEF AckedIsDurable
  <2>1. Len(file) \in Nat
    BY SeqFacts DEF IInv, FileInv
  <2> QED BY <2>1 DEF IInv, FileInv, AckedInv
<1> QED BY <1>1, Invariance, PTL

(* What a run state shows is within the bound of every reader, and that     *)
(* bound is on stable storage.                                              *)
LEMMA StateIsReadable == Spec => []StateImpliesReadable
<1>1. IInv => StateImpliesReadable
  <2> SUFFICES ASSUME IInv, Running
               PROVE  next_seq <= published /\ published <= durable
    BY DEF StateImpliesReadable
  <2>1. Len(file) \in Nat
    BY SeqFacts DEF IInv, FileInv
  <2>2. CASE Batching \/ wpc = "fail"
    BY <2>2 DEF IInv, FileInv, WriterInv
  <2>3. CASE Publishing
    BY <2>1, <2>3 DEF IInv, FileInv, WriterInv, Publishing
  <2> QED BY <2>2, <2>3 DEF IInv, WriterInv, WriterPCs, Running, Batching, Publishing
<1> QED BY <1>1, Invariance, PTL

(* What a caller was acknowledged and what a run state shows to readers is  *)
(* on stable storage, and is read where it is.                              *)
THEOREM WhatIsAnsweredIsTrue == Spec => []AnswersAreTrue
<1>1. AnswersAreTrue <=> AckedIsDurable /\ StateImpliesReadable  BY DEF AnswersAreTrue
<1> QED BY <1>1, AcknowledgedIsDurable, StateIsReadable, PTL

(***************************************************************************)
(* The deletion protocol.  The commands that left their callers form one   *)
(* pipeline: the batch, the deferred delete, the queue.                    *)
(***************************************************************************)
Entry(a) == [run |-> a.event.run, kind |-> a.event.kind,
             client |-> a.client, guard |-> a.guard]
Held == IF deferred = None THEN 0 ELSE 1
PipeLen == Len(staged) + Held + Len(queue)
Pipe == [i \in 1..PipeLen |->
           IF i <= Len(staged) THEN Entry(staged[i])
           ELSE IF i <= Len(staged) + Held THEN deferred
           ELSE queue[i - Len(staged) - Held]]

(* The entries of the batch that are applied; the rest is still to come. *)
Done == IF Publishing THEN next_seq - (Len(file) - Len(staged)) ELSE 0
Pending == {i \in 1..PipeLen : i > Done}
Recorded(r) == \E i \in 1..next_seq : file[i].run = r

Calling == {c \in Clients : pc[c] \notin {"idle", "reply"}}
Senders == {c \in Clients : pc[c] = "send"}
Deleters == {c \in Clients : pc[c] \in {"claim", "arm", "test", "sleep"}}
Objects == 1..Len(reg.heap)

(* The delete guard whose record is applied and not yet committed. *)
Committing(o) == Settling /\ staged[Len(staged)].guard = o

IsRegistry(g) ==
  /\ g = [runs |-> g.runs, heap |-> g.heap, order |-> g.order, forgotten |-> g.forgotten]
  /\ g.runs \in [Runs -> Nat]
  /\ g.heap \in Seq(RunStates)
  /\ g.order \in Seq(Runs)
  /\ g.forgotten \in SUBSET Runs

TypeInv ==
  /\ queue \in Seq(Commands)
  /\ deferred \in Commands \cup {None}
  /\ staged \in Seq(StagedAppends)
  /\ drop \in Nat
  /\ IsRegistry(reg)
  /\ pc \in [Clients -> ClientPCs]
  /\ call \in [Clients -> [run : Runs \cup {None}, kind : Kinds, arc : Nat]]
  /\ gen \in [Runs -> Generations]
  /\ \A i \in 1..Len(file) : file[i] \in TimelineEvent

(* A writer that is down holds nothing; a delete is alone in its batch. *)
BatchInv ==
  /\ wpc = "down" => /\ queue = <<>> /\ deferred = None /\ drop = 0
                     /\ \A c \in Clients : pc[c] = "idle"
  /\ wpc = "recv" => staged = <<>>
  /\ wpc = "stage" => /\ deferred = None
                      /\ \A i \in 1..Len(staged) : staged[i].event.kind # "run_deleted"
  /\ \A i \in 1..Len(staged) : staged[i].event.kind = "run_deleted" => Len(staged) = 1

(* A call names its run, and only a delete carries a RunState. *)
CallInv ==
  /\ \A c \in Clients : pc[c] # "idle" => call[c].run \in Runs
  /\ \A c \in Calling : call[c].arc # 0 => call[c].kind = "run_deleted"
  /\ \A c \in Clients : pc[c] = "lookup" => call[c].kind = "run_deleted"
  /\ \A c \in Clients : pc[c] = "check" => call[c].kind # "run_deleted"
  /\ \A c \in Deleters : call[c].kind = "run_deleted" /\ call[c].arc # 0

(* Every caller has at most one command in the pipeline, and waits for it. *)
ReplyInv ==
  /\ \A i \in 1..PipeLen : Pipe[i].client # None => pc[Pipe[i].client] = "reply"
  /\ \A i, j \in 1..PipeLen : Pipe[i].client = Pipe[j].client /\ Pipe[i].client # None => i = j

(* A RunState belongs to one run, whoever holds it. *)
OwnerInv ==
  /\ \A r \in Runs : reg.runs[r] <= Len(reg.heap)
  /\ \A r, s \in Runs : reg.runs[r] = reg.runs[s] /\ reg.runs[r] # 0 => r = s
  /\ \A i \in 1..PipeLen : Pipe[i].guard # 0 =>
        /\ Pipe[i].kind = "run_deleted"
        /\ Pipe[i].guard <= Len(reg.heap)
        /\ \A s \in Runs : s # Pipe[i].run => reg.runs[s] # Pipe[i].guard
  /\ \A c \in Calling : call[c].arc # 0 =>
        /\ call[c].arc <= Len(reg.heap)
        /\ \A s \in Runs : s # call[c].run => reg.runs[s] # call[c].arc
  /\ drop <= Len(reg.heap)
  /\ wpc = "guard" => staged[Len(staged)].guard # 0
  /\ Settling => /\ Done = Len(staged)
                 /\ staged[Len(staged)].guard # 0 =>
                      \A s \in Runs : reg.runs[s] # staged[Len(staged)].guard

(* Every delete guard is in one place, and claims exactly its RunState. *)
GuardInv ==
  /\ \A i, j \in 1..PipeLen : Pipe[i].guard = Pipe[j].guard /\ Pipe[i].guard # 0 => i = j
  /\ \A c, d \in Senders : call[c].arc = call[d].arc /\ call[c].arc # 0 => c = d
  /\ \A i \in 1..PipeLen, c \in Senders : Pipe[i].guard # 0 => Pipe[i].guard # call[c].arc
  /\ drop # 0 => /\ \A i \in 1..PipeLen : Pipe[i].guard # drop
                 /\ \A c \in Senders : call[c].arc # drop
  /\ \A o \in Objects : reg.heap[o].del = "in_flight" =>
        \/ \E i \in 1..PipeLen : Pipe[i].guard = o
        \/ \E c \in Senders : call[c].arc = o
        \/ drop = o
  /\ \A o \in Objects : reg.heap[o].del = "live" =>
        /\ \A i \in 1..PipeLen : Pipe[i].guard # o
        /\ \A c \in Senders : call[c].arc # o
        /\ drop # o
  /\ \A i \in 1..PipeLen : i <= Done /\ Pipe[i].guard # 0 =>
        reg.heap[Pipe[i].guard].del = "deleted" \/ Committing(Pipe[i].guard)

(* A delete on its way holds the claim of its run's current RunState, and   *)
(* a deleter still after the claim knows that RunState or a deleted one.    *)
DeleteInv ==
  /\ \A i \in Pending : Pipe[i].kind = "run_deleted" /\ Pipe[i].run \notin reg.forgotten =>
       /\ Pipe[i].guard # 0 /\ Pipe[i].guard = reg.runs[Pipe[i].run]
       /\ reg.heap[Pipe[i].guard].del = "in_flight"
  /\ \A c \in Senders : call[c].kind = "run_deleted" /\ call[c].run \notin reg.forgotten =>
       /\ call[c].arc # 0 /\ call[c].arc = reg.runs[call[c].run]
       /\ reg.heap[call[c].arc].del = "in_flight"
  /\ \A c \in Clients : pc[c] = "lookup" /\ call[c].run \notin reg.forgotten =>
       reg.runs[call[c].run] # 0
  /\ \A c \in Deleters : call[c].run \notin reg.forgotten =>
       /\ reg.runs[call[c].run] # 0
       /\ \/ call[c].arc = reg.runs[call[c].run]
          \/ reg.heap[call[c].arc].del = "deleted"
          \/ Committing(call[c].arc)

(* Nothing of a run is on its way together with its run_created. *)
BirthInv == Running =>
  /\ \A r \in Runs : reg.runs[r] # 0 => Recorded(r)
  /\ \A e \in acked : e.seq <= next_seq
  /\ \A r \in Runs : Recorded(r) =>
       /\ \A i \in Pending : Pipe[i].run = r => Pipe[i].kind # "run_created"
       /\ \A c \in Calling : call[c].run = r => call[c].kind # "run_created"
  /\ \A r \in Runs : ~Recorded(r) =>
       /\ \A i, j \in Pending : Pipe[i].run = r /\ Pipe[j].run = r => i = j
       /\ \A i \in Pending, c \in Calling : Pipe[i].run = r => call[c].run # r
       /\ \A c, d \in Calling : call[c].run = r /\ call[d].run = r => c = d
       /\ gen[r] # "live"
  /\ \A r \in Runs : gen[r] = "unused" =>
       /\ \A i \in 1..Len(file) : file[i].run # r
       /\ \A i \in Pending : Pipe[i].run # r
       /\ \A c \in Calling : call[c].run # r

---------------------------------------------------------------------------
(* The registry operators *)

(* Setting delete_state touches one RunState and nothing else. *)
LEMMA SetDeleteFacts ==
  ASSUME NEW g, IsRegistry(g), NEW o \in 1..Len(g.heap), NEW d \in DeleteStates
  PROVE  LET h == SetDelete(g, o, d)
         IN  /\ IsRegistry(h) /\ h.runs = g.runs /\ h.forgotten = g.forgotten
             /\ Len(h.heap) = Len(g.heap)
             /\ \A i \in 1..Len(g.heap) :
                  /\ h.heap[i].created = g.heap[i].created
                  /\ h.heap[i].del = IF i = o THEN d ELSE g.heap[i].del
<1> DEFINE h == SetDelete(g, o, d)
           fresh == Notify([g.heap[o] EXCEPT !.del = d])
           new == [g.heap EXCEPT ![o] = fresh]
           n == Len(g.heap)
<1>1. n \in Nat /\ g.heap \in [1..n -> RunStates]
  BY LenProperties DEF IsRegistry
<1>2. fresh \in RunStates /\ fresh.created = g.heap[o].created /\ fresh.del = d
  BY <1>1 DEF Notify, RunStates
<1> HIDE DEF fresh
<1>3a. h = [g EXCEPT !.heap = new]
  BY DEF fresh, SetDelete
<1> HIDE DEF h, n, new
<1>3. h = [runs |-> g.runs, heap |-> new, order |-> g.order, forgotten |-> g.forgotten]
  BY <1>3a DEF IsRegistry
<1>4. h.runs = g.runs /\ h.forgotten = g.forgotten /\ h.order = g.order
      /\ h.heap = [g.heap EXCEPT ![o] = fresh]
  BY <1>3 DEF new
<1>5. h.heap \in [1..n -> RunStates]
      /\ \A i \in 1..n : h.heap[i] = IF i = o THEN fresh ELSE g.heap[i]
  BY <1>1, <1>2, <1>4 DEF n
<1>6. h.heap \in Seq(RunStates) /\ Len(h.heap) = n
  BY <1>1, <1>5, SeqDef, LenProperties
<1>7. IsRegistry(h)
  BY <1>3, <1>4, <1>6 DEF IsRegistry
<1> QED BY <1>2, <1>4, <1>5, <1>6, <1>7 DEF h, n

(* The waiters of a RunState are nobody's business but its deleters'. *)
LEMMA WaitersFacts ==
  ASSUME NEW g, IsRegistry(g), NEW o \in 1..Len(g.heap), NEW w \in SUBSET Clients
  PROVE  LET h == [g EXCEPT !.heap[o].waiters = w]
         IN  /\ IsRegistry(h) /\ h.runs = g.runs /\ h.forgotten = g.forgotten
             /\ Len(h.heap) = Len(g.heap)
             /\ \A i \in 1..Len(g.heap) :
                  h.heap[i].created = g.heap[i].created /\ h.heap[i].del = g.heap[i].del
<1> DEFINE h == [g EXCEPT !.heap[o].waiters = w]
           fresh == [g.heap[o] EXCEPT !.waiters = w]
           new == [g.heap EXCEPT ![o] = fresh]
           n == Len(g.heap)
<1>1. n \in Nat /\ g.heap \in [1..n -> RunStates]
  BY LenProperties DEF IsRegistry
<1>2. fresh \in RunStates /\ fresh.created = g.heap[o].created /\ fresh.del = g.heap[o].del
  BY <1>1 DEF RunStates
<1> HIDE DEF fresh
<1>3a. h = [g EXCEPT !.heap = new]
  BY DEF fresh
<1> HIDE DEF h, n, new
<1>3. h = [runs |-> g.runs, heap |-> new, order |-> g.order, forgotten |-> g.forgotten]
  BY <1>3a DEF IsRegistry
<1>4. h.runs = g.runs /\ h.forgotten = g.forgotten /\ h.order = g.order
      /\ h.heap = [g.heap EXCEPT ![o] = fresh]
  BY <1>3 DEF new
<1>5. h.heap \in [1..n -> RunStates]
      /\ \A i \in 1..n : h.heap[i] = IF i = o THEN fresh ELSE g.heap[i]
  BY <1>1, <1>2, <1>4 DEF n
<1>6. h.heap \in Seq(RunStates) /\ Len(h.heap) = n
  BY <1>1, <1>5, SeqDef, LenProperties
<1>7. IsRegistry(h)
  BY <1>3, <1>4, <1>6 DEF IsRegistry
<1> QED BY <1>2, <1>4, <1>5, <1>6, <1>7 DEF h, n

(* A claim sets delete_state and wakes nobody. *)
LEMMA BeginDeleteFacts ==
  ASSUME NEW g, IsRegistry(g), NEW o \in 1..Len(g.heap)
  PROVE  LET h == BeginDeleteAppend(g, o)
         IN  /\ IsRegistry(h) /\ h.runs = g.runs /\ h.forgotten = g.forgotten
             /\ Len(h.heap) = Len(g.heap)
             /\ \A i \in 1..Len(g.heap) :
                  /\ h.heap[i].created = g.heap[i].created
                  /\ h.heap[i].del = IF i = o THEN "in_flight" ELSE g.heap[i].del
<1> DEFINE h == BeginDeleteAppend(g, o)
           fresh == [g.heap[o] EXCEPT !.del = "in_flight"]
           new == [g.heap EXCEPT ![o] = fresh]
           n == Len(g.heap)
<1>1. n \in Nat /\ g.heap \in [1..n -> RunStates]
  BY LenProperties DEF IsRegistry
<1>2. fresh \in RunStates /\ fresh.created = g.heap[o].created /\ fresh.del = "in_flight"
  BY <1>1 DEF RunStates, DeleteStates
<1> HIDE DEF fresh
<1>3a. h = [g EXCEPT !.heap = new]
  BY DEF fresh, BeginDeleteAppend
<1> HIDE DEF h, n, new
<1>3. h = [runs |-> g.runs, heap |-> new, order |-> g.order, forgotten |-> g.forgotten]
  BY <1>3a DEF IsRegistry
<1>4. h.runs = g.runs /\ h.forgotten = g.forgotten /\ h.order = g.order
      /\ h.heap = [g.heap EXCEPT ![o] = fresh]
  BY <1>3 DEF new
<1>5. h.heap \in [1..n -> RunStates]
      /\ \A i \in 1..n : h.heap[i] = IF i = o THEN fresh ELSE g.heap[i]
  BY <1>1, <1>2, <1>4 DEF n
<1>6. h.heap \in Seq(RunStates) /\ Len(h.heap) = n
  BY <1>1, <1>5, SeqDef, LenProperties
<1>7. IsRegistry(h)
  BY <1>3, <1>4, <1>6 DEF IsRegistry
<1> QED BY <1>2, <1>4, <1>5, <1>6, <1>7 DEF h, n

(* Induction, for a set of numbers that is closed under successor. *)
LEMMA LeastNatural ==
  ASSUME NEW T \in SUBSET Nat, T # {}
  PROVE  \E n \in T : \A m \in T : n <= m
<1>1. PICK n \in T : \A m \in T : ~ (<<m, n>> \in OpToRel(<, Nat))
  BY NatLessThanWellFounded, WFMin
<1>2. \A m \in T : ~(m < n)
  BY <1>1 DEF OpToRel
<1> QED BY <1>2

(* A set of numbers that holds 0 and every successor holds them all.       *)
LEMMA Induction ==
  ASSUME NEW T \in SUBSET Nat, 0 \in T, \A n \in T : n + 1 \in T
  PROVE  T = Nat
<1> SUFFICES ASSUME Nat \ T # {} PROVE FALSE
  OBVIOUS
<1>1. PICK n \in Nat \ T : \A m \in Nat \ T : n <= m
  BY LeastNatural
<1>2. n - 1 \in Nat /\ n - 1 \notin Nat \ T
  BY <1>1
<1> QED BY <1>1, <1>2

(* The last index is taken first.                                           *)
LEMMA LastIndexFacts ==
  ASSUME NEW m \in Nat, NEW s \in SUBSET (1..m + 1), m + 1 \in s
  PROVE  LastIndex(s) = m + 1
<1>1. \A j \in s : j <= m + 1 /\ j \in Int
  OBVIOUS
<1>2. \E i : i \in s /\ \A j \in s : j <= i
  BY <1>1
<1>3. LastIndex(s) = CHOOSE i : i \in s /\ \A j \in s : j <= i
  BY Zenon DEF LastIndex
<1>4. LastIndex(s) \in s /\ \A j \in s : j <= LastIndex(s)
  BY <1>2, <1>3, Zenon
<1>5. LastIndex(s) \in Int /\ LastIndex(s) <= m + 1 /\ m + 1 <= LastIndex(s)
  BY <1>1, <1>4
<1> QED BY <1>5

(* What eviction does to a registry, at most: entries of the map go, and    *)
(* whose they were is remembered.                                           *)
Evicts(g, h) ==
  /\ IsRegistry(h) /\ h.heap = g.heap /\ g.forgotten \subseteq h.forgotten
  /\ \A r \in Runs : h.runs[r] = g.runs[r] \/ (h.runs[r] = 0 /\ r \in h.forgotten)

(* A run that is spared goes to the back of the FIFO.                       *)
LEMMA RotateFacts ==
  ASSUME NEW g, IsRegistry(g), g.order # <<>>
  PROVE  LET h == RotateOldest(g)
         IN  Evicts(g, h) /\ h.runs = g.runs /\ h.forgotten = g.forgotten
<1> DEFINE q == g.order
           order == Append(Tail(q), Head(q))
           h == RotateOldest(g)
<1>1. order \in Seq(Runs)
  BY HeadTailProperties, AppendProperties DEF IsRegistry
<1> HIDE DEF order
<1>2. h = [runs |-> g.runs, heap |-> g.heap, order |-> order, forgotten |-> g.forgotten]
  <2>1. g = [runs |-> g.runs, heap |-> g.heap, order |-> g.order, forgotten |-> g.forgotten]
    BY DEF IsRegistry
  <2>2. h = [g EXCEPT !.order = order]
    BY DEF RotateOldest, order
  <2> QED BY <2>1, <2>2
<1> HIDE DEF h
<1>3. IsRegistry(h)
  BY <1>1, <1>2 DEF IsRegistry
<1> QED BY <1>2, <1>3 DEF Evicts, h

(* The others are popped, and their tombstone leaves the map.               *)
LEMMA ForgetFacts ==
  ASSUME NEW g, IsRegistry(g), g.order # <<>>
  PROVE  LET h == ForgetOldest(g)
         IN  Evicts(g, h) /\ h.forgotten \subseteq g.forgotten \cup {Oldest(g)}
<1> DEFINE q == g.order
           gone == {r \in {Oldest(g)} : Deleted(g, r)}
           runs == [r \in Runs |-> IF r \in gone THEN 0 ELSE g.runs[r]]
           h == ForgetOldest(g)
<1>1. Tail(q) \in Seq(Runs) /\ Oldest(g) \in Runs
  BY HeadTailProperties DEF IsRegistry, Oldest
<1>2. gone \in SUBSET Runs /\ gone \subseteq {Oldest(g)}
  BY <1>1
<1>3. runs \in [Runs -> Nat] /\ \A r \in Runs : runs[r] = IF r \in gone THEN 0 ELSE g.runs[r]
  BY DEF IsRegistry
<1>4. h = [runs |-> runs, heap |-> g.heap, order |-> Tail(q), forgotten |-> g.forgotten \cup gone]
  <2>1. g = [runs |-> g.runs, heap |-> g.heap, order |-> g.order, forgotten |-> g.forgotten]
    BY DEF IsRegistry
  <2>2. h = [g EXCEPT !.order = Tail(q), !.runs = runs, !.forgotten = g.forgotten \cup gone]
    BY DEF ForgetOldest
  <2> HIDE DEF h, gone, runs
  <2> QED BY <2>1, <2>2
<1> HIDE DEF h, gone, runs
<1>5. IsRegistry(h)
  BY <1>1, <1>2, <1>3, <1>4 DEF IsRegistry
<1>6. Evicts(g, h)
  BY <1>3, <1>4, <1>5 DEF Evicts
<1> QED BY <1>2, <1>4, <1>6 DEF h

(* A record update of the two fields that a structural event changes. *)
LEMMA UpdateFacts ==
  ASSUME NEW g, IsRegistry(g), NEW heap, NEW runs
  PROVE  [g EXCEPT !.heap = heap, !.runs = runs] =
           [runs |-> runs, heap |-> heap, order |-> g.order, forgotten |-> g.forgotten]
<1> DEFINE k == [g EXCEPT !.heap = heap]
<1>1. [g EXCEPT !.heap = heap, !.runs = runs] = [k EXCEPT !.runs = runs]
  OBVIOUS
<1>2. k = [runs |-> g.runs, heap |-> heap, order |-> g.order, forgotten |-> g.forgotten]
  <2>1. g = [runs |-> g.runs, heap |-> g.heap, order |-> g.order, forgotten |-> g.forgotten]
    BY DEF IsRegistry
  <2> QED BY <2>1
<1> HIDE DEF k
<1>3. [k EXCEPT !.runs = runs] =
        [runs |-> runs, heap |-> heap, order |-> g.order, forgotten |-> g.forgotten]
  BY <1>2
<1> QED BY <1>1, <1>3

(* A structural event gives its run a fresh RunState, made from what was   *)
(* known of the run and what the event says.                               *)
LEMMA StructuralFacts ==
  ASSUME NEW g, IsRegistry(g), \A r \in Runs : g.runs[r] <= Len(g.heap),
         NEW e, e.run \in Runs, e.kind \in Kinds
  PROVE  LET h == ApplyStructuralEvent(g, e)
             n == Len(g.heap)
         IN  /\ IsRegistry(h) /\ Len(h.heap) = n + 1
             /\ \A i \in 1..n : h.heap[i] = g.heap[i]
             /\ h.heap[n + 1].created =
                  (Summary(g, e.run).created \/ e.kind = "run_created")
             /\ h.heap[n + 1].del =
                  IF Summary(g, e.run).deleted \/ e.kind = "run_deleted"
                  THEN "deleted" ELSE "live"
             /\ g.forgotten = h.forgotten
             /\ \A r \in Runs : h.runs[r] = IF r = e.run THEN n + 1 ELSE g.runs[r]
<1> DEFINE n == Len(g.heap)
           before == Summary(g, e.run)
           deleted == before.deleted \/ e.kind = "run_deleted"
           created == before.created \/ e.kind = "run_created"
           fresh == [created |-> created,
                     del |-> IF deleted THEN "deleted" ELSE "live", waiters |-> {}]
           runs == [g.runs EXCEPT ![e.run] = n + 1]
           heap == Append(g.heap, fresh)
           inserted == [g EXCEPT !.heap = heap, !.runs = runs]
           queued == [inserted EXCEPT !.order = Append(@, e.run)]
           h == ApplyStructuralEvent(g, e)
<1>1. n \in Nat /\ g.heap \in Seq(RunStates) /\ g.heap \in [1..n -> RunStates]
      /\ g.runs \in [Runs -> Nat]
  BY LenProperties DEF IsRegistry
<1>2. created \in BOOLEAN
  <2>1. CASE Present(g, e.run)
    <3>1. before.created = g.heap[g.runs[e.run]].created
      BY <2>1 DEF Summary
    <3>2. g.runs[e.run] \in 1..n
      BY <2>1, <1>1 DEF Present
    <3>3. g.heap[g.runs[e.run]].created \in BOOLEAN
      BY <1>1, <3>2, Zenon DEF RunStates
    <3> QED BY <3>1, <3>3
  <2>2. CASE ~Present(g, e.run)
    BY <2>2 DEF Summary, DefaultSummary
  <2> QED BY <2>1, <2>2
<1>3. fresh \in RunStates /\ fresh.created = created
      /\ fresh.del = IF deleted THEN "deleted" ELSE "live"
  BY <1>2 DEF RunStates, DeleteStates
<1>4. h = IF FreshlyDeleted(g, e) THEN queued ELSE inserted
  <2> DEFINE written == [g EXCEPT !.heap = Append(@, fresh), !.runs[e.run] = Len(g.heap) + 1]
  <2>1. written = inserted
    <3> HIDE DEF fresh
    <3> QED OBVIOUS
  <2>2. h = IF FreshlyDeleted(g, e) THEN [written EXCEPT !.order = Append(@, e.run)] ELSE written
    BY Zenon DEF ApplyStructuralEvent
  <2> HIDE DEF written, inserted, h
  <2> QED BY <2>1, <2>2
<1> HIDE DEF fresh, h
<1>5. /\ heap \in Seq(RunStates) /\ Len(heap) = n + 1 /\ heap[n + 1] = fresh
      /\ \A i \in 1..n : heap[i] = g.heap[i]
  BY <1>1, <1>3, AppendProperties
<1>6. runs \in [Runs -> Nat] /\ \A r \in Runs : runs[r] = IF r = e.run THEN n + 1 ELSE g.runs[r]
  BY <1>1
<1> HIDE DEF n, runs, heap
<1>7. inserted = [runs |-> runs, heap |-> heap, order |-> g.order, forgotten |-> g.forgotten]
  BY UpdateFacts
<1> HIDE DEF inserted
<1>8. /\ IsRegistry(inserted) /\ inserted.runs = runs /\ inserted.heap = heap
      /\ inserted.forgotten = g.forgotten /\ inserted.order = g.order
  BY <1>5, <1>6, <1>7 DEF IsRegistry
<1>9. queued = [runs |-> runs, heap |-> heap, order |-> Append(g.order, e.run),
                forgotten |-> g.forgotten]
  <2> DEFINE order == Append(inserted.order, e.run)
  <2>1. queued = [inserted EXCEPT !.order = order]
    OBVIOUS
  <2>2. order = Append(g.order, e.run)
    BY <1>8
  <2> HIDE DEF order, queued
  <2> QED BY <1>7, <2>1, <2>2
<1> HIDE DEF queued
<1>10. /\ IsRegistry(queued) /\ queued.runs = runs /\ queued.heap = heap
       /\ queued.forgotten = g.forgotten
  <2>1. g.order \in Seq(Runs) /\ g.forgotten \in SUBSET Runs
    BY DEF IsRegistry
  <2>2. Append(g.order, e.run) \in Seq(Runs)
    BY <2>1, AppendProperties
  <2> QED BY <1>5, <1>6, <1>9, <2>1, <2>2 DEF IsRegistry
<1>11. IsRegistry(h) /\ h.heap = heap /\ g.forgotten = h.forgotten /\ h.runs = runs
  BY <1>4, <1>8, <1>10
<1> QED BY <1>3, <1>5, <1>6, <1>11 DEF h, n

---------------------------------------------------------------------------
(* The pipeline *)

(* What the pipeline holds, and where. *)
LEMMA PipeFacts ==
  ASSUME TypeInv
  PROVE  /\ Len(staged) \in Nat /\ Len(queue) \in Nat /\ Held \in {0, 1} /\ PipeLen \in Nat
         /\ PipeLen = Len(staged) + Held + Len(queue)
         /\ IsSeq(staged) /\ IsSeq(queue)
         /\ \A i \in 1..PipeLen : Pipe[i] \in Commands
         /\ \A i \in 1..PipeLen :
              Pipe[i] = IF i <= Len(staged) THEN Entry(staged[i])
                        ELSE IF i <= Len(staged) + Held THEN deferred
                        ELSE queue[i - Len(staged) - Held]
<1>1. /\ Len(staged) \in Nat /\ Len(queue) \in Nat
      /\ \A i \in 1..Len(staged) : staged[i] \in StagedAppends
      /\ \A i \in 1..Len(queue) : queue[i] \in Commands
      /\ IsSeq(staged) /\ IsSeq(queue)
  BY LenProperties, ElementOfSeq, SeqIsSeq DEF TypeInv
<1>2. Held \in {0, 1} /\ (Held = 1 => deferred \in Commands)
  BY DEF Held, TypeInv
<1>3. PipeLen \in Nat /\ PipeLen = Len(staged) + Held + Len(queue)
  BY <1>1, <1>2 DEF PipeLen
<1>4. \A i \in 1..PipeLen :
        Pipe[i] = IF i <= Len(staged) THEN Entry(staged[i])
                  ELSE IF i <= Len(staged) + Held THEN deferred
                  ELSE queue[i - Len(staged) - Held]
  BY Zenon DEF Pipe
<1>5. ASSUME NEW i \in 1..PipeLen PROVE Pipe[i] \in Commands
  <2>1. CASE i <= Len(staged)
    <3>1. staged[i] \in StagedAppends
      BY <1>1, <1>3, <2>1
    <3>2. Entry(staged[i]) \in Commands
      BY <3>1 DEF Entry, StagedAppends, TimelineEvent, Commands
    <3> QED BY <1>4, <2>1, <3>2
  <2>2. CASE i > Len(staged) /\ i <= Len(staged) + Held
    <3>1. Held = 1 /\ Pipe[i] = deferred
      BY <1>1, <1>2, <1>3, <1>4, <2>2
    <3> QED BY <1>2, <3>1
  <2>3. CASE i > Len(staged) + Held
    <3>1. i - Len(staged) - Held \in 1..Len(queue) /\ Pipe[i] = queue[i - Len(staged) - Held]
      BY <1>1, <1>2, <1>3, <1>4, <2>3
    <3> QED BY <1>1, <3>1
  <2> QED BY <1>1, <1>2, <1>3, <2>1, <2>2, <2>3
<1> QED BY <1>1, <1>2, <1>3, <1>4, <1>5

(* What the step after this one leaves in the pipeline. *)
PipeKept == PipeLen' = PipeLen /\ \A i \in 1..PipeLen : Pipe'[i] = Pipe[i]
PipeWithout(k) ==
  /\ k \in 1..PipeLen /\ PipeLen' = PipeLen - 1
  /\ \A i \in 1..PipeLen - 1 : Pipe'[i] = Pipe[IF i < k THEN i ELSE i + 1]
PipeWith(cmd) ==
  /\ PipeLen' = PipeLen + 1 /\ Pipe'[PipeLen + 1] = cmd
  /\ \A i \in 1..PipeLen : Pipe'[i] = Pipe[i]

(* Nothing is handed on. *)
LEMMA PipeUnchanged == ASSUME UNCHANGED <<staged, deferred, queue>> PROVE PipeKept
  BY DEF PipeKept, PipeLen, Pipe, Held, Entry

(* What a take finds at the head, and what it leaves. *)
LEMMA DequeueFacts ==
  ASSUME TypeInv, HasCommand, Dequeue
  PROVE  /\ Current \in Commands /\ Held' = 0
         /\ Held + Len(queue) >= 1 /\ Len(queue') = Held + Len(queue) - 1
         /\ Current = IF Held = 1 THEN deferred ELSE queue[1]
         /\ \A i \in 1..Len(queue') : queue'[i] = queue[i + 1 - Held]
<1>1. CASE deferred # None
  <2>1. Held = 1 /\ Current = deferred /\ deferred' = None /\ queue' = queue
    BY <1>1 DEF Held, Current, Dequeue
  <2>2. Held' = 0 /\ deferred \in Commands /\ Len(queue) \in Nat
    BY <1>1, <2>1, PipeFacts DEF Held, TypeInv
  <2> QED BY <2>1, <2>2
<1>2. CASE deferred = None
  <2>1. Held = 0 /\ Held' = 0 /\ Current = Head(queue) /\ queue' = Tail(queue) /\ queue # <<>>
    BY <1>2 DEF Held, Current, Dequeue, HasCommand
  <2>2. Head(queue) = queue[1] /\ Len(queue) \in Nat /\ Len(queue) >= 1 /\ queue[1] \in Commands
    BY <2>1, HeadTailProperties, LenProperties, EmptySeq, ElementOfSeq DEF TypeInv
  <2>3. Len(queue') = Len(queue) - 1 /\ \A i \in 1..Len(queue) - 1 : queue'[i] = queue[i + 1]
    BY <2>1, TailFacts, PipeFacts
  <2> QED BY <2>1, <2>2, <2>3
<1> QED BY <1>1, <1>2

(* The command that ended a batch waits in front of the queue. *)
LEMMA PipeDefer == ASSUME TypeInv, BatchInv, DeferDelete PROVE PipeKept
<1>1. /\ wpc = "stage" /\ deferred = None /\ queue # <<>>
      /\ deferred' = Head(queue) /\ queue' = Tail(queue) /\ staged' = staged
  BY DEF DeferDelete, CanTake, Defer, HasCommand, Current, BatchInv
<1>2. /\ Len(queue) \in Nat \ {0} /\ Head(queue) = queue[1] /\ queue[1] \in Commands
      /\ Len(queue') = Len(queue) - 1 /\ \A i \in 1..Len(queue) - 1 : queue'[i] = queue[i + 1]
  BY <1>1, HeadTailProperties, LenProperties, EmptySeq, ElementOfSeq, TailFacts, PipeFacts
     DEF TypeInv
<1>3. Held = 0 /\ Held' = 1
  BY <1>1, <1>2, CommandAssumption DEF Held
<1>4. Len(staged) \in Nat /\ Len(staged') = Len(staged)
  BY <1>1, PipeFacts
<1>5. PipeLen = Len(staged) + Len(queue) /\ PipeLen' = PipeLen
  BY <1>2, <1>3, <1>4 DEF PipeLen
<1>6. ASSUME NEW i \in 1..PipeLen PROVE Pipe'[i] = Pipe[i]
  <2>1. /\ Pipe[i] = IF i <= Len(staged) THEN Entry(staged[i]) ELSE queue[i - Len(staged)]
        /\ Pipe'[i] = IF i <= Len(staged) THEN Entry(staged[i])
                      ELSE IF i <= Len(staged) + 1 THEN queue[1]
                      ELSE queue'[i - Len(staged) - 1]
    BY <1>1, <1>2, <1>3, <1>4, <1>5 DEF Pipe, Entry
  <2>2. CASE i <= Len(staged)
    BY <2>1, <2>2
  <2>3. CASE i = Len(staged) + 1
    BY <1>4, <2>1, <2>3
  <2>4. CASE i > Len(staged) + 1
    <3>1. i - Len(staged) - 1 \in 1..Len(queue) - 1
          /\ (i - Len(staged) - 1) + 1 = i - Len(staged)
      BY <1>2, <1>4, <1>5, <2>4
    <3>2. queue'[i - Len(staged) - 1] = queue[i - Len(staged)]
      BY <1>2, <3>1
    <3> QED BY <1>4, <2>1, <2>4, <3>2
  <2> QED BY <1>4, <1>5, <2>2, <2>3, <2>4
<1> QED BY <1>5, <1>6 DEF PipeKept

(* A staged command stays where it is. *)
LEMMA PipeStage ==
  ASSUME TypeInv, StageCommand
  PROVE  PipeKept /\ Len(staged) + 1 \in 1..PipeLen /\ Pipe[Len(staged) + 1] = Current
         /\ Len(staged') = Len(staged) + 1
<1> DEFINE n == Len(staged)
           a == [event |-> NextEvent(Current), client |-> Current.client,
                 guard |-> Current.guard]
<1>1. HasCommand /\ Dequeue /\ staged' = Append(staged, a)
  BY DEF StageCommand, CanTake, Advance
<1>2. /\ Current \in Commands /\ Held' = 0
      /\ Held + Len(queue) >= 1 /\ Len(queue') = Held + Len(queue) - 1
      /\ Current = IF Held = 1 THEN deferred ELSE queue[1]
      /\ \A i \in 1..Len(queue') : queue'[i] = queue[i + 1 - Held]
  BY <1>1, DequeueFacts
<1>3. n \in Nat /\ Held \in {0, 1} /\ Len(queue) \in Nat /\ PipeLen = n + Held + Len(queue)
  BY PipeFacts
<1>4. Entry(a) = Current
  BY <1>2 DEF Entry, NextEvent, Commands
<1> HIDE DEF a
<1>5. /\ Len(staged') = n + 1 /\ staged'[n + 1] = a
      /\ \A i \in 1..n : staged'[i] = staged[i]
  BY <1>1, PipeFacts, AppendFacts
<1>6. PipeLen' = PipeLen
  BY <1>2, <1>3, <1>5 DEF PipeLen
<1>7. ASSUME NEW i \in 1..PipeLen PROVE Pipe'[i] = Pipe[i]
  <2>1. /\ Pipe[i] = IF i <= n THEN Entry(staged[i])
                     ELSE IF i <= n + Held THEN deferred ELSE queue[i - n - Held]
        /\ Pipe'[i] = IF i <= n + 1 THEN Entry(staged'[i]) ELSE queue'[i - (n + 1)]
    BY <1>2, <1>3, <1>5, <1>6 DEF Pipe, Entry
  <2> HIDE DEF n
  <2>2. CASE i <= n
    BY <1>3, <1>5, <2>1, <2>2
  <2>3. CASE i = n + 1
    BY <1>2, <1>3, <1>4, <1>5, <2>1, <2>3
  <2>4. CASE i > n + 1
    <3>1. i - (n + 1) \in 1..Len(queue')
          /\ (i - (n + 1)) + 1 - Held = i - n - Held
      BY <1>2, <1>3, <2>4
    <3>2. queue'[i - (n + 1)] = queue[i - n - Held]
      BY <1>2, <3>1
    <3> QED BY <1>3, <2>1, <2>4, <3>2
  <2> QED BY <1>3, <2>2, <2>3, <2>4
<1>8. n + 1 \in 1..PipeLen /\ Pipe[n + 1] = Current
  BY <1>2, <1>3, PipeFacts
<1> QED BY <1>5, <1>6, <1>7, <1>8 DEF PipeKept

(* A rejected command leaves from behind the batch. *)
LEMMA PipeReject ==
  ASSUME TypeInv, HasCommand, Dequeue, staged' = staged
  PROVE  PipeWithout(Len(staged) + 1) /\ Pipe[Len(staged) + 1] = Current
<1> DEFINE n == Len(staged)
<1>2. /\ Current \in Commands /\ Held' = 0
      /\ Held + Len(queue) >= 1 /\ Len(queue') = Held + Len(queue) - 1
      /\ Current = IF Held = 1 THEN deferred ELSE queue[1]
      /\ \A i \in 1..Len(queue') : queue'[i] = queue[i + 1 - Held]
  BY DequeueFacts
<1>3. n \in Nat /\ Held \in {0, 1} /\ Len(queue) \in Nat /\ PipeLen = n + Held + Len(queue)
  BY PipeFacts
<1>4. PipeLen' = PipeLen - 1
  BY <1>2, <1>3 DEF PipeLen
<1>5. n + 1 \in 1..PipeLen /\ Pipe[n + 1] = Current
  BY <1>2, <1>3, PipeFacts
<1>6. ASSUME NEW i \in 1..PipeLen - 1 PROVE Pipe'[i] = Pipe[IF i < n + 1 THEN i ELSE i + 1]
  <2>1. Pipe'[i] = IF i <= n THEN Entry(staged[i]) ELSE queue'[i - n]
    BY <1>2, <1>3, <1>4 DEF Pipe, Entry
  <2>2. /\ i \in 1..PipeLen /\ i + 1 \in 1..PipeLen
    BY <1>3
  <2>3. CASE i <= n
    BY <1>3, <2>1, <2>2, <2>3, PipeFacts
  <2>4. CASE i > n
    <3>1. Pipe[i + 1] = IF i + 1 <= n + Held THEN deferred ELSE queue[i + 1 - n - Held]
      BY <1>3, <2>2, <2>4, PipeFacts
    <3>2. ~(i + 1 <= n + Held)
      BY <1>3, <2>4
    <3>3. i - n \in 1..Len(queue') /\ (i - n) + 1 - Held = i + 1 - n - Held
      BY <1>2, <1>3, <2>4
    <3>4. queue'[i - n] = queue[i + 1 - n - Held]
      BY <1>2, <3>3
    <3> QED BY <1>3, <2>1, <2>4, <3>1, <3>2, <3>4
  <2> QED BY <1>3, <2>3, <2>4
<1> QED BY <1>4, <1>5, <1>6 DEF PipeWithout

(* An answered command leaves from the front. *)
LEMMA PipeReply ==
  ASSUME TypeInv, staged # <<>>, staged' = Tail(staged), UNCHANGED <<queue, deferred>>
  PROVE  PipeWithout(1) /\ Pipe[1] = Entry(Head(staged)) /\ Len(staged') = Len(staged) - 1
         /\ Len(staged) >= 1
<1> DEFINE n == Len(staged)
<1>1. n \in Nat /\ n >= 1 /\ Head(staged) = staged[1]
  BY HeadTailProperties, LenProperties, EmptySeq DEF TypeInv
<1>2. Len(staged') = n - 1 /\ \A i \in 1..n - 1 : staged'[i] = staged[i + 1]
  BY TailFacts, PipeFacts
<1>3. Held \in {0, 1} /\ Held' = Held /\ Len(queue) \in Nat /\ PipeLen = n + Held + Len(queue)
  BY PipeFacts DEF Held
<1>4. PipeLen' = PipeLen - 1
  BY <1>1, <1>2, <1>3 DEF PipeLen
<1>5. 1 \in 1..PipeLen /\ Pipe[1] = Entry(Head(staged))
  BY <1>1, <1>3, PipeFacts
<1>6. ASSUME NEW i \in 1..PipeLen - 1 PROVE Pipe'[i] = Pipe[i + 1]
  <2>1. Pipe'[i] = IF i <= n - 1 THEN Entry(staged'[i])
                   ELSE IF i <= n - 1 + Held THEN deferred ELSE queue[i - (n - 1) - Held]
    BY <1>1, <1>2, <1>3, <1>4 DEF Pipe, Entry
  <2>2. Pipe[i + 1] = IF i + 1 <= n THEN Entry(staged[i + 1])
                      ELSE IF i + 1 <= n + Held THEN deferred ELSE queue[i + 1 - n - Held]
    BY <1>1, <1>3, PipeFacts
  <2>3. i - (n - 1) - Held = i + 1 - n - Held
    BY <1>1, <1>3
  <2> QED BY <1>1, <1>2, <1>3, <2>1, <2>2, <2>3
<1>7. \A i \in 1..PipeLen - 1 : (IF i < 1 THEN i ELSE i + 1) = i + 1
  OBVIOUS
<1> QED BY <1>1, <1>2, <1>4, <1>5, <1>6, <1>7 DEF PipeWithout

(* A sent command joins at the back. *)
LEMMA PipeSend ==
  ASSUME TypeInv, NEW cmd, queue' = Append(queue, cmd), UNCHANGED <<staged, deferred>>
  PROVE  PipeWith(cmd)
<1> DEFINE n == Len(staged)
<1>1. n \in Nat /\ Held \in {0, 1} /\ Held' = Held /\ Len(queue) \in Nat
      /\ PipeLen = n + Held + Len(queue)
  BY PipeFacts DEF Held
<1>2. /\ Len(queue') = Len(queue) + 1 /\ queue'[Len(queue) + 1] = cmd
      /\ \A i \in 1..Len(queue) : queue'[i] = queue[i]
  BY PipeFacts, AppendFacts
<1>3. PipeLen' = PipeLen + 1
  BY <1>1, <1>2 DEF PipeLen
<1>4. \A i \in 1..PipeLen + 1 :
        Pipe'[i] = IF i <= n THEN Entry(staged[i])
                   ELSE IF i <= n + Held THEN deferred ELSE queue'[i - n - Held]
  BY <1>1, <1>3 DEF Pipe, Entry
<1>5. Pipe'[PipeLen + 1] = cmd
  BY <1>1, <1>2, <1>4
<1>6. ASSUME NEW i \in 1..PipeLen PROVE Pipe'[i] = Pipe[i]
  <2>1. Pipe[i] = IF i <= n THEN Entry(staged[i])
                  ELSE IF i <= n + Held THEN deferred ELSE queue[i - n - Held]
    BY PipeFacts
  <2>2. Pipe'[i] = IF i <= n THEN Entry(staged[i])
                   ELSE IF i <= n + Held THEN deferred ELSE queue'[i - n - Held]
    <3>1. i \in 1..PipeLen + 1
      BY <1>1
    <3> HIDE DEF n
    <3> QED BY <1>4, <3>1, Zenon
  <2>3. CASE i <= n + Held
    BY <1>1, <2>1, <2>2, <2>3
  <2>4. CASE i > n + Held
    <3>1. i - n - Held \in 1..Len(queue) /\ ~(i <= n)
      BY <1>1, <2>4
    <3>2. queue'[i - n - Held] = queue[i - n - Held]
      BY <1>2, <3>1
    <3> QED BY <1>1, <2>1, <2>2, <2>4, <3>1, <3>2
  <2> QED BY <1>1, <2>3, <2>4
<1> QED BY <1>3, <1>5, <1>6 DEF PipeWith

---------------------------------------------------------------------------
(* The invariant is inductive, invariant by invariant *)

(* The parts of the invariant that talk about the pipeline and its callers. *)
ProtocolInv == CallInv /\ ReplyInv /\ OwnerInv /\ GuardInv /\ DeleteInv /\ BirthInv
Protocol == <<pc, call, drop, reg, gen, next_seq, acked>>

(* The readable part of the log does not change, and what is written behind *)
(* it is a pending command's.                                               *)
LogGrows ==
  /\ \A i \in 1..next_seq : file'[i] = file[i]
  /\ \A i \in 1..Len(file') :
       \/ i \in 1..Len(file) /\ file'[i] = file[i]
       \/ \E k \in Pending : Pipe[k].run = file'[i].run

(* Staging, deferring, ending, syncing and publishing a batch: the same     *)
(* commands are on the way before and after.                                *)
LEMMA SteadyKeepsProtocol ==
  ASSUME TypeInv, ProtocolInv, PipeKept, Done' = Done, UNCHANGED Protocol, LogGrows,
         ~Settling, ~Settling', Running' = Running
  PROVE  ProtocolInv'
<1>1. /\ PipeLen' = PipeLen /\ \A i \in 1..PipeLen : Pipe'[i] = Pipe[i]
      /\ Pending' = Pending /\ Pending \subseteq 1..PipeLen
  BY DEF PipeKept, Pending
<1>2. UNCHANGED <<pc, call, drop, reg, gen, next_seq, acked>>
  BY DEF Protocol
<1>3. Calling' = Calling /\ Senders' = Senders /\ Deleters' = Deleters /\ Objects' = Objects
  BY <1>2 DEF Calling, Senders, Deleters, Objects
<1>4. \A o : Committing(o) <=> FALSE
  BY DEF Committing, Settling
<1>5. \A o : Committing(o)' <=> FALSE
  BY DEF Committing, Settling
<1>6. CallInv'
  BY <1>2, <1>3 DEF ProtocolInv, CallInv
<1>7. ReplyInv'
  BY <1>1, <1>2 DEF ProtocolInv, ReplyInv
<1>8. OwnerInv'
  BY <1>1, <1>2, <1>3 DEF ProtocolInv, OwnerInv, Settling
<1>9. GuardInv'
  BY <1>1, <1>2, <1>3, <1>4, <1>5 DEF ProtocolInv, GuardInv
<1>10. DeleteInv'
  BY <1>1, <1>2, <1>3, <1>4, <1>5 DEF ProtocolInv, DeleteInv
<1>11. BirthInv'
  <2> SUFFICES ASSUME Running' PROVE BirthInv'
    BY DEF BirthInv
  <2>1. Running
    OBVIOUS
  <2>2. \A r \in Runs : Recorded(r)' <=> Recorded(r)
    BY <1>2 DEF LogGrows, Recorded
  <2> QED BY <1>1, <1>2, <1>3, <2>1, <2>2 DEF ProtocolInv, BirthInv, LogGrows
<1> QED BY <1>6, <1>7, <1>8, <1>9, <1>10, <1>11 DEF ProtocolInv

(* A command is rejected: its caller returns and its guard is about to be   *)
(* dropped.                                                                 *)
LEMMA RejectKeepsProtocol ==
  ASSUME TypeInv, ProtocolInv, Done \in Nat, NEW k \in Pending, PipeWithout(k), Done' = Done,
         NEW cmd, cmd.guard = Pipe[k].guard, cmd.client = Pipe[k].client,
         RejectReply(cmd), drop = 0,
         UNCHANGED <<file, reg, gen, next_seq, acked>>,
         ~Settling, ~Settling', Running' = Running
  PROVE  ProtocolInv'
<1> DEFINE m == [i \in 1..PipeLen - 1 |-> IF i < k THEN i ELSE i + 1]
           g == Pipe[k].guard
<1>1. /\ PipeLen \in Nat /\ k \in 1..PipeLen /\ PipeLen' = PipeLen - 1 /\ k > Done
      /\ \A i \in 1..PipeLen : Pipe[i] \in Commands
      /\ \A i \in 1..PipeLen - 1 : Pipe'[i] = Pipe[m[i]]
  BY PipeFacts DEF PipeWithout, Pending
<1>2. /\ \A i \in 1..PipeLen - 1 : m[i] \in 1..PipeLen /\ m[i] # k
      /\ \A i, j \in 1..PipeLen - 1 : m[i] = m[j] => i = j
      /\ \A i \in 1..PipeLen - 1 : i > Done <=> m[i] > Done
      /\ \A i \in 1..PipeLen - 1 : i <= Done <=> m[i] <= Done
  BY <1>1
<1>3. \A j \in 1..PipeLen : j # k => \E i \in 1..PipeLen - 1 : m[i] = j
  <2> TAKE j \in 1..PipeLen
  <2>1. CASE j < k
    <3>1. j \in 1..PipeLen - 1 /\ m[j] = j
      BY <1>1, <2>1
    <3> QED BY <3>1
  <2>2. CASE j > k
    <3>1. j - 1 \in 1..PipeLen - 1 /\ m[j - 1] = j
      BY <1>1, <2>2
    <3> QED BY <3>1
  <2> QED BY <1>1, <2>1, <2>2
<1> HIDE DEF m
<1>4. \A i \in Pending' : i \in 1..PipeLen - 1 /\ m[i] \in Pending /\ Pipe'[i] = Pipe[m[i]]
  BY <1>1, <1>2 DEF Pending
<1>5. /\ drop' = g /\ g \in Nat
      /\ \A c \in Clients :
           \/ pc'[c] = pc[c] /\ call'[c] = call[c]
           \/ pc[c] = "reply" /\ pc'[c] = "idle" /\ c = Pipe[k].client
  <2>1. CASE Pipe[k].client = None
    BY <1>1, <2>1 DEF RejectReply, Commands
  <2>2. CASE Pipe[k].client # None
    <3>1. pc[Pipe[k].client] = "reply" /\ Pipe[k].client \in Clients
      BY <1>1, <2>2 DEF ProtocolInv, ReplyInv, Commands
    <3> QED BY <1>1, <2>2, <3>1 DEF RejectReply, Return, Goto, Commands, TypeInv
  <2> QED BY <2>1, <2>2
<1>6. /\ Calling' = Calling /\ Senders' = Senders /\ Deleters' = Deleters /\ Objects' = Objects
      /\ \A c \in Calling : pc'[c] = pc[c] /\ call'[c] = call[c]
      /\ \A c \in Clients : pc'[c] = "lookup" <=> pc[c] = "lookup"
      /\ \A c \in Clients : pc'[c] = "check" <=> pc[c] = "check"
      /\ \A c \in Clients : pc'[c] # "idle" => pc'[c] = pc[c] /\ call'[c] = call[c]
      /\ Senders \subseteq Calling /\ Deleters \subseteq Calling
      /\ Calling \subseteq Clients
  BY <1>5 DEF Calling, Senders, Deleters, Objects
<1>7. \A o : ~Committing(o) /\ ~Committing(o)'
  BY DEF Committing, Settling
<1>8. CallInv'
  BY <1>6 DEF ProtocolInv, CallInv
<1>9. ReplyInv'
  <2>1. \A i \in 1..PipeLen - 1 : Pipe'[i].client # None => Pipe'[i].client # Pipe[k].client
    BY <1>1, <1>2 DEF ProtocolInv, ReplyInv
  <2>2. \A i \in 1..PipeLen - 1 : Pipe'[i].client # None =>
           Pipe'[i].client \in Clients /\ pc[Pipe'[i].client] = "reply"
    BY <1>1, <1>2 DEF ProtocolInv, ReplyInv, Commands
  <2>3. \A i \in 1..PipeLen - 1 : Pipe'[i].client # None => pc'[Pipe'[i].client] = "reply"
    BY <1>5, <2>1, <2>2
  <2>4. \A i, j \in 1..PipeLen - 1 :
          Pipe'[i].client = Pipe'[j].client /\ Pipe'[i].client # None => i = j
    BY <1>1, <1>2 DEF ProtocolInv, ReplyInv
  <2> QED BY <1>1, <2>3, <2>4 DEF ReplyInv
<1>10. OwnerInv'
  BY <1>1, <1>2, <1>5, <1>6 DEF ProtocolInv, OwnerInv, Settling
<1>11. GuardInv'
  <2>1. \A i, j \in 1..PipeLen - 1 : Pipe'[i].guard = Pipe'[j].guard /\ Pipe'[i].guard # 0 => i = j
    BY <1>1, <1>2 DEF ProtocolInv, GuardInv
  <2>2. /\ \A c, d \in Senders : call'[c].arc = call'[d].arc /\ call'[c].arc # 0 => c = d
        /\ \A i \in 1..PipeLen - 1, c \in Senders :
             Pipe'[i].guard # 0 => Pipe'[i].guard # call'[c].arc
    BY <1>1, <1>2, <1>6 DEF ProtocolInv, GuardInv
  <2>3. g # 0 => /\ \A i \in 1..PipeLen - 1 : Pipe'[i].guard # g
                 /\ \A c \in Senders : call'[c].arc # g
    BY <1>1, <1>2, <1>6 DEF ProtocolInv, GuardInv
  <2>4. \A o \in Objects : reg.heap[o].del = "in_flight" =>
          \/ \E i \in 1..PipeLen - 1 : Pipe'[i].guard = o
          \/ \E c \in Senders : call'[c].arc = o
          \/ g = o
    <3> SUFFICES ASSUME NEW o \in Objects, reg.heap[o].del = "in_flight", g # o,
                        \A c \in Senders : call'[c].arc # o
                 PROVE  \E i \in 1..PipeLen - 1 : Pipe'[i].guard = o
      OBVIOUS
    <3>0. o # 0
      BY DEF Objects
    <3>1. PICK j \in 1..PipeLen : Pipe[j].guard = o
      BY <1>6, <3>0 DEF ProtocolInv, GuardInv
    <3>2. j # k
      BY <3>1
    <3> QED BY <1>1, <1>3, <3>1, <3>2
  <2>5. \A o \in Objects : reg.heap[o].del = "live" =>
          /\ \A i \in 1..PipeLen - 1 : Pipe'[i].guard # o
          /\ \A c \in Senders : call'[c].arc # o
          /\ g # o
    BY <1>1, <1>2, <1>6 DEF ProtocolInv, GuardInv
  <2>6. \A i \in 1..PipeLen - 1 : i <= Done /\ Pipe'[i].guard # 0 =>
          reg.heap[Pipe'[i].guard].del = "deleted"
    BY <1>1, <1>2, <1>7 DEF ProtocolInv, GuardInv
  <2> QED BY <1>1, <1>5, <1>6, <2>1, <2>2, <2>3, <2>4, <2>5, <2>6 DEF GuardInv
<1>12. DeleteInv'
  BY <1>4, <1>6, <1>7 DEF ProtocolInv, DeleteInv
<1>13. BirthInv'
  <2> SUFFICES ASSUME Running' PROVE BirthInv'
    BY DEF BirthInv
  <2>1. \A r \in Runs : Recorded(r)' <=> Recorded(r)
    BY DEF Recorded
  <2>2. \A i, j \in Pending' : m[i] = m[j] => i = j
    BY <1>2, <1>4
  <2> QED BY <1>4, <1>6, <2>1, <2>2 DEF ProtocolInv, BirthInv
<1> QED BY <1>8, <1>9, <1>10, <1>11, <1>12, <1>13 DEF ProtocolInv

(* An answered command had its guard committed, and its caller returns.     *)
LEMMA ReplyKeepsProtocol ==
  ASSUME TypeInv, ProtocolInv, Done \in Nat, Done >= 1, PipeWithout(1), Done' = Done - 1,
         NEW a, a.client = Pipe[1].client,
         IF a.client = None THEN UNCHANGED <<pc, call>> ELSE Return(a.client),
         \A e \in acked' : e \in acked \/ e.seq <= next_seq,
         UNCHANGED <<file, reg, gen, next_seq, drop>>,
         ~Settling, ~Settling', Running' = Running
  PROVE  ProtocolInv'
<1>1. /\ PipeLen \in Nat /\ 1 \in 1..PipeLen /\ PipeLen' = PipeLen - 1
      /\ \A i \in 1..PipeLen : Pipe[i] \in Commands
      /\ \A i \in 1..PipeLen - 1 : Pipe'[i] = Pipe[i + 1] /\ i + 1 \in 1..PipeLen
  <2>1. /\ PipeLen \in Nat /\ 1 \in 1..PipeLen /\ PipeLen' = PipeLen - 1
        /\ \A i \in 1..PipeLen : Pipe[i] \in Commands
        /\ \A i \in 1..PipeLen - 1 : Pipe'[i] = Pipe[IF i < 1 THEN i ELSE i + 1]
    BY PipeFacts DEF PipeWithout
  <2>2. \A i \in 1..PipeLen - 1 : (IF i < 1 THEN i ELSE i + 1) = i + 1 /\ i + 1 \in 1..PipeLen
    BY <2>1
  <2> QED BY <2>1, <2>2
<1>2. \A i \in Pending' : i \in 1..PipeLen - 1 /\ i + 1 \in Pending /\ Pipe'[i] = Pipe[i + 1]
  BY <1>1 DEF Pending
<1>3. \A c \in Clients :
           \/ pc'[c] = pc[c] /\ call'[c] = call[c]
           \/ pc[c] = "reply" /\ pc'[c] = "idle" /\ c = Pipe[1].client
  <2>1. CASE Pipe[1].client = None
    BY <1>1, <2>1
  <2>2. CASE Pipe[1].client # None
    <3>1. pc[Pipe[1].client] = "reply" /\ Pipe[1].client \in Clients
      BY <1>1, <2>2 DEF ProtocolInv, ReplyInv, Commands
    <3> QED BY <1>1, <2>2, <3>1 DEF Return, Goto, Commands, TypeInv
  <2> QED BY <2>1, <2>2
<1>4. /\ Calling' = Calling /\ Senders' = Senders /\ Deleters' = Deleters /\ Objects' = Objects
      /\ \A c \in Calling : pc'[c] = pc[c] /\ call'[c] = call[c]
      /\ \A c \in Clients : pc'[c] = "lookup" <=> pc[c] = "lookup"
      /\ \A c \in Clients : pc'[c] = "check" <=> pc[c] = "check"
      /\ \A c \in Clients : pc'[c] # "idle" => pc'[c] = pc[c] /\ call'[c] = call[c]
      /\ Senders \subseteq Calling /\ Deleters \subseteq Calling
      /\ Calling \subseteq Clients
  BY <1>3 DEF Calling, Senders, Deleters, Objects
<1>5. \A o : ~Committing(o) /\ ~Committing(o)'
  BY DEF Committing, Settling
<1>6. CallInv'
  BY <1>4 DEF ProtocolInv, CallInv
<1>7. ReplyInv'
  <2>1. \A i \in 1..PipeLen - 1 : Pipe'[i].client # None => Pipe'[i].client # Pipe[1].client
    BY <1>1 DEF ProtocolInv, ReplyInv
  <2>2. \A i \in 1..PipeLen - 1 : Pipe'[i].client # None =>
           Pipe'[i].client \in Clients /\ pc[Pipe'[i].client] = "reply"
    BY <1>1 DEF ProtocolInv, ReplyInv, Commands
  <2>3. \A i \in 1..PipeLen - 1 : Pipe'[i].client # None => pc'[Pipe'[i].client] = "reply"
    BY <1>3, <2>1, <2>2
  <2>4. \A i, j \in 1..PipeLen - 1 :
          Pipe'[i].client = Pipe'[j].client /\ Pipe'[i].client # None => i + 1 = j + 1
    BY <1>1 DEF ProtocolInv, ReplyInv
  <2> QED BY <1>1, <2>3, <2>4 DEF ReplyInv
<1>8. OwnerInv'
  BY <1>1, <1>4 DEF ProtocolInv, OwnerInv, Settling
<1>9. GuardInv'
  <2>1. \A i, j \in 1..PipeLen - 1 :
          Pipe'[i].guard = Pipe'[j].guard /\ Pipe'[i].guard # 0 => i + 1 = j + 1
    BY <1>1 DEF ProtocolInv, GuardInv
  <2>2. /\ \A c, d \in Senders : call'[c].arc = call'[d].arc /\ call'[c].arc # 0 => c = d
        /\ \A i \in 1..PipeLen - 1, c \in Senders :
             Pipe'[i].guard # 0 => Pipe'[i].guard # call'[c].arc
    BY <1>1, <1>4 DEF ProtocolInv, GuardInv
  <2>3. drop # 0 => /\ \A i \in 1..PipeLen - 1 : Pipe'[i].guard # drop
                    /\ \A c \in Senders : call'[c].arc # drop
    BY <1>1, <1>4 DEF ProtocolInv, GuardInv
  <2>4. \A o \in Objects : reg.heap[o].del = "in_flight" =>
          \/ \E i \in 1..PipeLen - 1 : Pipe'[i].guard = o
          \/ \E c \in Senders : call'[c].arc = o
          \/ drop = o
    <3> SUFFICES ASSUME NEW o \in Objects, reg.heap[o].del = "in_flight", drop # o,
                        \A c \in Senders : call'[c].arc # o
                 PROVE  \E i \in 1..PipeLen - 1 : Pipe'[i].guard = o
      OBVIOUS
    <3>0. o # 0
      BY DEF Objects
    <3>1. PICK j \in 1..PipeLen : Pipe[j].guard = o
      BY <1>4, <3>0 DEF ProtocolInv, GuardInv
    <3>2. j > Done
      BY <1>5, <3>0, <3>1 DEF ProtocolInv, GuardInv
    <3>3. j - 1 \in 1..PipeLen - 1 /\ (j - 1) + 1 = j
      BY <1>1, <3>2
    <3>4. Pipe'[j - 1].guard = o
      BY <1>1, <3>1, <3>3
    <3> QED BY <3>3, <3>4
  <2>5. \A o \in Objects : reg.heap[o].del = "live" =>
          /\ \A i \in 1..PipeLen - 1 : Pipe'[i].guard # o
          /\ \A c \in Senders : call'[c].arc # o
          /\ drop # o
    BY <1>1, <1>4 DEF ProtocolInv, GuardInv
  <2>6. \A i \in 1..PipeLen - 1 : i <= Done - 1 /\ Pipe'[i].guard # 0 =>
          reg.heap[Pipe'[i].guard].del = "deleted"
    <3> TAKE i \in 1..PipeLen - 1
    <3>1. i <= Done - 1 => i + 1 <= Done
      OBVIOUS
    <3> QED BY <1>1, <1>5, <3>1 DEF ProtocolInv, GuardInv
  <2> QED BY <1>1, <1>4, <2>1, <2>2, <2>3, <2>4, <2>5, <2>6 DEF GuardInv
<1>10. DeleteInv'
  BY <1>2, <1>4, <1>5 DEF ProtocolInv, DeleteInv
<1>11. BirthInv'
  <2> SUFFICES ASSUME Running' PROVE BirthInv'
    BY DEF BirthInv
  <2>1. \A r \in Runs : Recorded(r)' <=> Recorded(r)
    BY DEF Recorded
  <2>2. \A i, j \in Pending' : i + 1 = j + 1 => i = j
    BY <1>1, <1>2
  <2> QED BY <1>2, <1>4, <2>1, <2>2 DEF ProtocolInv, BirthInv
<1> QED BY <1>6, <1>7, <1>8, <1>9, <1>10, <1>11 DEF ProtocolInv

(* A caller's own step leaves the log and the pipeline alone. *)
LEMMA CallerFrame ==
  ASSUME UNCHANGED <<Wal, writer, queue, history>>
  PROVE  /\ PipeLen' = PipeLen /\ \A i \in 1..PipeLen : Pipe'[i] = Pipe[i]
         /\ Done' = Done /\ Pending' = Pending /\ (Running' <=> Running)
         /\ UNCHANGED <<file, wpc, staged, drop, next_seq, acked>>
         /\ \A r : Recorded(r)' <=> Recorded(r)
         /\ \A o : Committing(o)' <=> Committing(o)
<1>1. UNCHANGED <<file, wpc, staged, deferred, drop, next_seq, acked>>
  BY DEF Wal, writer, history
<1>2. PipeLen' = PipeLen /\ \A i \in 1..PipeLen : Pipe'[i] = Pipe[i]
  BY <1>1, PipeUnchanged DEF PipeKept
<1>3. Done' = Done
  BY <1>1 DEF Done, Publishing
<1> QED BY <1>1, <1>2, <1>3 DEF Pending, Running, Recorded, Committing, Settling

(* A new call: the id of a create is fresh, and any other call is about a   *)
(* run that was seen created and not deleted.                               *)
LEMMA StartKeepsProtocol ==
  ASSUME TypeInv, ProtocolInv, NEW c \in Clients, NEW r \in Runs,
         StartCreate(c, r) \/ StartAppend(c, r) \/ StartDelete(c, r),
         next_seq \in 0..Len(file)
  PROVE  ProtocolInv'
<1>1. UNCHANGED <<Wal, writer, queue, reg, history>> /\ Running /\ pc[c] = "idle"
  BY DEF StartCreate, StartAppend, StartDelete, Start
<1>2. PICK kind \in Kinds, l \in ClientPCs :
        /\ pc' = [pc EXCEPT ![c] = l]
        /\ call' = [call EXCEPT ![c] = [run |-> r, kind |-> kind, arc |-> 0]]
        /\ \/ /\ kind = "run_created" /\ l = "send"
              /\ gen[r] = "unused" /\ gen' = [gen EXCEPT ![r] = "used"]
           \/ kind = "marker_emitted" /\ l \in {"check", "send"} /\ Visible(reg, r) /\ gen' = gen
           \/ kind = "run_deleted" /\ l = "lookup" /\ Visible(reg, r) /\ gen' = gen
  <2>1. CASE StartCreate(c, r)
    BY <2>1 DEF StartCreate, Start, Goto, Kinds, ClientPCs
  <2>2. CASE StartAppend(c, r)
    BY <2>2 DEF StartAppend, Start, Goto, Kinds, ClientPCs
  <2>3. CASE StartDelete(c, r)
    BY <2>3 DEF StartDelete, Start, Goto, Kinds, ClientPCs
  <2> QED BY <2>1, <2>2, <2>3
<1>3. Visible(reg, r) => reg.runs[r] # 0
  BY DEF Visible, Summary, Present, DefaultSummary
<1>4. /\ pc'[c] = l /\ call'[c].run = r /\ call'[c].kind = kind /\ call'[c].arc = 0
      /\ \A d \in Clients : d # c => pc'[d] = pc[d] /\ call'[d] = call[d]
      /\ \A s \in Runs : gen'[s] = gen[s] \/ (s = r /\ gen[r] = "unused" /\ gen'[r] = "used")
  BY <1>2 DEF TypeInv
<1>5. /\ Calling' = Calling \cup {c} /\ Senders' = Senders \cup {d \in {c} : l = "send"}
      /\ Deleters' = Deleters /\ Objects' = Objects /\ c \notin Calling
      /\ Senders \subseteq Calling /\ Deleters \subseteq Calling /\ Calling \subseteq Clients
  BY <1>1, <1>2, <1>4 DEF Calling, Senders, Deleters, Objects
<1>6. /\ PipeLen' = PipeLen /\ \A i \in 1..PipeLen : Pipe'[i] = Pipe[i]
      /\ Done' = Done /\ Pending' = Pending /\ (Running' <=> Running)
      /\ UNCHANGED <<file, wpc, staged, drop, next_seq, acked>>
      /\ \A s : Recorded(s)' <=> Recorded(s)
      /\ \A o : Committing(o)' <=> Committing(o)
  BY <1>1, CallerFrame
<1>7. CallInv'
  BY <1>2, <1>4, <1>5 DEF ProtocolInv, CallInv
<1>8. ReplyInv'
  <2>1. \A i \in 1..PipeLen : Pipe[i].client # None => Pipe[i].client \in Clients
    BY PipeFacts DEF Commands
  <2> QED BY <1>1, <1>4, <1>6, <2>1 DEF ProtocolInv, ReplyInv
<1>9. OwnerInv'
  BY <1>1, <1>4, <1>5, <1>6 DEF ProtocolInv, OwnerInv, Settling
<1>10. GuardInv'
  <2>1. \A o \in Objects : o # 0
    BY DEF Objects
  <2> QED BY <1>1, <1>4, <1>5, <1>6, <2>1 DEF ProtocolInv, GuardInv
<1>11. DeleteInv'
  <2>1. \A i \in Pending' : Pipe'[i].kind = "run_deleted" /\ Pipe'[i].run \notin reg.forgotten =>
          /\ Pipe'[i].guard # 0 /\ Pipe'[i].guard = reg.runs[Pipe'[i].run]
          /\ reg.heap[Pipe'[i].guard].del = "in_flight"
    BY <1>6 DEF ProtocolInv, DeleteInv, Pending
  <2>2. \A d \in Senders' : call'[d].kind = "run_deleted" => d \in Senders /\ call'[d] = call[d]
    BY <1>2, <1>4, <1>5
  <2>3. \A d \in Clients : pc'[d] = "lookup" =>
          \/ pc[d] = "lookup" /\ call'[d] = call[d]
          \/ reg.runs[call'[d].run] # 0
    BY <1>2, <1>3, <1>4
  <2>4. \A d \in Deleters' : d \in Deleters /\ call'[d] = call[d]
    BY <1>4, <1>5
  <2> QED BY <1>1, <1>6, <2>1, <2>2, <2>3, <2>4 DEF ProtocolInv, DeleteInv
<1>12. BirthInv'
  <2>1. Running /\ Running'
    BY <1>1, <1>6
  <2>2. CASE kind # "run_created"
    <3>1. Recorded(r) /\ gen' = gen
      BY <1>1, <1>2, <1>3, <2>1, <2>2 DEF ProtocolInv, BirthInv
    <3>2. gen[r] # "unused"
      <4>1. PICK i \in 1..next_seq : file[i].run = r
        BY <3>1 DEF Recorded
      <4>2. i \in 1..Len(file)
        BY <4>1
      <4> QED BY <2>1, <4>1, <4>2 DEF ProtocolInv, BirthInv
    <3> QED BY <1>1, <1>4, <1>5, <1>6, <2>1, <2>2, <3>1, <3>2 DEF ProtocolInv, BirthInv, Pending
  <2>3. CASE kind = "run_created"
    <3>1. /\ gen[r] = "unused" /\ gen'[r] = "used"
          /\ \A s \in Runs : s # r => gen'[s] = gen[s]
      BY <1>2, <2>3 DEF TypeInv
    <3>2. /\ \A i \in 1..Len(file) : file[i].run # r
          /\ \A i \in Pending : Pipe[i].run # r
          /\ \A d \in Calling : call[d].run # r
      BY <2>1, <3>1 DEF ProtocolInv, BirthInv
    <3>3. ~Recorded(r)
      BY <3>2 DEF Recorded
    <3> QED BY <1>1, <1>4, <1>5, <1>6, <2>1, <2>3, <3>1, <3>2, <3>3 DEF ProtocolInv, BirthInv, Pending
  <2> QED BY <2>2, <2>3
<1> QED BY <1>7, <1>8, <1>9, <1>10, <1>11, <1>12 DEF ProtocolInv

(* What waiting and waking change of the registry: nothing the protocol is  *)
(* about.                                                                   *)
SameClaims ==
  /\ reg'.runs = reg.runs /\ reg'.forgotten = reg.forgotten
  /\ Len(reg'.heap) = Len(reg.heap)
  /\ \A o \in Objects : /\ reg'.heap[o].del = reg.heap[o].del
                        /\ reg'.heap[o].created = reg.heap[o].created

Moves == {<<"check", "idle">>, <<"check", "send">>, <<"claim", "idle">>, <<"claim", "arm">>,
          <<"arm", "test">>, <<"test", "sleep">>, <<"test", "lookup">>, <<"sleep", "arm">>}

(* A caller that checks, waits, wakes or gives up. *)
LEMMA MoveKeepsProtocol ==
  ASSUME TypeInv, ProtocolInv, NEW c \in Clients, NEW l \in ClientPCs, <<pc[c], l>> \in Moves,
         pc' = [pc EXCEPT ![c] = l],
         \A d \in Clients : d # c => call'[d] = call[d],
         l # "idle" => call'[c] = call[c],
         SameClaims, gen' = gen, UNCHANGED <<Wal, writer, queue, history>>
  PROVE  ProtocolInv'
<1>1. /\ pc'[c] = l /\ \A d \in Clients : d # c => pc'[d] = pc[d]
      /\ pc[c] \notin {"idle", "reply", "send", "lookup"} /\ l \notin {"reply", "claim", "check"}
  BY DEF TypeInv, Moves
<1>2. /\ Objects' = Objects /\ Senders \subseteq Calling /\ Deleters \subseteq Calling
      /\ Calling \subseteq Clients /\ c \in Calling /\ c \notin Senders
      /\ Calling' = IF l = "idle" THEN Calling \ {c} ELSE Calling
      /\ Senders' = Senders \cup {d \in {c} : l = "send"}
      /\ \A d \in Deleters' : d \in Deleters /\ call'[d] = call[d]
      /\ \A d \in Calling' : call'[d] = call[d]
  BY <1>1 DEF Calling, Senders, Deleters, Objects, SameClaims, Moves
<1>3. /\ PipeLen' = PipeLen /\ \A i \in 1..PipeLen : Pipe'[i] = Pipe[i]
      /\ Done' = Done /\ Pending' = Pending /\ (Running' <=> Running)
      /\ UNCHANGED <<file, wpc, staged, drop, next_seq, acked>>
      /\ \A s : Recorded(s)' <=> Recorded(s)
      /\ \A o : Committing(o)' <=> Committing(o)
  BY CallerFrame
<1>4. l = "send" => call[c].kind # "run_deleted" /\ call[c].arc = 0
  BY <1>2 DEF Moves, ProtocolInv, CallInv
<1>5. CallInv'
  <2>1. l = "lookup" => call[c].kind = "run_deleted"
    BY <1>2 DEF Moves, ProtocolInv, CallInv, Deleters
  <2>2. \A d \in Clients : pc'[d] # "idle" => call'[d] = call[d] /\ pc[d] # "idle"
    BY <1>1
  <2> QED BY <1>1, <1>2, <2>1, <2>2 DEF ProtocolInv, CallInv
<1>6. ReplyInv'
  <2>1. \A i \in 1..PipeLen : Pipe[i].client # None =>
          Pipe[i].client \in Clients /\ Pipe[i].client # c
    BY <1>1, PipeFacts DEF Commands, ProtocolInv, ReplyInv
  <2> QED BY <1>1, <1>3, <2>1 DEF ProtocolInv, ReplyInv
<1>7. OwnerInv'
  BY <1>2, <1>3 DEF ProtocolInv, OwnerInv, SameClaims, Settling
<1>8. GuardInv'
  <2>1. \A o \in Objects : o # 0
    BY DEF Objects
  <2>2. \A i \in 1..PipeLen : Pipe[i].guard # 0 => Pipe[i].guard \in Objects
    BY PipeFacts DEF ProtocolInv, OwnerInv, Objects, Commands
  <2>3. \A d \in Senders' : /\ call'[d] = call[d]
                            /\ call'[d].arc # 0 => d \in Senders
    BY <1>2, <1>4
  <2>4. \A d \in Senders : d \in Senders' /\ call'[d] = call[d]
    BY <1>2, <2>3
  <2>5. /\ \A d, e \in Senders' : call'[d].arc = call'[e].arc /\ call'[d].arc # 0 => d = e
        /\ \A i \in 1..PipeLen, d \in Senders' : Pipe[i].guard # 0 => Pipe[i].guard # call'[d].arc
        /\ drop # 0 => \A d \in Senders' : call'[d].arc # drop
    BY <2>3 DEF ProtocolInv, GuardInv
  <2>6. \A o \in Objects : reg'.heap[o].del = "in_flight" =>
          \/ \E i \in 1..PipeLen : Pipe[i].guard = o
          \/ \E d \in Senders' : call'[d].arc = o
          \/ drop = o
    BY <2>4 DEF ProtocolInv, GuardInv, SameClaims
  <2>7. \A o \in Objects : reg'.heap[o].del = "live" =>
          /\ \A i \in 1..PipeLen : Pipe[i].guard # o
          /\ \A d \in Senders' : call'[d].arc # o
          /\ drop # o
    BY <2>1, <2>3 DEF ProtocolInv, GuardInv, SameClaims
  <2>8. \A i \in 1..PipeLen : i <= Done /\ Pipe[i].guard # 0 =>
          reg'.heap[Pipe[i].guard].del = "deleted" \/ Committing(Pipe[i].guard)
    BY <2>2 DEF ProtocolInv, GuardInv, SameClaims
  <2>9. /\ \A i, j \in 1..PipeLen : Pipe[i].guard = Pipe[j].guard /\ Pipe[i].guard # 0 => i = j
        /\ drop # 0 => \A i \in 1..PipeLen : Pipe[i].guard # drop
    BY DEF ProtocolInv, GuardInv
  <2> QED BY <1>2, <1>3, <2>5, <2>6, <2>7, <2>8, <2>9 DEF GuardInv
<1>9. DeleteInv'
  <2>1. \A i \in Pending : Pipe[i].guard # 0 => Pipe[i].guard \in Objects
    BY PipeFacts DEF ProtocolInv, OwnerInv, Objects, Commands, Pending
  <2>2. \A d \in Calling : call[d].arc # 0 => call[d].arc \in Objects
    BY <1>2 DEF TypeInv, ProtocolInv, OwnerInv, Objects
  <2>3. \A d \in Senders' : call'[d].kind = "run_deleted" => d \in Senders /\ call'[d] = call[d]
    BY <1>2, <1>4
  <2>4. \A d \in Clients : pc'[d] = "lookup" =>
          /\ call'[d] = call[d]
          /\ pc[d] = "lookup" \/ d \in Deleters
    BY <1>1, <1>2 DEF Moves, Deleters
  <2>5. \A d \in Deleters : call[d].arc # 0
    BY DEF ProtocolInv, CallInv
  <2>6. \A i \in Pending' : i \in Pending /\ Pipe'[i] = Pipe[i]
    BY <1>3 DEF Pending
  <2>7. \A i \in Pending' : Pipe'[i].kind = "run_deleted" /\ Pipe'[i].run \notin reg'.forgotten =>
          /\ Pipe'[i].guard # 0 /\ Pipe'[i].guard = reg'.runs[Pipe'[i].run]
          /\ reg'.heap[Pipe'[i].guard].del = "in_flight"
    BY <2>1, <2>6 DEF ProtocolInv, DeleteInv, SameClaims
  <2>8. \A d \in Senders' : call'[d].kind = "run_deleted" /\ call'[d].run \notin reg'.forgotten =>
          /\ call'[d].arc # 0 /\ call'[d].arc = reg'.runs[call'[d].run]
          /\ reg'.heap[call'[d].arc].del = "in_flight"
    BY <1>2, <2>2, <2>3 DEF ProtocolInv, DeleteInv, SameClaims
  <2>9. \A d \in Clients : pc'[d] = "lookup" /\ call'[d].run \notin reg'.forgotten =>
          reg'.runs[call'[d].run] # 0
    BY <2>4 DEF ProtocolInv, DeleteInv, SameClaims
  <2>10. \A d \in Deleters' : call'[d].run \notin reg'.forgotten =>
           /\ reg'.runs[call'[d].run] # 0
           /\ \/ call'[d].arc = reg'.runs[call'[d].run]
              \/ reg'.heap[call'[d].arc].del = "deleted"
              \/ Committing(call'[d].arc)
    BY <1>2, <2>2, <2>5 DEF ProtocolInv, DeleteInv, SameClaims
  <2> QED BY <1>3, <2>7, <2>8, <2>9, <2>10 DEF DeleteInv
<1>10. BirthInv'
  BY <1>2, <1>3 DEF ProtocolInv, BirthInv, SameClaims, Pending
<1> QED BY <1>5, <1>6, <1>7, <1>8, <1>9, <1>10 DEF ProtocolInv

(* A deleter takes the current RunState of its run, or finds none.          *)
LEMMA LookupKeepsProtocol ==
  ASSUME TypeInv, ProtocolInv, NEW c \in Clients, Lookup(c)
  PROVE  ProtocolInv'
<1> DEFINE r == call[c].run
           arc == reg.runs[r]
           l == IF arc = 0 THEN "send" ELSE "claim"
<1>1. /\ pc[c] = "lookup" /\ UNCHANGED <<Wal, writer, queue, reg, gen, history>>
      /\ pc' = [pc EXCEPT ![c] = l] /\ call' = [call EXCEPT ![c].arc = arc]
  BY DEF Lookup, Goto
<1>2. r \in Runs /\ arc \in Nat /\ call[c].kind = "run_deleted"
  BY <1>1 DEF ProtocolInv, CallInv, TypeInv, IsRegistry
<1>3. /\ pc'[c] = l /\ call'[c].run = r /\ call'[c].kind = "run_deleted" /\ call'[c].arc = arc
      /\ \A d \in Clients : d # c => pc'[d] = pc[d] /\ call'[d] = call[d]
  BY <1>1, <1>2 DEF TypeInv
<1>4. /\ PipeLen' = PipeLen /\ \A i \in 1..PipeLen : Pipe'[i] = Pipe[i]
      /\ Done' = Done /\ Pending' = Pending /\ (Running' <=> Running)
      /\ UNCHANGED <<file, wpc, staged, drop, next_seq, acked>>
      /\ \A s : Recorded(s)' <=> Recorded(s)
      /\ \A o : Committing(o)' <=> Committing(o)
  BY <1>1, CallerFrame
<1>5. /\ Objects' = Objects /\ Calling' = Calling /\ c \in Calling /\ c \notin Senders
      /\ Senders' = Senders \cup {d \in {c} : arc = 0}
      /\ Deleters' = Deleters \cup {d \in {c} : arc # 0}
      /\ c \notin Deleters
      /\ Senders \subseteq Calling /\ Deleters \subseteq Calling /\ Calling \subseteq Clients
  BY <1>1, <1>3 DEF Calling, Senders, Deleters, Objects
<1> HIDE DEF l, r, arc
<1>6. l \in {"send", "claim"} /\ arc = reg.runs[r]
  BY DEF l, arc
<1>7. CallInv'
  BY <1>2, <1>3, <1>5, <1>6 DEF ProtocolInv, CallInv
<1>8. ReplyInv'
  <2>1. \A i \in 1..PipeLen : Pipe[i].client # None =>
          Pipe[i].client \in Clients /\ Pipe[i].client # c
    BY <1>1, PipeFacts DEF Commands, ProtocolInv, ReplyInv
  <2> QED BY <1>3, <1>4, <2>1 DEF ProtocolInv, ReplyInv
<1>9. OwnerInv'
  <2>1. \A s \in Runs : s # r /\ arc # 0 => reg.runs[s] # arc
    BY <1>2, <1>6 DEF ProtocolInv, OwnerInv
  <2>2. arc <= Len(reg.heap)
    BY <1>2, <1>6 DEF ProtocolInv, OwnerInv
  <2>3. \A d \in Calling' : call'[d].arc # 0 =>
          /\ call'[d].arc <= Len(reg.heap)
          /\ \A s \in Runs : s # call'[d].run => reg.runs[s] # call'[d].arc
    <3> TAKE d \in Calling'
    <3>1. CASE d = c
      BY <1>3, <2>1, <2>2, <3>1
    <3>2. CASE d # c
      BY <1>3, <1>5, <3>2 DEF ProtocolInv, OwnerInv
    <3> QED BY <3>1, <3>2
  <2> QED BY <1>1, <1>4, <2>3 DEF ProtocolInv, OwnerInv, Settling
<1>10. GuardInv'
  <2>1. \A o \in Objects : o # 0
    BY DEF Objects
  <2>2. \A d \in Senders' : call'[d].arc # 0 => d \in Senders /\ call'[d] = call[d]
    BY <1>3, <1>5
  <2>3. \A d \in Senders : d \in Senders' /\ call'[d] = call[d]
    BY <1>3, <1>5
  <2> QED BY <1>1, <1>4, <1>5, <2>1, <2>2, <2>3 DEF ProtocolInv, GuardInv
<1>11. DeleteInv'
  <2>1. arc = 0 => r \in reg.forgotten
    BY <1>1, <1>6 DEF r, ProtocolInv, DeleteInv
  <2>2. \A i \in Pending' : i \in Pending /\ Pipe'[i] = Pipe[i]
    BY <1>4 DEF Pending
  <2>3. \A d \in Senders' : \/ d \in Senders /\ call'[d] = call[d]
                            \/ call'[d].run \in reg.forgotten
    BY <1>3, <1>5, <2>1
  <2>4. \A d \in Deleters' : \/ d \in Deleters /\ call'[d] = call[d]
                             \/ call'[d].arc = reg.runs[call'[d].run] /\ call'[d].arc # 0
    BY <1>3, <1>5, <1>6
  <2>5. \A d \in Clients : pc'[d] = "lookup" => pc[d] = "lookup" /\ call'[d] = call[d]
    BY <1>3, <1>6
  <2>6. \A i \in Pending' : Pipe'[i].kind = "run_deleted" /\ Pipe'[i].run \notin reg.forgotten =>
          /\ Pipe'[i].guard # 0 /\ Pipe'[i].guard = reg.runs[Pipe'[i].run]
          /\ reg.heap[Pipe'[i].guard].del = "in_flight"
    BY <2>2 DEF ProtocolInv, DeleteInv
  <2>7. \A d \in Senders' : call'[d].kind = "run_deleted" /\ call'[d].run \notin reg.forgotten =>
          /\ call'[d].arc # 0 /\ call'[d].arc = reg.runs[call'[d].run]
          /\ reg.heap[call'[d].arc].del = "in_flight"
    BY <2>3 DEF ProtocolInv, DeleteInv
  <2>8. \A d \in Clients : pc'[d] = "lookup" /\ call'[d].run \notin reg.forgotten =>
          reg.runs[call'[d].run] # 0
    BY <2>5 DEF ProtocolInv, DeleteInv
  <2>9. \A d \in Deleters' : call'[d].run \notin reg.forgotten =>
          /\ reg.runs[call'[d].run] # 0
          /\ \/ call'[d].arc = reg.runs[call'[d].run]
             \/ reg.heap[call'[d].arc].del = "deleted"
             \/ Settling /\ staged[Len(staged)].guard = call'[d].arc
    BY <2>4 DEF ProtocolInv, DeleteInv, Committing, Settling
  <2> QED BY <1>1, <1>4, <2>6, <2>7, <2>8, <2>9 DEF DeleteInv, Committing, Settling
<1>12. BirthInv'
  <2>1. \A d \in Calling : call'[d].run = call[d].run /\ call'[d].kind = call[d].kind
    BY <1>2, <1>3, <1>5 DEF r
  <2> QED BY <1>1, <1>4, <1>5, <2>1 DEF ProtocolInv, BirthInv, Pending
<1> QED BY <1>7, <1>8, <1>9, <1>10, <1>11, <1>12 DEF ProtocolInv

(* A guard that is being committed is the last of its batch. *)
LEMMA CommittingIsStaged ==
  ASSUME IInv, TypeInv, Settling
  PROVE  Len(staged) \in 1..PipeLen /\ Pipe[Len(staged)].guard = staged[Len(staged)].guard
<1>1. Len(staged) >= 1
  BY SeqFacts DEF IInv, FileInv, WriterInv, Publishing, Settling
<1>2. Len(staged) \in 1..PipeLen
  BY <1>1, PipeFacts
<1>3. Pipe[Len(staged)] = Entry(staged[Len(staged)])
  BY <1>1, <1>2, PipeFacts
<1> QED BY <1>2, <1>3 DEF Entry

(* The effect of setting delete_state of one RunState. *)
DeleteSet(o, d) ==
  /\ o \in Objects /\ IsRegistry(reg') /\ reg'.runs = reg.runs /\ reg'.forgotten = reg.forgotten
  /\ Len(reg'.heap) = Len(reg.heap) /\ Objects' = Objects
  /\ \A i \in Objects : /\ reg'.heap[i].created = reg.heap[i].created
                        /\ reg'.heap[i].del = IF i = o THEN d ELSE reg.heap[i].del

(* The winner of the compare_exchange goes on to send the claimed delete.   *)
LEMMA ClaimKeepsProtocol ==
  ASSUME IInv, TypeInv, ProtocolInv, NEW c \in Clients, pc[c] = "claim",
         NEW o, o = call[c].arc, DeleteSet(o, "in_flight"), reg.heap[o].del = "live",
         pc' = [pc EXCEPT ![c] = "send"], UNCHANGED <<Wal, writer, queue, call, gen, history>>
  PROVE  ProtocolInv'
<1>1. /\ pc'[c] = "send" /\ \A d \in Clients : d # c => pc'[d] = pc[d]
      /\ o # 0 /\ call' = call
  BY DEF TypeInv, DeleteSet, Objects
<1>2. /\ PipeLen' = PipeLen /\ \A i \in 1..PipeLen : Pipe'[i] = Pipe[i]
      /\ Done' = Done /\ Pending' = Pending /\ (Running' <=> Running)
      /\ UNCHANGED <<file, wpc, staged, drop, next_seq, acked>>
      /\ \A s : Recorded(s)' <=> Recorded(s)
  BY CallerFrame
<1>3. /\ Calling' = Calling /\ c \in Calling /\ c \notin Senders /\ c \in Deleters
      /\ Senders' = Senders \cup {c} /\ Deleters' = Deleters \ {c}
      /\ Senders \subseteq Calling /\ Deleters \subseteq Calling /\ Calling \subseteq Clients
  BY <1>1 DEF Calling, Senders, Deleters
<1>4. call[c].kind = "run_deleted" /\ call[c].run \in Runs
  BY <1>3 DEF ProtocolInv, CallInv
<1>5. /\ \A i \in 1..PipeLen : Pipe[i].guard # o
      /\ \A d \in Senders : call[d].arc # o
      /\ drop # o
  BY DEF ProtocolInv, GuardInv, DeleteSet
<1>6. ~Committing(o)
  BY <1>5, CommittingIsStaged DEF Committing, Settling
<1>7. call[c].run \notin reg.forgotten => o = reg.runs[call[c].run]
  BY <1>3, <1>6 DEF ProtocolInv, DeleteInv
<1>8. CallInv'
  BY <1>1, <1>3, <1>4 DEF ProtocolInv, CallInv
<1>9. ReplyInv'
  <2>1. \A i \in 1..PipeLen : Pipe[i].client # None =>
          Pipe[i].client \in Clients /\ Pipe[i].client # c
    BY <1>1, PipeFacts DEF Commands, ProtocolInv, ReplyInv
  <2> QED BY <1>1, <1>2, <2>1 DEF ProtocolInv, ReplyInv
<1>10. OwnerInv'
  BY <1>1, <1>2, <1>3 DEF ProtocolInv, OwnerInv, DeleteSet, Settling
<1>11. \A i \in 1..PipeLen : Pipe[i].guard # 0 => Pipe[i].guard \in Objects
  BY PipeFacts DEF ProtocolInv, OwnerInv, Objects, Commands
<1>12. \A d \in Calling : call[d].arc # 0 => call[d].arc \in Objects
  BY <1>3 DEF TypeInv, ProtocolInv, OwnerInv, Objects
<1>13. GuardInv'
  <2>1. \A d, e \in Senders' : call[d].arc = call[e].arc /\ call[d].arc # 0 => d = e
    BY <1>3, <1>5 DEF ProtocolInv, GuardInv
  <2>2. \A i \in 1..PipeLen, d \in Senders' : Pipe[i].guard # 0 => Pipe[i].guard # call[d].arc
    BY <1>3, <1>5 DEF ProtocolInv, GuardInv
  <2>3. drop # 0 => \A d \in Senders' : call[d].arc # drop
    BY <1>3, <1>5 DEF ProtocolInv, GuardInv
  <2>4. \A x \in Objects : reg'.heap[x].del = "in_flight" =>
          \/ \E i \in 1..PipeLen : Pipe[i].guard = x
          \/ \E d \in Senders' : call[d].arc = x
          \/ drop = x
    BY <1>3 DEF ProtocolInv, GuardInv, DeleteSet
  <2>5. \A x \in Objects : reg'.heap[x].del = "live" => x # o /\ reg.heap[x].del = "live"
    BY DEF DeleteSet
  <2>6. \A x \in Objects : reg'.heap[x].del = "live" =>
          /\ \A i \in 1..PipeLen : Pipe[i].guard # x
          /\ \A d \in Senders' : call[d].arc # x
          /\ drop # x
    BY <1>3, <2>5 DEF ProtocolInv, GuardInv
  <2>7. \A i \in 1..PipeLen : i <= Done /\ Pipe[i].guard # 0 =>
          reg'.heap[Pipe[i].guard].del = "deleted" \/ Committing(Pipe[i].guard)
    BY <1>5, <1>11 DEF ProtocolInv, GuardInv, DeleteSet
  <2>8. Objects' = Objects /\ \A x : Committing(x)' <=> Committing(x)
    BY <1>2 DEF DeleteSet, Committing, Settling
  <2>9. \A i, j \in 1..PipeLen : Pipe[i].guard = Pipe[j].guard /\ Pipe[i].guard # 0 => i = j
    BY DEF ProtocolInv, GuardInv
  <2>10. drop # 0 => \A i \in 1..PipeLen : Pipe[i].guard # drop
    BY DEF ProtocolInv, GuardInv
  <2> QED BY <1>1, <1>2, <2>1, <2>2, <2>3, <2>4, <2>6, <2>7, <2>8, <2>9, <2>10 DEF GuardInv
<1>14. DeleteInv'
  <2>1. \A i \in Pending : Pipe[i].kind = "run_deleted" /\ Pipe[i].run \notin reg.forgotten =>
          /\ Pipe[i].guard # 0 /\ Pipe[i].guard = reg.runs[Pipe[i].run]
          /\ reg'.heap[Pipe[i].guard].del = "in_flight"
    BY <1>5, <1>11 DEF ProtocolInv, DeleteInv, DeleteSet, Pending
  <2>2. \A d \in Senders' : call[d].kind = "run_deleted" /\ call[d].run \notin reg.forgotten =>
          /\ call[d].arc # 0 /\ call[d].arc = reg.runs[call[d].run]
          /\ reg'.heap[call[d].arc].del = "in_flight"
    BY <1>1, <1>3, <1>5, <1>7, <1>12 DEF ProtocolInv, DeleteInv, DeleteSet
  <2>3. \A d \in Clients : pc'[d] = "lookup" /\ call[d].run \notin reg.forgotten =>
          reg.runs[call[d].run] # 0
    BY <1>1 DEF ProtocolInv, DeleteInv
  <2>4. \A d \in Deleters' : call[d].run \notin reg.forgotten =>
          /\ reg.runs[call[d].run] # 0
          /\ \/ call[d].arc = reg.runs[call[d].run]
             \/ reg'.heap[call[d].arc].del = "deleted"
             \/ Settling /\ staged[Len(staged)].guard = call[d].arc
    <3> TAKE d \in Deleters'
    <3>1. d \in Deleters /\ call[d].arc \in Objects
      BY <1>3, <1>12 DEF ProtocolInv, CallInv
    <3>2. reg.heap[call[d].arc].del = "deleted" => reg'.heap[call[d].arc].del = "deleted"
      BY <3>1 DEF DeleteSet
    <3> QED BY <3>1, <3>2 DEF ProtocolInv, DeleteInv, Committing, Settling
  <2> QED BY <1>1, <1>2, <2>1, <2>2, <2>3, <2>4 DEF DeleteInv, DeleteSet, Committing, Settling, Pending
<1>15. BirthInv'
  BY <1>1, <1>2, <1>3 DEF ProtocolInv, BirthInv, DeleteSet, Pending
<1> QED BY <1>8, <1>9, <1>10, <1>13, <1>14, <1>15 DEF ProtocolInv

(* A sent command joins the pipeline with its caller's guard, a worker's    *)
(* with none.                                                               *)
LEMMA SendKeepsProtocol ==
  ASSUME TypeInv, ProtocolInv, NEW c \in Clients, Send(c), Done \in 0..PipeLen
  PROVE  ProtocolInv'
<1> DEFINE cmd == [run |-> call[c].run, kind |-> call[c].kind, client |-> c,
                   guard |-> call[c].arc]
           new == PipeLen + 1
<1>1. /\ pc[c] = "send" /\ pc' = [pc EXCEPT ![c] = "reply"] /\ queue' = Append(queue, cmd)
      /\ UNCHANGED <<Wal, writer, reg, gen, call, history>>
  BY DEF Send, Goto
<1>2. UNCHANGED <<file, wpc, staged, deferred, drop, next_seq, acked>> /\ call' = call /\ reg' = reg
      /\ gen' = gen
  BY <1>1 DEF Wal, writer, history
<1> HIDE DEF cmd
<1>3. PipeWith(cmd)
  BY <1>1, <1>2, PipeSend
<1>4. /\ cmd.run = call[c].run /\ cmd.kind = call[c].kind /\ cmd.client = c
      /\ cmd.guard = call[c].arc /\ c # None
  BY NoneAssumption DEF cmd
<1>5. /\ PipeLen \in Nat /\ PipeLen' = new /\ Pipe'[new] = cmd
      /\ \A i \in 1..PipeLen : Pipe'[i] = Pipe[i] /\ i \in 1..new /\ i # new
      /\ \A i \in 1..new : i \in 1..PipeLen \/ i = new
      /\ Done' = Done /\ new \in 1..new /\ ~(new <= Done)
      /\ Pending' = Pending \cup {new} /\ Pending \subseteq 1..PipeLen
  <2>1. Done' = Done
    BY <1>2 DEF Done, Publishing
  <2>2. /\ PipeLen \in Nat /\ PipeLen' = new /\ Pipe'[new] = cmd
        /\ \A i \in 1..PipeLen : Pipe'[i] = Pipe[i]
    BY <1>3, PipeFacts DEF PipeWith
  <2>3. Pending' = {i \in 1..new : i > Done}
    BY <2>1, <2>2 DEF Pending
  <2>4. Pending' = Pending \cup {new} /\ Pending \subseteq 1..PipeLen
    BY <2>2, <2>3 DEF Pending
  <2>5. \A i \in 1..PipeLen : Pipe'[i] = Pipe[i] /\ i \in 1..new /\ i # new
    BY <2>2
  <2>6. /\ \A i \in 1..new : i \in 1..PipeLen \/ i = new
        /\ new \in 1..new /\ ~(new <= Done)
    BY <2>2
  <2> QED BY <2>1, <2>2, <2>4, <2>5, <2>6
<1> HIDE DEF new
<1>6. /\ pc'[c] = "reply" /\ \A d \in Clients : d # c => pc'[d] = pc[d]
  BY <1>1 DEF TypeInv
<1>7. /\ Calling' = Calling \ {c} /\ c \in Calling /\ c \in Senders /\ Objects' = Objects
      /\ Senders' = Senders \ {c} /\ Deleters' = Deleters
      /\ Senders \subseteq Calling /\ Deleters \subseteq Calling /\ Calling \subseteq Clients
  BY <1>1, <1>2, <1>6 DEF Calling, Senders, Deleters, Objects
<1>8. CallInv'
  BY <1>1, <1>2, <1>6, <1>7 DEF ProtocolInv, CallInv
<1>9. ReplyInv'
  <2>1. \A i \in 1..PipeLen : Pipe[i].client # None =>
          Pipe[i].client \in Clients /\ Pipe[i].client # c
    BY <1>1, PipeFacts DEF Commands, ProtocolInv, ReplyInv
  <2> QED BY <1>4, <1>5, <1>6, <2>1 DEF ProtocolInv, ReplyInv
<1>10. OwnerInv'
  <2>1. cmd.guard # 0 =>
        /\ cmd.kind = "run_deleted"
        /\ cmd.guard <= Len(reg.heap)
        /\ \A s \in Runs : s # cmd.run => reg.runs[s] # cmd.guard
    BY <1>4, <1>7 DEF ProtocolInv, OwnerInv, CallInv
  <2> QED BY <1>2, <1>5, <1>7, <2>1 DEF ProtocolInv, OwnerInv, Settling
<1>11. GuardInv'
  <2>1. \A i, j \in 1..new : Pipe'[i].guard = Pipe'[j].guard /\ Pipe'[i].guard # 0 => i = j
    BY <1>4, <1>5, <1>7 DEF ProtocolInv, GuardInv
  <2>2. \A i \in 1..new, d \in Senders' : Pipe'[i].guard # 0 => Pipe'[i].guard # call[d].arc
    BY <1>4, <1>5, <1>7 DEF ProtocolInv, GuardInv
  <2>3. drop # 0 => /\ \A i \in 1..new : Pipe'[i].guard # drop
                    /\ \A d \in Senders' : call[d].arc # drop
    BY <1>4, <1>5, <1>7 DEF ProtocolInv, GuardInv
  <2>4. \A o \in Objects : reg.heap[o].del = "in_flight" =>
          \/ \E i \in 1..new : Pipe'[i].guard = o
          \/ \E d \in Senders' : call[d].arc = o
          \/ drop = o
    BY <1>4, <1>5, <1>7 DEF ProtocolInv, GuardInv
  <2>5. \A o \in Objects : reg.heap[o].del = "live" =>
          /\ \A i \in 1..new : Pipe'[i].guard # o
          /\ \A d \in Senders' : call[d].arc # o
          /\ drop # o
    BY <1>4, <1>5, <1>7 DEF ProtocolInv, GuardInv
  <2>6. \A i \in 1..new : i <= Done /\ Pipe'[i].guard # 0 =>
          reg.heap[Pipe'[i].guard].del = "deleted" \/ Committing(Pipe'[i].guard)
    BY <1>5 DEF ProtocolInv, GuardInv
  <2>7. \A d, e \in Senders' : call[d].arc = call[e].arc /\ call[d].arc # 0 => d = e
    BY <1>7 DEF ProtocolInv, GuardInv
  <2> QED BY <1>2, <1>5, <1>7, <2>1, <2>2, <2>3, <2>4, <2>5, <2>6, <2>7 DEF GuardInv, Committing, Settling
<1>12. DeleteInv'
  <2>1. \A i \in Pending' : Pipe'[i].kind = "run_deleted" /\ Pipe'[i].run \notin reg.forgotten =>
          /\ Pipe'[i].guard # 0 /\ Pipe'[i].guard = reg.runs[Pipe'[i].run]
          /\ reg.heap[Pipe'[i].guard].del = "in_flight"
    <3> TAKE i \in Pending'
    <3>1. CASE i \in Pending
      BY <1>5, <3>1 DEF ProtocolInv, DeleteInv
    <3>2. CASE i = new
      <4>1. call[c].kind = "run_deleted" /\ call[c].run \notin reg.forgotten =>
              /\ call[c].arc # 0 /\ call[c].arc = reg.runs[call[c].run]
              /\ reg.heap[call[c].arc].del = "in_flight"
        BY <1>7 DEF ProtocolInv, DeleteInv
      <4>2. Pipe'[i] = cmd
        BY <1>5, <3>2
      <4> QED BY <1>4, <4>1, <4>2
    <3> QED BY <1>5, <3>1, <3>2
  <2> QED BY <1>2, <1>6, <1>7, <2>1 DEF ProtocolInv, DeleteInv, Committing, Settling
<1>13. BirthInv'
  <2> SUFFICES ASSUME Running' PROVE BirthInv'
    BY DEF BirthInv
  <2>1. Running /\ call[c].run \in Runs
    BY <1>2, <1>7 DEF Running, ProtocolInv, CallInv, Calling
  <2>2. \A r \in Runs : Recorded(r)' <=> Recorded(r)
    BY <1>2 DEF Recorded
  <2>3. \A i \in Pending' : \/ i \in Pending /\ Pipe'[i] = Pipe[i]
                            \/ i = new /\ Pipe'[i] = cmd
    BY <1>5
  <2>4. \A r \in Runs : Recorded(r) =>
          \A i \in Pending' : Pipe'[i].run = r => Pipe'[i].kind # "run_created"
    BY <1>4, <1>7, <2>1, <2>3 DEF ProtocolInv, BirthInv
  <2>5. \A r \in Runs : ~Recorded(r) =>
          \A i, j \in Pending' : Pipe'[i].run = r /\ Pipe'[j].run = r => i = j
    BY <1>4, <1>7, <2>1, <2>3 DEF ProtocolInv, BirthInv
  <2>6. \A r \in Runs : ~Recorded(r) =>
          \A i \in Pending', d \in Calling' : Pipe'[i].run = r => call[d].run # r
    BY <1>4, <1>7, <2>1, <2>3 DEF ProtocolInv, BirthInv
  <2>7. \A r \in Runs : gen[r] = "unused" => \A i \in Pending' : Pipe'[i].run # r
    BY <1>4, <1>7, <2>1, <2>3 DEF ProtocolInv, BirthInv
  <2> QED BY <1>2, <1>7, <2>1, <2>2, <2>4, <2>5, <2>6, <2>7 DEF ProtocolInv, BirthInv
<1> QED BY <1>8, <1>9, <1>10, <1>11, <1>12, <1>13 DEF ProtocolInv

(* A worker's detached event joins the pipeline without a guard.            *)
LEMMA DetachedKeepsProtocol ==
  ASSUME TypeInv, ProtocolInv, NEW r \in Runs, AppendDetached(r), Done \in 0..PipeLen
  PROVE  ProtocolInv'
<1> DEFINE cmd == [run |-> r, kind |-> "loop_detected", client |-> None, guard |-> 0]
           new == PipeLen + 1
<1>1. /\ Running /\ gen[r] = "live" /\ queue' = Append(queue, cmd)
      /\ UNCHANGED <<file, wpc, staged, deferred, drop, next_seq, acked, reg, gen, pc, call>>
  BY DEF AppendDetached, Wal, writer, history, clients
<1> HIDE DEF cmd
<1>2. PipeWith(cmd)
  BY <1>1, PipeSend
<1>3. /\ cmd.run = r /\ cmd.kind # "run_created" /\ cmd.kind # "run_deleted"
      /\ cmd.client = None /\ cmd.guard = 0
  BY DEF cmd
<1>4. /\ PipeLen \in Nat /\ PipeLen' = new /\ Pipe'[new] = cmd
      /\ \A i \in 1..PipeLen : Pipe'[i] = Pipe[i]
  BY <1>2, PipeFacts DEF PipeWith
<1>5. Done' = Done
  BY <1>1 DEF Done, Publishing
<1>6. Pending' = {i \in 1..new : i > Done}
  BY <1>4, <1>5 DEF Pending
<1>7. /\ \A i \in Pending' : \/ i \in Pending /\ Pipe'[i] = Pipe[i]
                             \/ Pipe'[i] = cmd /\ i = new
      /\ \A i \in 1..new : \/ i \in 1..PipeLen /\ Pipe'[i] = Pipe[i]
                           \/ Pipe'[i] = cmd /\ i = new
      /\ \A i \in 1..PipeLen : i \in 1..new /\ Pipe'[i] = Pipe[i]
  BY <1>4, <1>6 DEF Pending
<1> HIDE DEF new
<1>8. Calling' = Calling /\ Senders' = Senders /\ Deleters' = Deleters /\ Objects' = Objects
  BY <1>1 DEF Calling, Senders, Deleters, Objects
<1>9. Running' /\ Recorded(r) /\ \A s \in Runs : Recorded(s)' <=> Recorded(s)
  BY <1>1 DEF Running, Recorded, ProtocolInv, BirthInv
<1>10. CallInv'
  BY <1>1, <1>8 DEF ProtocolInv, CallInv
<1>11. ReplyInv'
  BY <1>1, <1>3, <1>4, <1>7 DEF ProtocolInv, ReplyInv
<1>12. OwnerInv'
  BY <1>1, <1>3, <1>4, <1>5, <1>7, <1>8 DEF ProtocolInv, OwnerInv, Settling
<1>13. GuardInv'
  <2>1. \A o \in Objects : o # 0
    BY DEF Objects
  <2>2. \A i, j \in 1..new : Pipe'[i].guard = Pipe'[j].guard /\ Pipe'[i].guard # 0 => i = j
    BY <1>3, <1>7 DEF ProtocolInv, GuardInv
  <2>3. drop # 0 => \A i \in 1..new : Pipe'[i].guard # drop
    BY <1>3, <1>7 DEF ProtocolInv, GuardInv
  <2>4. \A o \in Objects : reg.heap[o].del = "in_flight" =>
          \/ \E i \in 1..new : Pipe'[i].guard = o
          \/ \E d \in Senders : call[d].arc = o
          \/ drop = o
    BY <1>7 DEF ProtocolInv, GuardInv
  <2>5. \A o \in Objects : reg.heap[o].del = "live" => \A i \in 1..new : Pipe'[i].guard # o
    BY <1>3, <1>7, <2>1 DEF ProtocolInv, GuardInv
  <2>6. \A i \in 1..new : i <= Done /\ Pipe'[i].guard # 0 =>
          reg.heap[Pipe'[i].guard].del = "deleted" \/ Committing(Pipe'[i].guard)
    BY <1>3, <1>7 DEF ProtocolInv, GuardInv
  <2>7. \A i \in 1..new, d \in Senders : Pipe'[i].guard # 0 => Pipe'[i].guard # call[d].arc
    BY <1>3, <1>7 DEF ProtocolInv, GuardInv
  <2> QED BY <1>1, <1>4, <1>5, <1>8, <2>2, <2>3, <2>4, <2>5, <2>6, <2>7
          DEF ProtocolInv, GuardInv, Committing, Settling
<1>14. DeleteInv'
  <2>1. \A i \in Pending' : Pipe'[i].kind = "run_deleted" /\ Pipe'[i].run \notin reg.forgotten =>
          /\ Pipe'[i].guard # 0 /\ Pipe'[i].guard = reg.runs[Pipe'[i].run]
          /\ reg.heap[Pipe'[i].guard].del = "in_flight"
    BY <1>3, <1>7 DEF ProtocolInv, DeleteInv
  <2> QED BY <1>1, <1>8, <2>1 DEF ProtocolInv, DeleteInv, Committing, Settling
<1>15. BirthInv'
  <2>1. \A s \in Runs : ~Recorded(s) =>
          /\ \A i, j \in Pending' : Pipe'[i].run = s /\ Pipe'[j].run = s => i = j
          /\ \A i \in Pending', d \in Calling : Pipe'[i].run = s => call[d].run # s
    BY <1>1, <1>3, <1>7, <1>9 DEF ProtocolInv, BirthInv
  <2>2. \A s \in Runs : Recorded(s) =>
          \A i \in Pending' : Pipe'[i].run = s => Pipe'[i].kind # "run_created"
    BY <1>1, <1>3, <1>7 DEF ProtocolInv, BirthInv
  <2>3. \A s \in Runs : gen[s] = "unused" => \A i \in Pending' : Pipe'[i].run # s
    BY <1>1, <1>3, <1>7 DEF ProtocolInv, BirthInv
  <2> QED BY <1>1, <1>8, <1>9, <2>1, <2>2, <2>3 DEF ProtocolInv, BirthInv
<1> QED BY <1>10, <1>11, <1>12, <1>13, <1>14, <1>15 DEF ProtocolInv

(* The delete state after a rollback. *)
RolledBack(o) == IF reg.heap[o].del = "in_flight" THEN "live" ELSE reg.heap[o].del

(* A delete that never reached the queue gives its claim back.              *)
LEMMA RefusedKeepsProtocol ==
  ASSUME IInv, TypeInv, ProtocolInv, NEW c \in Clients, pc[c] = "send",
         NEW o, o = call[c].arc,
         IF o = 0 THEN reg' = reg ELSE DeleteSet(o, RolledBack(o)),
         Return(c), UNCHANGED <<Wal, writer, queue, gen, history>>
  PROVE  ProtocolInv'
<1>1. /\ pc'[c] = "idle" /\ \A d \in Clients : d # c => pc'[d] = pc[d] /\ call'[d] = call[d]
  BY DEF TypeInv, Return, Goto
<1>2. /\ PipeLen' = PipeLen /\ \A i \in 1..PipeLen : Pipe'[i] = Pipe[i]
      /\ Done' = Done /\ Pending' = Pending /\ (Running' <=> Running)
      /\ UNCHANGED <<file, wpc, staged, drop, next_seq, acked>>
      /\ \A s : Recorded(s)' <=> Recorded(s)
  BY CallerFrame
<1>3. /\ Calling' = Calling \ {c} /\ c \in Calling /\ c \in Senders
      /\ Senders' = Senders \ {c} /\ Deleters' = Deleters /\ c \notin Deleters
      /\ Senders \subseteq Calling /\ Deleters \subseteq Calling /\ Calling \subseteq Clients
  BY <1>1 DEF Calling, Senders, Deleters
<1>4. /\ Objects' = Objects /\ reg'.runs = reg.runs /\ reg'.forgotten = reg.forgotten
      /\ Len(reg'.heap) = Len(reg.heap)
      /\ \A x \in Objects : /\ x # o => reg'.heap[x].del = reg.heap[x].del
                            /\ reg.heap[x].del = "deleted" => reg'.heap[x].del = "deleted"
                            /\ x = o => reg'.heap[x].del # "in_flight"
                            /\ x # 0
  BY DEF DeleteSet, RolledBack, Objects
<1>5. \A i \in 1..PipeLen : Pipe[i].guard # 0 => Pipe[i].guard \in Objects
  <2>1. \A i \in 1..PipeLen : Pipe[i].guard \in Nat
    BY PipeFacts DEF Commands
  <2>2. \A i \in 1..PipeLen : Pipe[i].guard # 0 => Pipe[i].guard <= Len(reg.heap)
    BY DEF ProtocolInv, OwnerInv
  <2> QED BY <2>1, <2>2 DEF Objects
<1>6. \A d \in Calling : call[d].arc # 0 => call[d].arc \in Objects
  BY <1>3 DEF TypeInv, ProtocolInv, OwnerInv, Objects
<1>7. o # 0 => /\ \A i \in 1..PipeLen : Pipe[i].guard # o
               /\ \A d \in Senders' : call[d].arc # o
               /\ drop # o
  BY <1>3 DEF ProtocolInv, GuardInv
<1>8. CallInv'
  BY <1>1, <1>3 DEF ProtocolInv, CallInv
<1>9. ReplyInv'
  <2>1. \A i \in 1..PipeLen : Pipe[i].client # None =>
          Pipe[i].client \in Clients /\ Pipe[i].client # c
    BY <1>1, PipeFacts DEF Commands, ProtocolInv, ReplyInv
  <2> QED BY <1>1, <1>2, <2>1 DEF ProtocolInv, ReplyInv
<1>10. OwnerInv'
  BY <1>1, <1>2, <1>3, <1>4 DEF ProtocolInv, OwnerInv, Settling
<1>11. GuardInv'
  <2>1. \A x \in Objects : reg'.heap[x].del = "in_flight" =>
          \/ \E i \in 1..PipeLen : Pipe[i].guard = x
          \/ \E d \in Senders' : call'[d].arc = x
          \/ drop = x
    <3> SUFFICES ASSUME NEW x \in Objects, reg'.heap[x].del = "in_flight"
                 PROVE  \/ \E i \in 1..PipeLen : Pipe[i].guard = x
                        \/ \E d \in Senders' : call'[d].arc = x
                        \/ drop = x
      OBVIOUS
    <3>1. x # o /\ reg.heap[x].del = "in_flight"
      BY <1>4
    <3> QED BY <1>1, <1>3, <3>1 DEF ProtocolInv, GuardInv
  <2>2. \A x \in Objects : reg'.heap[x].del = "live" =>
          /\ \A i \in 1..PipeLen : Pipe[i].guard # x
          /\ \A d \in Senders' : call'[d].arc # x
          /\ drop # x
    <3> TAKE x \in Objects
    <3>1. CASE x = o
      BY <1>1, <1>3, <1>4, <1>7, <3>1
    <3>2. CASE x # o
      BY <1>1, <1>3, <1>4, <3>2 DEF ProtocolInv, GuardInv
    <3> QED BY <3>1, <3>2
  <2>3. \A i \in 1..PipeLen : i <= Done /\ Pipe[i].guard # 0 =>
          reg'.heap[Pipe[i].guard].del = "deleted" \/ Committing(Pipe[i].guard)
    BY <1>4, <1>5 DEF ProtocolInv, GuardInv
  <2>4. \A d \in Senders' : d \in Senders /\ call'[d] = call[d]
    BY <1>1, <1>3
  <2>5. \A d, e \in Senders' : call'[d].arc = call'[e].arc /\ call'[d].arc # 0 => d = e
    BY <2>4 DEF ProtocolInv, GuardInv
  <2>6. \A i \in 1..PipeLen, d \in Senders' : Pipe[i].guard # 0 => Pipe[i].guard # call'[d].arc
    BY <2>4 DEF ProtocolInv, GuardInv
  <2>7. drop # 0 => \A d \in Senders' : call'[d].arc # drop
    BY <2>4 DEF ProtocolInv, GuardInv
  <2> QED BY <1>2, <1>4, <2>1, <2>2, <2>3, <2>5, <2>6, <2>7
          DEF ProtocolInv, GuardInv, Committing, Settling
<1>12. DeleteInv'
  <2>1. \A i \in Pending : Pipe[i].kind = "run_deleted" /\ Pipe[i].run \notin reg.forgotten =>
          /\ Pipe[i].guard # 0 /\ Pipe[i].guard = reg.runs[Pipe[i].run]
          /\ reg'.heap[Pipe[i].guard].del = "in_flight"
    <3>1. \A i \in Pending : Pipe[i].guard # 0 => Pipe[i].guard \in Objects /\ Pipe[i].guard # o
      BY <1>5, <1>7 DEF Pending
    <3> QED BY <1>4, <3>1 DEF ProtocolInv, DeleteInv
  <2>2. \A d \in Senders' : call'[d].kind = "run_deleted" /\ call'[d].run \notin reg.forgotten =>
          /\ call'[d].arc # 0 /\ call'[d].arc = reg.runs[call'[d].run]
          /\ reg'.heap[call'[d].arc].del = "in_flight"
    <3> TAKE d \in Senders'
    <3>1. d \in Senders /\ d \in Calling /\ d # c /\ call'[d] = call[d]
      BY <1>1, <1>3
    <3>2. call[d].arc # 0 => call[d].arc \in Objects /\ call[d].arc # o
      BY <1>6, <1>7, <3>1
    <3> QED BY <1>4, <3>1, <3>2 DEF ProtocolInv, DeleteInv
  <2>3. \A d \in Clients : pc'[d] = "lookup" /\ call'[d].run \notin reg.forgotten =>
          reg.runs[call'[d].run] # 0
    BY <1>1 DEF ProtocolInv, DeleteInv
  <2>4. \A d \in Deleters' : call'[d].run \notin reg.forgotten =>
          /\ reg.runs[call'[d].run] # 0
          /\ \/ call'[d].arc = reg.runs[call'[d].run]
             \/ reg'.heap[call'[d].arc].del = "deleted"
             \/ Settling /\ staged[Len(staged)].guard = call'[d].arc
    <3> TAKE d \in Deleters'
    <3>1. d \in Deleters /\ d # c /\ call'[d] = call[d] /\ call[d].arc \in Objects
      BY <1>1, <1>3, <1>6 DEF ProtocolInv, CallInv
    <3> QED BY <1>4, <3>1 DEF ProtocolInv, DeleteInv, Committing, Settling
  <2> QED BY <1>2, <1>4, <2>1, <2>2, <2>3, <2>4 DEF DeleteInv, Committing, Settling, Pending
<1>13. BirthInv'
  BY <1>1, <1>2, <1>3, <1>4 DEF ProtocolInv, BirthInv, Pending
<1> QED BY <1>8, <1>9, <1>10, <1>11, <1>12, <1>13 DEF ProtocolInv

(* A guard that is dropped gives its claim back. *)
LEMMA DropKeepsProtocol ==
  ASSUME TypeInv, ProtocolInv, NEW o, o = drop, o # 0, DeleteSet(o, RolledBack(o)), drop' = 0,
         UNCHANGED <<file, queue, deferred, wpc, staged, next_seq, pc, call, gen, acked>>
  PROVE  ProtocolInv'
<1>1. /\ PipeLen' = PipeLen /\ \A i \in 1..PipeLen : Pipe'[i] = Pipe[i]
      /\ Done' = Done /\ Pending' = Pending
  <2>1. PipeLen' = PipeLen /\ \A i \in 1..PipeLen : Pipe'[i] = Pipe[i]
    BY PipeUnchanged DEF PipeKept
  <2> QED BY <2>1 DEF Done, Publishing, Pending
<1>2. /\ Calling' = Calling /\ Senders' = Senders /\ Deleters' = Deleters /\ Objects' = Objects
      /\ Senders \subseteq Calling /\ Deleters \subseteq Calling /\ Calling \subseteq Clients
  BY DEF Calling, Senders, Deleters, DeleteSet
<1>3. /\ reg'.runs = reg.runs /\ reg'.forgotten = reg.forgotten
      /\ Len(reg'.heap) = Len(reg.heap)
      /\ \A x \in Objects : /\ x # o => reg'.heap[x].del = reg.heap[x].del
                            /\ reg.heap[x].del = "deleted" => reg'.heap[x].del = "deleted"
                            /\ x = o => reg'.heap[x].del # "in_flight"
                            /\ x # 0
  BY DEF DeleteSet, RolledBack, Objects
<1>4. \A i \in 1..PipeLen : Pipe[i].guard # 0 => Pipe[i].guard \in Objects
  BY PipeFacts DEF ProtocolInv, OwnerInv, Objects, Commands
<1>5. \A d \in Calling : call[d].arc # 0 => call[d].arc \in Objects
  BY <1>2 DEF TypeInv, ProtocolInv, OwnerInv, Objects
<1>6. /\ \A i \in 1..PipeLen : Pipe[i].guard # o
      /\ \A d \in Senders : call[d].arc # o
  BY DEF ProtocolInv, GuardInv
<1>7. CallInv'
  BY <1>2 DEF ProtocolInv, CallInv
<1>8. ReplyInv'
  BY <1>1 DEF ProtocolInv, ReplyInv
<1>9. OwnerInv'
  <2>1. 0 <= Len(reg.heap)
    BY LenProperties DEF TypeInv, IsRegistry
  <2> QED BY <1>1, <1>2, <1>3, <2>1 DEF ProtocolInv, OwnerInv, Settling
<1>10. GuardInv'
  <2>1. \A x \in Objects : reg'.heap[x].del = "in_flight" =>
          \/ \E i \in 1..PipeLen : Pipe[i].guard = x
          \/ \E d \in Senders : call[d].arc = x
    <3> SUFFICES ASSUME NEW x \in Objects, reg'.heap[x].del = "in_flight"
                 PROVE  \/ \E i \in 1..PipeLen : Pipe[i].guard = x
                        \/ \E d \in Senders : call[d].arc = x
      OBVIOUS
    <3>1. x # o /\ reg.heap[x].del = "in_flight"
      BY <1>3
    <3> QED BY <3>1 DEF ProtocolInv, GuardInv
  <2>2. \A x \in Objects : reg'.heap[x].del = "live" =>
          /\ \A i \in 1..PipeLen : Pipe[i].guard # x
          /\ \A d \in Senders : call[d].arc # x
          /\ 0 # x
    <3> TAKE x \in Objects
    <3>1. CASE x = o
      BY <1>3, <1>6, <3>1
    <3>2. CASE x # o
      BY <1>3, <3>2 DEF ProtocolInv, GuardInv
    <3> QED BY <3>1, <3>2
  <2>3. \A i \in 1..PipeLen : i <= Done /\ Pipe[i].guard # 0 =>
          reg'.heap[Pipe[i].guard].del = "deleted" \/ Committing(Pipe[i].guard)
    BY <1>3, <1>4 DEF ProtocolInv, GuardInv
  <2> QED BY <1>1, <1>2, <2>1, <2>2, <2>3 DEF ProtocolInv, GuardInv, Committing, Settling
<1>11. DeleteInv'
  <2>1. \A i \in Pending : Pipe[i].kind = "run_deleted" /\ Pipe[i].run \notin reg.forgotten =>
          /\ Pipe[i].guard # 0 /\ Pipe[i].guard = reg.runs[Pipe[i].run]
          /\ reg'.heap[Pipe[i].guard].del = "in_flight"
    <3>1. \A i \in Pending : Pipe[i].guard # 0 => Pipe[i].guard \in Objects /\ Pipe[i].guard # o
      BY <1>4, <1>6 DEF Pending
    <3> QED BY <1>3, <3>1 DEF ProtocolInv, DeleteInv
  <2>2. \A d \in Senders : call[d].kind = "run_deleted" /\ call[d].run \notin reg.forgotten =>
          /\ call[d].arc # 0 /\ call[d].arc = reg.runs[call[d].run]
          /\ reg'.heap[call[d].arc].del = "in_flight"
    <3>1. \A d \in Senders : call[d].arc # 0 => call[d].arc \in Objects /\ call[d].arc # o
      BY <1>2, <1>5, <1>6
    <3> QED BY <1>3, <3>1 DEF ProtocolInv, DeleteInv
  <2>3. \A d \in Deleters : call[d].run \notin reg.forgotten =>
          /\ reg.runs[call[d].run] # 0
          /\ \/ call[d].arc = reg.runs[call[d].run]
             \/ reg'.heap[call[d].arc].del = "deleted"
             \/ Settling /\ staged[Len(staged)].guard = call[d].arc
    <3>1. \A d \in Deleters : call[d].arc \in Objects
      BY <1>2, <1>5 DEF ProtocolInv, CallInv
    <3> QED BY <1>3, <3>1 DEF ProtocolInv, DeleteInv, Committing, Settling
  <2>4. \A d \in Clients : pc[d] = "lookup" /\ call[d].run \notin reg.forgotten =>
          reg.runs[call[d].run] # 0
    BY DEF ProtocolInv, DeleteInv
  <2> QED BY <1>1, <1>2, <1>3, <2>1, <2>2, <2>3, <2>4 DEF DeleteInv, Committing, Settling, Pending
<1>12. BirthInv'
  BY <1>1, <1>2, <1>3 DEF ProtocolInv, BirthInv, Pending, Running, Recorded
<1> QED BY <1>7, <1>8, <1>9, <1>10, <1>11, <1>12 DEF ProtocolInv

(* A committed guard leaves its RunState deleted, which is what its waiters *)
(* are told.                                                                *)
LEMMA CommitKeepsProtocol ==
  ASSUME IInv, TypeInv, ProtocolInv, wpc = "guard", wpc' = "apply",
         NEW o, o = staged[Len(staged)].guard, DeleteSet(o, "deleted"),
         UNCHANGED <<file, queue, deferred, drop, staged, next_seq, pc, call, gen, acked>>
  PROVE  ProtocolInv'
<1>1. /\ PipeLen' = PipeLen /\ \A i \in 1..PipeLen : Pipe'[i] = Pipe[i]
      /\ Done' = Done /\ Pending' = Pending
  <2>1. PipeLen' = PipeLen /\ \A i \in 1..PipeLen : Pipe'[i] = Pipe[i]
    BY PipeUnchanged DEF PipeKept
  <2> QED BY <2>1 DEF Done, Publishing, Pending
<1>2. /\ Calling' = Calling /\ Senders' = Senders /\ Deleters' = Deleters /\ Objects' = Objects
      /\ Senders \subseteq Calling /\ Deleters \subseteq Calling /\ Calling \subseteq Clients
  BY DEF Calling, Senders, Deleters, DeleteSet
<1>3. /\ reg'.runs = reg.runs /\ reg'.forgotten = reg.forgotten
      /\ Len(reg'.heap) = Len(reg.heap)
      /\ \A x \in Objects : /\ x # o => reg'.heap[x].del = reg.heap[x].del
                            /\ reg.heap[x].del = "deleted" => reg'.heap[x].del = "deleted"
                            /\ x = o => reg'.heap[x].del = "deleted"
                            /\ x # 0
  BY DEF DeleteSet, Objects
<1>4. \A i \in 1..PipeLen : Pipe[i].guard # 0 => Pipe[i].guard \in Objects
  BY PipeFacts DEF ProtocolInv, OwnerInv, Objects, Commands
<1>5. \A d \in Calling : call[d].arc # 0 => call[d].arc \in Objects
  BY <1>2 DEF TypeInv, ProtocolInv, OwnerInv, Objects
<1>6. /\ o # 0 /\ Len(staged) \in 1..PipeLen /\ Pipe[Len(staged)].guard = o /\ Done = Len(staged)
      /\ \A s \in Runs : reg.runs[s] # o
  <2>1. Settling
    BY DEF Settling
  <2> QED BY <2>1, CommittingIsStaged DEF ProtocolInv, OwnerInv
<1>7. /\ \A i \in Pending : Pipe[i].guard # o
      /\ \A d \in Senders : call[d].arc # o
  BY <1>6 DEF ProtocolInv, GuardInv, Pending
<1>8. CallInv'
  BY <1>2 DEF ProtocolInv, CallInv
<1>9. ReplyInv'
  BY <1>1 DEF ProtocolInv, ReplyInv
<1>10. OwnerInv'
  BY <1>1, <1>2, <1>3 DEF ProtocolInv, OwnerInv, Settling
<1>11. GuardInv'
  <2>1. \A x \in Objects : reg'.heap[x].del = "in_flight" =>
          \/ \E i \in 1..PipeLen : Pipe[i].guard = x
          \/ \E d \in Senders : call[d].arc = x
          \/ drop = x
    <3>1. \A x \in Objects : reg'.heap[x].del = "in_flight" => reg.heap[x].del = "in_flight"
      BY <1>3
    <3> QED BY <3>1 DEF ProtocolInv, GuardInv
  <2>2. \A x \in Objects : reg'.heap[x].del = "live" =>
          /\ \A i \in 1..PipeLen : Pipe[i].guard # x
          /\ \A d \in Senders : call[d].arc # x
          /\ drop # x
    <3>1. \A x \in Objects : reg'.heap[x].del = "live" => reg.heap[x].del = "live"
      BY <1>3
    <3> QED BY <3>1 DEF ProtocolInv, GuardInv
  <2>3. \A i \in 1..PipeLen : i <= Done /\ Pipe[i].guard # 0 =>
          reg'.heap[Pipe[i].guard].del = "deleted"
    BY <1>3, <1>4 DEF ProtocolInv, GuardInv, Committing, Settling
  <2> QED BY <1>1, <1>2, <2>1, <2>2, <2>3 DEF ProtocolInv, GuardInv, Committing, Settling
<1>12. DeleteInv'
  <2>1. \A i \in Pending : Pipe[i].kind = "run_deleted" /\ Pipe[i].run \notin reg.forgotten =>
          /\ Pipe[i].guard # 0 /\ Pipe[i].guard = reg.runs[Pipe[i].run]
          /\ reg'.heap[Pipe[i].guard].del = "in_flight"
    <3>1. \A i \in Pending : Pipe[i].guard # 0 => Pipe[i].guard \in Objects /\ Pipe[i].guard # o
      BY <1>4, <1>7 DEF Pending
    <3> QED BY <1>3, <3>1 DEF ProtocolInv, DeleteInv
  <2>2. \A d \in Senders : call[d].kind = "run_deleted" /\ call[d].run \notin reg.forgotten =>
          /\ call[d].arc # 0 /\ call[d].arc = reg.runs[call[d].run]
          /\ reg'.heap[call[d].arc].del = "in_flight"
    <3>1. \A d \in Senders : call[d].arc # 0 => call[d].arc \in Objects /\ call[d].arc # o
      BY <1>2, <1>5, <1>7
    <3> QED BY <1>3, <3>1 DEF ProtocolInv, DeleteInv
  <2>3. \A d \in Deleters : call[d].run \notin reg.forgotten =>
          /\ reg.runs[call[d].run] # 0
          /\ \/ call[d].arc = reg.runs[call[d].run]
             \/ reg'.heap[call[d].arc].del = "deleted"
    <3>1. \A d \in Deleters : call[d].arc \in Objects
      BY <1>2, <1>5 DEF ProtocolInv, CallInv
    <3> QED BY <1>3, <3>1 DEF ProtocolInv, DeleteInv, Committing, Settling
  <2>4. \A d \in Clients : pc[d] = "lookup" /\ call[d].run \notin reg.forgotten =>
          reg.runs[call[d].run] # 0
    BY DEF ProtocolInv, DeleteInv
  <2> QED BY <1>1, <1>2, <1>3, <2>1, <2>2, <2>3, <2>4 DEF DeleteInv, Committing, Settling, Pending
<1>13. BirthInv'
  BY <1>1, <1>2, <1>3 DEF ProtocolInv, BirthInv, Pending, Running, Recorded
<1> QED BY <1>8, <1>9, <1>10, <1>11, <1>12, <1>13 DEF ProtocolInv

(* A turn of the eviction loop, or its end: entries leave the map, no claim  *)
(* and no guard moves, and a guard that is to be committed still is.        *)
LEMMA EvictionKeepsProtocol ==
  ASSUME IInv, TypeInv, ProtocolInv, Evicts(reg, reg'),
         wpc \in {"evict", "remove"}, wpc' \in {"evict", "remove", "guard", "apply"},
         wpc' \in {"guard", "apply"} =>
           wpc' = IF staged[Len(staged)].guard = 0 THEN "apply" ELSE "guard",
         UNCHANGED <<file, queue, deferred, drop, staged, next_seq, pc, call, gen, acked>>
  PROVE  ProtocolInv'
<1>1. /\ PipeLen' = PipeLen /\ \A i \in 1..PipeLen : Pipe'[i] = Pipe[i]
      /\ Done' = Done /\ Pending' = Pending
  <2>1. PipeLen' = PipeLen /\ \A i \in 1..PipeLen : Pipe'[i] = Pipe[i]
    BY PipeUnchanged DEF PipeKept
  <2> QED BY <2>1 DEF Done, Publishing, Pending
<1>2. /\ Calling' = Calling /\ Senders' = Senders /\ Deleters' = Deleters /\ Objects' = Objects
      /\ Senders \subseteq Calling /\ Deleters \subseteq Calling /\ Calling \subseteq Clients
      /\ \A o \in Objects : o # 0
  BY DEF Calling, Senders, Deleters, Evicts, Objects
<1>3. /\ reg'.heap = reg.heap /\ reg.forgotten \subseteq reg'.forgotten
      /\ \A r \in Runs : \/ reg'.runs[r] = reg.runs[r]
                         \/ reg'.runs[r] = 0 /\ r \in reg'.forgotten
      /\ \A r \in Runs : reg.runs[r] \in Nat
  BY DEF Evicts, TypeInv, IsRegistry
<1>4. /\ Settling /\ \A o : o # 0 /\ Committing(o) => Committing(o)'
      /\ wpc' = "guard" => staged[Len(staged)].guard # 0
  BY DEF Settling, Committing
<1>5. /\ \A i \in 1..PipeLen : Pipe[i].run \in Runs
      /\ \A c \in Calling : call[c].run \in Runs
  BY PipeFacts DEF Commands, ProtocolInv, CallInv, Calling
<1>6. CallInv'
  BY <1>2 DEF ProtocolInv, CallInv
<1>7. ReplyInv'
  BY <1>1 DEF ProtocolInv, ReplyInv
<1>8. OwnerInv'
  <2>1. \A r \in Runs : reg'.runs[r] # 0 => reg'.runs[r] = reg.runs[r]
    BY <1>3
  <2>2. \A r \in Runs : reg'.runs[r] <= Len(reg'.heap)
    <3>1. Len(reg.heap) \in Nat
      BY LenProperties DEF TypeInv, IsRegistry
    <3> QED BY <1>3, <3>1 DEF ProtocolInv, OwnerInv
  <2>3. \A r, s \in Runs : reg'.runs[r] = reg'.runs[s] /\ reg'.runs[r] # 0 => r = s
    BY <2>1 DEF ProtocolInv, OwnerInv
  <2>4. \A i \in 1..PipeLen : Pipe[i].guard # 0 =>
          /\ Pipe[i].kind = "run_deleted"
          /\ Pipe[i].guard <= Len(reg'.heap)
          /\ \A s \in Runs : s # Pipe[i].run => reg'.runs[s] # Pipe[i].guard
    BY <1>3, <2>1 DEF ProtocolInv, OwnerInv
  <2>5. \A d \in Calling : call[d].arc # 0 =>
          /\ call[d].arc <= Len(reg'.heap)
          /\ \A s \in Runs : s # call[d].run => reg'.runs[s] # call[d].arc
    BY <1>3, <2>1 DEF ProtocolInv, OwnerInv
  <2>6. /\ Done = Len(staged)
        /\ staged[Len(staged)].guard # 0 => \A s \in Runs : reg'.runs[s] # staged[Len(staged)].guard
    BY <1>4, <2>1 DEF ProtocolInv, OwnerInv
  <2> QED BY <1>1, <1>2, <1>3, <1>4, <2>2, <2>3, <2>4, <2>5, <2>6 DEF ProtocolInv, OwnerInv, Settling
<1>9. GuardInv'
  <2>1. \A i \in 1..PipeLen : i <= Done /\ Pipe[i].guard # 0 =>
          \/ reg.heap[Pipe[i].guard].del = "deleted"
          \/ Settling' /\ staged[Len(staged)].guard = Pipe[i].guard
    BY <1>4 DEF ProtocolInv, GuardInv, Committing
  <2>2. \A i \in 1..PipeLen : i <= Done' /\ Pipe'[i].guard # 0 =>
          \/ reg'.heap[Pipe'[i].guard].del = "deleted"
          \/ Settling' /\ staged[Len(staged)].guard = Pipe'[i].guard
    BY <1>1, <1>3, <2>1
  <2> QED BY <1>1, <1>2, <1>3, <2>2 DEF ProtocolInv, GuardInv, Committing
<1>10. DeleteInv'
  <2>1. \A r \in Runs : r \notin reg'.forgotten => r \notin reg.forgotten /\ reg'.runs[r] = reg.runs[r]
    BY <1>3
  <2>2. \A i \in Pending : Pipe[i].kind = "run_deleted" /\ Pipe[i].run \notin reg'.forgotten =>
          /\ Pipe[i].guard # 0 /\ Pipe[i].guard = reg'.runs[Pipe[i].run]
          /\ reg'.heap[Pipe[i].guard].del = "in_flight"
    BY <1>3, <1>5, <2>1 DEF ProtocolInv, DeleteInv, Pending
  <2>3. \A d \in Senders : call[d].kind = "run_deleted" /\ call[d].run \notin reg'.forgotten =>
          /\ call[d].arc # 0 /\ call[d].arc = reg'.runs[call[d].run]
          /\ reg'.heap[call[d].arc].del = "in_flight"
    BY <1>2, <1>3, <1>5, <2>1 DEF ProtocolInv, DeleteInv
  <2>4. \A d \in Clients : pc[d] = "lookup" /\ call[d].run \notin reg'.forgotten =>
          reg'.runs[call[d].run] # 0
    <3>1. \A d \in Clients : pc[d] = "lookup" => call[d].run \in Runs
      BY DEF ProtocolInv, CallInv
    <3> QED BY <2>1, <3>1 DEF ProtocolInv, DeleteInv
  <2>5. \A d \in Deleters : call[d].run \notin reg'.forgotten =>
          /\ reg'.runs[call[d].run] # 0
          /\ \/ call[d].arc = reg'.runs[call[d].run]
             \/ reg'.heap[call[d].arc].del = "deleted"
             \/ Settling' /\ staged[Len(staged)].guard = call[d].arc
    <3> SUFFICES ASSUME NEW d \in Deleters, call[d].run \notin reg'.forgotten
                 PROVE  /\ reg'.runs[call[d].run] # 0
                        /\ \/ call[d].arc = reg'.runs[call[d].run]
                           \/ reg'.heap[call[d].arc].del = "deleted"
                           \/ Settling' /\ staged[Len(staged)].guard = call[d].arc
      OBVIOUS
    <3>1. call[d].run \in Runs /\ call[d].arc # 0
      BY <1>2, <1>5 DEF ProtocolInv, CallInv
    <3>2. /\ reg.runs[call[d].run] # 0
          /\ \/ call[d].arc = reg.runs[call[d].run]
             \/ reg.heap[call[d].arc].del = "deleted"
             \/ Committing(call[d].arc)
      BY <2>1, <3>1 DEF ProtocolInv, DeleteInv
    <3>3. Committing(call[d].arc) => Settling' /\ staged[Len(staged)].guard = call[d].arc
      BY <1>4, <3>1 DEF Committing
    <3> QED BY <1>3, <2>1, <3>1, <3>2, <3>3
  <2> QED BY <1>1, <1>2, <1>3, <2>2, <2>3, <2>4, <2>5 DEF DeleteInv, Committing, Pending
<1>11. BirthInv'
  <2>1. \A r \in Runs : reg'.runs[r] # 0 => reg.runs[r] # 0
    BY <1>3
  <2>2. Running /\ Running'
    BY DEF Running
  <2>3. \A r : Recorded(r)' <=> Recorded(r)
    BY DEF Recorded
  <2> QED BY <1>1, <1>2, <2>1, <2>2, <2>3 DEF ProtocolInv, BirthInv, Pending
<1> QED BY <1>6, <1>7, <1>8, <1>9, <1>10, <1>11 DEF ProtocolInv

(* A generation starts only for a run whose run_created was acknowledged.   *)
LEMMA GenerationKeepsProtocol ==
  ASSUME IInv, TypeInv, ProtocolInv, NEW r \in Runs, ProtectTombstone(r) \/ ReleaseTombstone(r)
  PROVE  ProtocolInv'
<1>1. /\ Running /\ gen[r] # "unused"
      /\ \E g \in {"live", "joined"} : gen' = [gen EXCEPT ![r] = g]
      /\ UNCHANGED <<file, staged, deferred, queue, drop, wpc, next_seq, acked, reg, pc, call>>
  BY DEF ProtectTombstone, ReleaseTombstone, Wal, writer, clients, history
<1>2. Recorded(r)
  <2>1. CASE ProtectTombstone(r)
    <3>1. PICK e \in acked : e.run = r
      BY <2>1 DEF ProtectTombstone
    <3>2. e.seq \in 1..durable /\ file[e.seq] = e /\ e.seq <= next_seq
      BY <1>1, <3>1 DEF IInv, AckedInv, ProtocolInv, BirthInv
    <3>3. durable \in Nat /\ next_seq \in Nat
      BY DEF IInv, FileInv, WriterInv
    <3>4. e.seq \in 1..next_seq
      BY <3>2, <3>3
    <3> QED BY <3>1, <3>2, <3>4 DEF Recorded
  <2>2. CASE ReleaseTombstone(r)
    BY <1>1, <2>2 DEF ReleaseTombstone, ProtocolInv, BirthInv
  <2> QED BY <2>1, <2>2
<1>3. /\ PipeLen' = PipeLen /\ \A i \in 1..PipeLen : Pipe'[i] = Pipe[i]
      /\ Done' = Done /\ Pending' = Pending
      /\ Calling' = Calling /\ Senders' = Senders /\ Deleters' = Deleters /\ Objects' = Objects
  <2>1. PipeLen' = PipeLen /\ \A i \in 1..PipeLen : Pipe'[i] = Pipe[i]
    BY <1>1, PipeUnchanged DEF PipeKept
  <2> QED BY <1>1, <2>1 DEF Done, Publishing, Pending, Calling, Senders, Deleters, Objects
<1>4. CallInv'
  BY <1>1, <1>3 DEF ProtocolInv, CallInv
<1>5. ReplyInv'
  BY <1>1, <1>3 DEF ProtocolInv, ReplyInv
<1>6. OwnerInv'
  BY <1>1, <1>3 DEF ProtocolInv, OwnerInv, Settling
<1>7. GuardInv'
  BY <1>1, <1>3 DEF ProtocolInv, GuardInv, Committing, Settling
<1>8. DeleteInv'
  BY <1>1, <1>3 DEF ProtocolInv, DeleteInv, Committing, Settling, Pending
<1>9. BirthInv'
  <2>1. \A s \in Runs : /\ s # r => gen'[s] = gen[s]
                        /\ s = r => gen'[s] # "unused"
    BY <1>1 DEF TypeInv
  <2> QED BY <1>1, <1>2, <1>3, <2>1 DEF ProtocolInv, BirthInv, Pending, Running, Recorded
<1> QED BY <1>4, <1>5, <1>6, <1>7, <1>8, <1>9 DEF ProtocolInv

(* How far the writer is in its batch and in the log. *)
LEMMA DoneFacts ==
  ASSUME IInv, TypeInv
  PROVE  /\ Len(file) \in Nat /\ next_seq \in Nat
         /\ Running => next_seq \in 0..Len(file)
         /\ Done \in 0..Len(staged) /\ Done \in 0..PipeLen
         /\ ~Publishing => Done = 0
         /\ wpc = "reply" => Done = Len(staged) /\ Len(staged) >= 1
<1>1. /\ Len(file) \in Nat /\ next_seq \in Nat /\ Len(staged) \in Nat
      /\ committed_end \in Nat /\ committed_end <= Len(file) /\ PipeLen >= Len(staged)
      /\ PipeLen \in Nat
  BY SeqFacts, PipeFacts DEF IInv, FileInv, WriterInv
<1>2. wpc # "down" => next_seq \in 0..Len(file)
  BY <1>1 DEF IInv, WriterInv, WriterPCs, Batching, Publishing
<1>3. Publishing => Done \in 0..Len(staged) /\ Done = next_seq - (Len(file) - Len(staged))
  BY <1>1 DEF Done, IInv, WriterInv, Publishing
<1>4. wpc = "reply" => Done = Len(staged) /\ Len(staged) >= 1
  BY <1>1, <1>3 DEF IInv, WriterInv, Publishing
<1>5. ~Publishing => Done = 0
  BY DEF Done
<1>6. Done \in 0..Len(staged) /\ Done \in 0..PipeLen
  BY <1>1, <1>3, <1>5
<1> QED BY <1>1, <1>2, <1>4, <1>5, <1>6 DEF Running

(* The record that is applied next is the next one of the log, and the      *)
(* first pending one of the pipeline.                                       *)
LEMMA ApplyFacts ==
  ASSUME IInv, TypeInv, ApplyCommittedEvent
  PROVE  /\ Done + 1 \in 1..Len(staged) /\ Done + 1 \in 1..PipeLen
         /\ Applying = staged[Done + 1] /\ Pipe[Done + 1] = Entry(Applying)
         /\ Applying \in StagedAppends
         /\ next_seq + 1 \in 1..Len(file) /\ Applying.event = file[next_seq + 1]
         /\ next_seq' = next_seq + 1 /\ Done' = Done + 1
         /\ next_seq \in Nat /\ Done \in Nat
<1> DEFINE n == Len(file)
           m == Len(staged)
<1>1. /\ wpc = "apply" /\ ~AllApplied /\ next_seq' = Applying.event.seq
      /\ wpc' \in {"apply", "evict", "guard"}
      /\ UNCHANGED <<file, staged>>
  BY DEF ApplyCommittedEvent, GuardOrNext, Wal
<1>2. /\ n \in Nat /\ m \in 1..n /\ DOMAIN file = 1..n
      /\ next_seq \in n - m .. n /\ StagedBehind(n - m) /\ SequenceContiguous
  BY <1>1, SeqFacts DEF IInv, FileInv, WriterInv, Publishing
<1>a. Done = next_seq - (n - m) /\ Done' = next_seq' - (n - m)
  BY <1>1 DEF Done, Publishing
<1> HIDE DEF n, m
<1>3. \A i \in 1..m : staged[i].event.seq = n - m + i /\ staged[i].event = file[n - m + i]
  <2> TAKE i \in 1..m
  <2>1. n - m + i \in DOMAIN file
    BY <1>2
  <2>2. staged[i].event = file[n - m + i]
    BY <1>2 DEF StagedBehind, m
  <2> QED BY <2>1, <2>2, <1>2 DEF SequenceContiguous
<1>4. next_seq # n
  <2>1. staged[m].event.seq = n
    BY <1>2, <1>3
  <2> QED BY <1>1, <2>1 DEF AllApplied, m
<1>5. next_seq + 2 - staged[1].event.seq = Done + 1 /\ Done + 1 \in 1..m
  BY <1>2, <1>3, <1>4, <1>a
<1>6. Applying = staged[Done + 1]
  BY <1>5 DEF Applying
<1>7. n - m + (Done + 1) = next_seq + 1 /\ next_seq + 1 \in 1..n
  BY <1>2, <1>4, <1>a
<1>8. next_seq' = next_seq + 1 /\ Applying.event = file[next_seq + 1]
  BY <1>1, <1>3, <1>5, <1>6, <1>7
<1>9. Done' = Done + 1 /\ next_seq \in Nat /\ Done \in Nat
  BY <1>2, <1>8, <1>a
<1>10. Done + 1 \in 1..PipeLen /\ Pipe[Done + 1] = Entry(staged[Done + 1])
  BY <1>2, <1>5, PipeFacts DEF m
<1>11. staged[Done + 1] \in StagedAppends
  BY <1>5, ElementOfSeq DEF m, TypeInv
<1> QED BY <1>5, <1>6, <1>7, <1>8, <1>9, <1>10, <1>11 DEF n, m

(* A structural event gives its run a fresh RunState, made from what g knew *)
(* of the run and what the event says; other runs can only be evicted.      *)
Inserts(g, h, e) ==
  /\ IsRegistry(h) /\ g.forgotten \subseteq h.forgotten
  /\ Len(h.heap) = Len(g.heap) + 1
  /\ \A o \in 1..Len(g.heap) : h.heap[o] = g.heap[o]
  /\ h.heap[Len(g.heap) + 1].created = (Summary(g, e.run).created \/ e.kind = "run_created")
  /\ h.heap[Len(g.heap) + 1].del =
       IF Summary(g, e.run).deleted \/ e.kind = "run_deleted" THEN "deleted" ELSE "live"
  /\ \A r \in Runs : \/ h.runs[r] = IF r = e.run THEN Len(g.heap) + 1 ELSE g.runs[r]
                     \/ h.runs[r] = 0 /\ r \in h.forgotten

(* What applying the next record of the log does to the registry. *)
Applied(e) ==
  \/ reg' = reg /\ e.kind \notin {"run_created", "run_deleted"} /\ reg.runs[e.run] # 0
  \/ /\ e.kind \in {"run_created", "run_deleted"} \/ reg.runs[e.run] = 0
     /\ Inserts(reg, reg', e)

(* A replayed event may evict the oldest tombstone on top of it.            *)
LEMMA ReplayEventFacts ==
  ASSUME NEW g, IsRegistry(g), \A r \in Runs : g.runs[r] <= Len(g.heap),
         NEW e, e.run \in Runs, e.kind \in Kinds
  PROVE  Inserts(g, ReplayEvent(g, e), e)
<1> DEFINE a == ApplyStructuralEvent(g, e)
           h == ReplayEvent(g, e)
<1>1. /\ Inserts(g, a, e) /\ IsRegistry(a) /\ g.forgotten = a.forgotten
      /\ \A r \in Runs : a.runs[r] = IF r = e.run THEN Len(g.heap) + 1 ELSE g.runs[r]
  BY StructuralFacts DEF Inserts
<1>2. h = a \/ (h = ForgetOldest(a) /\ OverCap(a))
  BY DEF ReplayEvent
<1> HIDE DEF a, h
<1>3. OverCap(a) => a.order # <<>>
  BY <1>1, RetentionCapAssumption, EmptySeq DEF OverCap
<1>4. CASE h = ForgetOldest(a) /\ OverCap(a)
  <2>1. Evicts(a, h)
    BY <1>1, <1>3, <1>4, ForgetFacts
  <2> QED BY <1>1, <2>1 DEF Evicts, Inserts, h
<1> QED BY <1>1, <1>2, <1>4 DEF h

(* An ordinary event of a known run changes nothing; the others are structural.  *)
LEMMA AppliedFacts ==
  ASSUME TypeInv, OwnerInv, NEW e, e.run \in Runs, e.kind \in Kinds,
         reg' = ApplyAppendedEvent(reg, e)
  PROVE  Applied(e) /\ reg'.forgotten = reg.forgotten
<1>1. IsRegistry(reg) /\ \A r \in Runs : reg.runs[r] <= Len(reg.heap)
  BY DEF TypeInv, OwnerInv
<1>2. CASE e.kind \in {"run_created", "run_deleted"} \/ ~Present(reg, e.run)
  <2>1. reg' = ApplyStructuralEvent(reg, e)
    BY <1>2 DEF ApplyAppendedEvent
  <2> QED BY <1>1, <1>2, <2>1, StructuralFacts DEF Applied, Inserts, Present
<1>3. CASE ~(e.kind \in {"run_created", "run_deleted"} \/ ~Present(reg, e.run))
  <2>1. reg' = reg
    BY <1>3 DEF ApplyAppendedEvent
  <2> QED BY <1>1, <1>3, <2>1 DEF Applied, Present
<1> QED BY <1>2, <1>3

(* The next record of the log takes effect: its run gets a fresh RunState,  *)
(* unless it is an ordinary event of a known run, and no claim is lost.     *)
LEMMA ApplyKeepsProtocol ==
  ASSUME IInv, TypeInv, BatchInv, ProtocolInv, ApplyCommittedEvent
  PROVE  ProtocolInv'
<1> DEFINE k == Done + 1
           e == Applying.event
           n == Len(reg.heap)
<1>1. /\ wpc = "apply"
      /\ wpc' = IF FreshlyDeleted(reg, e) THEN "evict"
                ELSE IF Applying.guard = 0 THEN "apply" ELSE "guard"
      /\ UNCHANGED <<file, staged, deferred, queue, drop, acked, gen, pc, call>>
      /\ reg' = ApplyAppendedEvent(reg, e)
  BY DEF ApplyCommittedEvent, GuardOrNext, Wal, clients, history
<1>2. /\ k \in 1..Len(staged) /\ k \in 1..PipeLen /\ Applying = staged[k]
      /\ Pipe[k] = Entry(Applying) /\ Applying \in StagedAppends
      /\ next_seq + 1 \in 1..Len(file) /\ e = file[next_seq + 1]
      /\ next_seq' = next_seq + 1 /\ Done' = k /\ next_seq \in Nat /\ Done \in Nat
  BY ApplyFacts
<1>3. /\ e.run \in Runs /\ e.kind \in Kinds /\ Pipe[k].run = e.run /\ Pipe[k].kind = e.kind
      /\ Pipe[k].guard = Applying.guard
  BY <1>2 DEF StagedAppends, TimelineEvent, Entry
<1>4. Applied(e)
  BY <1>1, <1>3, AppliedFacts DEF ProtocolInv
<1>5. /\ PipeLen' = PipeLen /\ \A i \in 1..PipeLen : Pipe'[i] = Pipe[i]
  BY <1>1, PipeUnchanged DEF PipeKept
<1>6. /\ Pending' = Pending \ {k} /\ k \in Pending /\ Pending \subseteq 1..PipeLen
      /\ \A i \in 1..PipeLen : i <= Done' <=> (i <= Done \/ i = k)
  BY <1>2, <1>5 DEF Pending
<1>7. /\ Calling' = Calling /\ Senders' = Senders /\ Deleters' = Deleters
      /\ Senders \subseteq Calling /\ Deleters \subseteq Calling /\ Calling \subseteq Clients
  BY <1>1 DEF Calling, Senders, Deleters
<1>8. Running /\ Running' /\ \A o : ~Committing(o)
  BY <1>1 DEF Running, Committing, Settling
<1>9. \A r \in Runs : Recorded(r)' <=> (Recorded(r) \/ r = e.run)
  <2> TAKE r \in Runs
  <2>1. Recorded(r)' <=> \E i \in 1..next_seq + 1 : file[i].run = r
    BY <1>1, <1>2 DEF Recorded
  <2>2. Recorded(r) <=> \E i \in 1..next_seq : file[i].run = r
    BY DEF Recorded
  <2>3. file[next_seq + 1].run = e.run
    BY <1>2
  <2> QED BY <1>2, <2>1, <2>2, <2>3
<1> HIDE DEF k, e
<1>10. n \in Nat /\ \A r \in Runs : reg.runs[r] \in Nat /\ reg.runs[r] <= n
  BY LenProperties DEF TypeInv, IsRegistry, ProtocolInv, OwnerInv
<1>11. \A i \in 1..PipeLen : Pipe[i].guard \in 0..n
  <2>1. \A i \in 1..PipeLen : Pipe[i].guard \in Nat
    BY PipeFacts DEF Commands
  <2> QED BY <1>10, <2>1 DEF ProtocolInv, OwnerInv
<1>12. \A d \in Calling : call[d].arc \in 0..n
  <2>1. \A d \in Calling : call[d].arc \in Nat
    BY <1>7 DEF TypeInv
  <2> QED BY <1>10, <2>1 DEF ProtocolInv, OwnerInv
<1>13. drop \in 0..n
  BY <1>10 DEF TypeInv, ProtocolInv, OwnerInv
<1>14. /\ Len(reg'.heap) \in {n, n + 1} /\ Objects' = 1..Len(reg'.heap) /\ Objects = 1..n
       /\ \A o \in 1..n : reg'.heap[o] = reg.heap[o]
       /\ Len(reg'.heap) = n + 1 => reg'.heap[n + 1].del \in {"live", "deleted"}
       /\ reg.forgotten \subseteq reg'.forgotten
  BY <1>4 DEF Applied, Inserts, Objects
<1>15. \A r \in Runs : \/ reg'.runs[r] = reg.runs[r]
                       \/ r = e.run /\ reg'.runs[r] = n + 1 /\ Len(reg'.heap) = n + 1
                       \/ reg'.runs[r] = 0 /\ r \in reg'.forgotten
  BY <1>4 DEF Applied, Inserts
<1>16. Applying.guard # 0 => /\ e.kind = "run_deleted" /\ Len(staged) = 1 /\ k = 1
                             /\ Applying.guard \in 1..n
  <2>1. Applying.guard # 0 => e.kind = "run_deleted"
    BY <1>2, <1>3 DEF ProtocolInv, OwnerInv
  <2>2. e.kind = "run_deleted" => Len(staged) = 1
    BY <1>2 DEF BatchInv, e
  <2> QED BY <1>2, <1>3, <1>11, <2>1, <2>2
<1>17. /\ Applying.guard # 0 => Settling'
       /\ Settling' => staged[Len(staged)] = Applying /\ Done' = Len(staged)
  <2>1. e.kind = "run_deleted" => Len(staged) = 1
    BY <1>2 DEF BatchInv, e
  <2>2. Settling' => e.kind = "run_deleted"
    BY <1>1, <1>16 DEF Settling, FreshlyDeleted, e
  <2>3. Applying.guard # 0 => wpc' \in {"evict", "guard"}
    BY <1>1
  <2> QED BY <1>2, <2>1, <2>2, <2>3 DEF Settling
<1>18. CallInv'
  BY <1>1, <1>7 DEF ProtocolInv, CallInv
<1>19. ReplyInv'
  BY <1>1, <1>5 DEF ProtocolInv, ReplyInv
<1>20. OwnerInv'
  <2>1. \A r \in Runs : reg'.runs[r] <= Len(reg'.heap)
    BY <1>10, <1>14, <1>15
  <2>2. \A r, s \in Runs : reg'.runs[r] = reg'.runs[s] /\ reg'.runs[r] # 0 => r = s
    BY <1>10, <1>15 DEF ProtocolInv, OwnerInv
  <2>3. \A o \in 0..n, r \in Runs :
          o # 0 /\ (\A s \in Runs : s # r => reg.runs[s] # o) =>
            \A s \in Runs : s # r => reg'.runs[s] # o
    BY <1>10, <1>15
  <2>4. \A i \in 1..PipeLen : Pipe[i].run \in Runs
    BY PipeFacts DEF Commands
  <2>5. \A i \in 1..PipeLen : Pipe[i].guard # 0 =>
          /\ Pipe[i].kind = "run_deleted"
          /\ Pipe[i].guard <= Len(reg'.heap)
          /\ \A s \in Runs : s # Pipe[i].run => reg'.runs[s] # Pipe[i].guard
    <3> SUFFICES ASSUME NEW i \in 1..PipeLen, Pipe[i].guard # 0
                 PROVE  /\ Pipe[i].kind = "run_deleted"
                        /\ Pipe[i].guard <= Len(reg'.heap)
                        /\ \A s \in Runs : s # Pipe[i].run => reg'.runs[s] # Pipe[i].guard
      OBVIOUS
    <3>1. /\ Pipe[i].kind = "run_deleted"
          /\ \A s \in Runs : s # Pipe[i].run => reg.runs[s] # Pipe[i].guard
      BY DEF ProtocolInv, OwnerInv
    <3>2. Pipe[i].guard \in 0..n /\ Pipe[i].run \in Runs
      BY <1>11, <2>4
    <3>3. \A s \in Runs : s # Pipe[i].run => reg'.runs[s] # Pipe[i].guard
      BY <2>3, <3>1, <3>2
    <3> QED BY <1>10, <1>14, <3>1, <3>2, <3>3
  <2>6. \A d \in Calling : call[d].arc # 0 =>
          /\ call[d].arc <= Len(reg'.heap)
          /\ \A s \in Runs : s # call[d].run => reg'.runs[s] # call[d].arc
    <3> SUFFICES ASSUME NEW d \in Calling, call[d].arc # 0
                 PROVE  /\ call[d].arc <= Len(reg'.heap)
                        /\ \A s \in Runs : s # call[d].run => reg'.runs[s] # call[d].arc
      OBVIOUS
    <3>1. call[d].run \in Runs /\ call[d].arc \in 0..n
      BY <1>7, <1>12 DEF ProtocolInv, CallInv, Calling
    <3>2. \A s \in Runs : s # call[d].run => reg.runs[s] # call[d].arc
      BY DEF ProtocolInv, OwnerInv
    <3>3. \A s \in Runs : s # call[d].run => reg'.runs[s] # call[d].arc
      BY <2>3, <3>1, <3>2
    <3> QED BY <1>10, <1>14, <3>1, <3>3
  <2>7. drop <= Len(reg'.heap)
    BY <1>10, <1>13, <1>14
  <2>8. Applying.guard # 0 => /\ Done' = Len(staged) /\ staged[Len(staged)] = Applying
                              /\ \A s \in Runs : reg'.runs[s] # Applying.guard
    <3> SUFFICES ASSUME Applying.guard # 0
                 PROVE  /\ Done' = Len(staged) /\ staged[Len(staged)] = Applying
                        /\ \A s \in Runs : reg'.runs[s] # Applying.guard
      OBVIOUS
    <3>1. Done' = Len(staged) /\ staged[Len(staged)] = Applying
      BY <1>2, <1>16
    <3>2. \A s \in Runs : s # e.run => reg'.runs[s] # Applying.guard
      BY <1>2, <1>3, <2>5
    <3>3. reg'.runs[e.run] \in {0, n + 1}
      BY <1>3, <1>4, <1>16 DEF Applied, Inserts
    <3> QED BY <1>10, <1>16, <3>1, <3>2, <3>3
  <2>9. wpc' = "guard" => Applying.guard # 0
    BY <1>1
  <2>10. wpc' = "guard" => staged[Len(staged)].guard # 0
    BY <1>17, <2>9 DEF Settling
  <2>11. Settling' => /\ Done' = Len(staged)
                      /\ staged[Len(staged)].guard # 0 =>
                           \A s \in Runs : reg'.runs[s] # staged[Len(staged)].guard
    BY <1>17, <2>8
  <2> QED BY <1>1, <1>5, <1>7, <2>1, <2>2, <2>5, <2>6, <2>7, <2>10, <2>11 DEF OwnerInv
<1>21. GuardInv'
  <2>1. \A o \in Objects' : reg'.heap[o].del = "in_flight" =>
          o \in Objects /\ reg.heap[o].del = "in_flight"
    BY <1>10, <1>14
  <2>2. \A o \in Objects' : reg'.heap[o].del = "live" =>
          o = n + 1 \/ (o \in Objects /\ reg.heap[o].del = "live")
    BY <1>10, <1>14
  <2>3. /\ \A i \in 1..PipeLen : Pipe[i].guard # n + 1
        /\ \A d \in Senders : call[d].arc # n + 1
        /\ drop # n + 1
    BY <1>7, <1>10, <1>11, <1>12, <1>13
  <2>4. \A o \in Objects' : reg'.heap[o].del = "in_flight" =>
          \/ \E i \in 1..PipeLen : Pipe[i].guard = o
          \/ \E d \in Senders : call[d].arc = o
          \/ drop = o
    BY <2>1 DEF ProtocolInv, GuardInv
  <2>5. \A o \in Objects' : reg'.heap[o].del = "live" =>
          /\ \A i \in 1..PipeLen : Pipe[i].guard # o
          /\ \A d \in Senders : call[d].arc # o
          /\ drop # o
    BY <2>2, <2>3 DEF ProtocolInv, GuardInv
  <2>6. \A i \in 1..PipeLen : i <= Done' /\ Pipe[i].guard # 0 =>
          reg'.heap[Pipe[i].guard].del = "deleted" \/ (Applying.guard # 0 /\ Pipe[i].guard = Applying.guard)
    <3> SUFFICES ASSUME NEW i \in 1..PipeLen, i <= Done', Pipe[i].guard # 0
                 PROVE  \/ reg'.heap[Pipe[i].guard].del = "deleted"
                        \/ Applying.guard # 0 /\ Pipe[i].guard = Applying.guard
      OBVIOUS
    <3>1. CASE i = k
      BY <1>3, <3>1
    <3>2. CASE i # k
      <4>1. i <= Done /\ Pipe[i].guard \in 1..n
        BY <1>6, <1>11, <3>2
      <4> QED BY <1>8, <1>14, <4>1 DEF ProtocolInv, GuardInv
    <3> QED BY <3>1, <3>2
  <2>7. \A i \in 1..PipeLen : i <= Done' /\ Pipe'[i].guard # 0 =>
          \/ reg'.heap[Pipe'[i].guard].del = "deleted"
          \/ Settling' /\ staged[Len(staged)].guard = Pipe'[i].guard
    BY <1>5, <1>17, <2>6
  <2>8. /\ \A i, j \in 1..PipeLen : Pipe[i].guard = Pipe[j].guard /\ Pipe[i].guard # 0 => i = j
        /\ \A c, d \in Senders : call[c].arc = call[d].arc /\ call[c].arc # 0 => c = d
        /\ \A i \in 1..PipeLen, c \in Senders : Pipe[i].guard # 0 => Pipe[i].guard # call[c].arc
        /\ drop # 0 => /\ \A i \in 1..PipeLen : Pipe[i].guard # drop
                       /\ \A c \in Senders : call[c].arc # drop
    BY DEF ProtocolInv, GuardInv
  <2> QED BY <1>1, <1>5, <1>7, <2>4, <2>5, <2>7, <2>8 DEF GuardInv, Committing, Settling
(* Whoever holds the claim of the run that is applied is the record itself. *)
<1>22. ASSUME NEW o \in 1..n, e.run \notin reg'.forgotten, o = reg.runs[e.run]
       PROVE  reg' = reg \/ (Applying.guard # 0 /\ Applying.guard = o)
  <2>1. e.run \notin reg.forgotten
    BY <1>14, <1>22
  <2>2. Recorded(e.run)
    BY <1>3, <1>8, <1>10, <1>22 DEF ProtocolInv, BirthInv
  <2>3. e.kind # "run_created"
    BY <1>3, <1>6, <1>8, <2>2 DEF ProtocolInv, BirthInv
  <2>4. e.kind = "run_deleted" => Applying.guard # 0 /\ Applying.guard = o
    BY <1>3, <1>6, <1>22, <2>1 DEF ProtocolInv, DeleteInv
  <2> QED BY <1>4, <1>22, <2>3, <2>4 DEF Applied, Inserts
<1>23. DeleteInv'
  <2>1. \A r \in Runs : r \notin reg'.forgotten =>
          r \notin reg.forgotten /\ (reg.runs[r] # 0 => reg'.runs[r] # 0)
    BY <1>10, <1>14, <1>15
  <2>2. \A r \in Runs : r \notin reg'.forgotten /\ r # e.run => reg'.runs[r] = reg.runs[r]
    BY <1>15
  <2>3. \A i \in Pending' : Pipe[i].kind = "run_deleted" /\ Pipe[i].run \notin reg'.forgotten =>
          /\ Pipe[i].guard # 0 /\ Pipe[i].guard = reg'.runs[Pipe[i].run]
          /\ reg'.heap[Pipe[i].guard].del = "in_flight"
    <3> SUFFICES ASSUME NEW i \in Pending', Pipe[i].kind = "run_deleted",
                        Pipe[i].run \notin reg'.forgotten
                 PROVE  /\ Pipe[i].guard # 0 /\ Pipe[i].guard = reg'.runs[Pipe[i].run]
                        /\ reg'.heap[Pipe[i].guard].del = "in_flight"
      OBVIOUS
    <3>1. i \in Pending /\ i # k /\ i \in 1..PipeLen /\ Pipe[i].run \in Runs
      BY <1>6, PipeFacts DEF Commands
    <3>2. /\ Pipe[i].guard # 0 /\ Pipe[i].guard = reg.runs[Pipe[i].run]
          /\ reg.heap[Pipe[i].guard].del = "in_flight"
      BY <2>1, <3>1 DEF ProtocolInv, DeleteInv
    <3>3. Pipe[i].guard \in 1..n
      BY <1>11, <3>1, <3>2
    <3>4. Pipe[i].guard # Applying.guard
      BY <1>2, <1>3, <3>1, <3>2 DEF ProtocolInv, GuardInv
    <3>5. reg'.runs[Pipe[i].run] = reg.runs[Pipe[i].run]
      BY <1>22, <2>2, <3>1, <3>2, <3>3, <3>4
    <3> QED BY <1>14, <3>2, <3>3, <3>5
  <2>4. \A d \in Senders : call[d].kind = "run_deleted" /\ call[d].run \notin reg'.forgotten =>
          /\ call[d].arc # 0 /\ call[d].arc = reg'.runs[call[d].run]
          /\ reg'.heap[call[d].arc].del = "in_flight"
    <3> SUFFICES ASSUME NEW d \in Senders, call[d].kind = "run_deleted",
                        call[d].run \notin reg'.forgotten
                 PROVE  /\ call[d].arc # 0 /\ call[d].arc = reg'.runs[call[d].run]
                        /\ reg'.heap[call[d].arc].del = "in_flight"
      OBVIOUS
    <3>1. d \in Calling /\ call[d].run \in Runs
      BY <1>7 DEF ProtocolInv, CallInv, Calling
    <3>2. /\ call[d].arc # 0 /\ call[d].arc = reg.runs[call[d].run]
          /\ reg.heap[call[d].arc].del = "in_flight"
      BY <2>1, <3>1 DEF ProtocolInv, DeleteInv
    <3>3. call[d].arc \in 1..n
      BY <1>12, <3>1, <3>2
    <3>4. Applying.guard # 0 => call[d].arc # Applying.guard
      BY <1>2, <1>3 DEF ProtocolInv, GuardInv
    <3>5. reg'.runs[call[d].run] = reg.runs[call[d].run]
      BY <1>22, <2>2, <3>1, <3>2, <3>3, <3>4
    <3> QED BY <1>14, <3>2, <3>3, <3>5
  <2>5. \A d \in Clients : pc[d] = "lookup" /\ call[d].run \notin reg'.forgotten =>
          reg'.runs[call[d].run] # 0
    <3>1. \A d \in Clients : pc[d] = "lookup" => call[d].run \in Runs
      BY DEF ProtocolInv, CallInv
    <3> QED BY <2>1, <3>1 DEF ProtocolInv, DeleteInv
  <2>6. \A d \in Deleters : call[d].run \notin reg'.forgotten =>
          /\ reg'.runs[call[d].run] # 0
          /\ \/ call[d].arc = reg'.runs[call[d].run]
             \/ reg'.heap[call[d].arc].del = "deleted"
             \/ Applying.guard # 0 /\ Applying.guard = call[d].arc
    <3> SUFFICES ASSUME NEW d \in Deleters, call[d].run \notin reg'.forgotten
                 PROVE  /\ reg'.runs[call[d].run] # 0
                        /\ \/ call[d].arc = reg'.runs[call[d].run]
                           \/ reg'.heap[call[d].arc].del = "deleted"
                           \/ Applying.guard # 0 /\ Applying.guard = call[d].arc
      OBVIOUS
    <3>1. d \in Calling /\ call[d].run \in Runs /\ call[d].arc # 0
      BY <1>7 DEF ProtocolInv, CallInv, Calling
    <3>2. call[d].arc \in 1..n
      BY <1>12, <3>1
    <3>3. /\ reg.runs[call[d].run] # 0
          /\ \/ call[d].arc = reg.runs[call[d].run]
             \/ reg.heap[call[d].arc].del = "deleted"
      BY <1>8, <2>1, <3>1 DEF ProtocolInv, DeleteInv
    <3>4. CASE reg.heap[call[d].arc].del = "deleted"
      BY <1>14, <2>1, <3>1, <3>2, <3>3, <3>4
    <3>5. CASE call[d].arc = reg.runs[call[d].run]
      BY <1>22, <2>1, <2>2, <3>1, <3>2, <3>3, <3>5
    <3> QED BY <3>3, <3>4, <3>5
  <2> QED BY <1>1, <1>5, <1>6, <1>7, <1>17, <2>3, <2>4, <2>5, <2>6 DEF DeleteInv, Committing, Settling
<1>24. BirthInv'
  <2>1. \A r \in Runs : reg'.runs[r] # 0 => Recorded(r)'
    BY <1>8, <1>9, <1>15 DEF ProtocolInv, BirthInv
  <2>2. \A a \in acked' : a.seq <= next_seq'
    <3>1. \A a \in acked : a.seq \in Nat /\ a.seq <= next_seq
      BY <1>8 DEF IInv, FileInv, AckedInv, ProtocolInv, BirthInv
    <3> QED BY <1>1, <1>2, <3>1
  <2>3. \A r \in Runs : Recorded(r)' =>
          /\ \A i \in Pending' : Pipe[i].run = r => Pipe[i].kind # "run_created"
          /\ \A c \in Calling : call[c].run = r => call[c].kind # "run_created"
    <3> SUFFICES ASSUME NEW r \in Runs, Recorded(r)'
                 PROVE  /\ \A i \in Pending' : Pipe[i].run = r => Pipe[i].kind # "run_created"
                        /\ \A c \in Calling : call[c].run = r => call[c].kind # "run_created"
      OBVIOUS
    <3>1. CASE Recorded(r)
      BY <1>6, <1>8, <3>1 DEF ProtocolInv, BirthInv
    <3>2. CASE ~Recorded(r)
      <4>1. r = e.run /\ Pipe[k].run = r
        BY <1>3, <1>9, <3>2
      <4>2. /\ \A i \in Pending : Pipe[i].run = r => i = k
            /\ \A c \in Calling : call[c].run # r
        BY <1>6, <1>8, <3>2, <4>1 DEF ProtocolInv, BirthInv
      <4> QED BY <1>6, <4>2
    <3> QED BY <3>1, <3>2
  <2>4. \A r \in Runs : ~Recorded(r)' =>
          /\ \A i, j \in Pending' : Pipe[i].run = r /\ Pipe[j].run = r => i = j
          /\ \A i \in Pending', c \in Calling : Pipe[i].run = r => call[c].run # r
          /\ \A c, d \in Calling : call[c].run = r /\ call[d].run = r => c = d
          /\ gen[r] # "live"
    BY <1>6, <1>8, <1>9 DEF ProtocolInv, BirthInv
  <2>5. \A r \in Runs : gen[r] = "unused" =>
          /\ \A i \in 1..Len(file) : file[i].run # r
          /\ \A i \in Pending' : Pipe[i].run # r
          /\ \A c \in Calling : call[c].run # r
    BY <1>6, <1>8 DEF ProtocolInv, BirthInv
  <2> QED BY <1>1, <1>5, <1>6, <1>7, <2>1, <2>2, <2>3, <2>4, <2>5 DEF BirthInv
<1> QED BY <1>18, <1>19, <1>20, <1>21, <1>23, <1>24 DEF ProtocolInv

(* The fold of build_run_registry, its function of sets written out. *)
IsFold(it, D, ev, base) ==
  it = [s \in SUBSET D |->
          IF s = {} THEN base
          ELSE ReplayEvent(it[s \ {LastIndex(s)}], ev[LastIndex(s)])]
FoldOn(D, ev, base) == CHOOSE it : IsFold(it, D, ev, base)

(* MapThenFoldSet on the log is that function.                             *)
LEMMA FoldDef ==
  ASSUME NEW ev, NEW forg
  PROVE  BuildRunRegistry(ev, forg) =
           FoldOn(DOMAIN ev, ev, [EmptyRegistry EXCEPT !.forgotten = forg])[DOMAIN ev]
  BY Zenon DEF BuildRunRegistry, MapThenFoldSet, FoldOn, IsFold

(* The recursion that the fold asks for has a solution. *)
LEMMA FoldExists ==
  ASSUME NEW n \in Nat, NEW ev, NEW base
  PROVE  \E it : IsFold(it, 1..n, ev, base)
<1> DEFINE T == {m \in Nat : \E it : IsFold(it, 1..m, ev, base)}
<1>1. 0 \in T
  <2> DEFINE it == [s \in SUBSET (1..0) |-> base]
  <2>1. \A s \in SUBSET (1..0) : s = {}
    OBVIOUS
  <2>2. IsFold(it, 1..0, ev, base)
    BY <2>1 DEF IsFold
  <2> QED BY <2>2
<1>2. ASSUME NEW m \in T PROVE m + 1 \in T
  <2>1. PICK g : IsFold(g, 1..m, ev, base)
    OBVIOUS
  <2> DEFINE h == [s \in SUBSET (1..m + 1) |->
                     IF m + 1 \in s
                     THEN ReplayEvent(g[s \ {m + 1}], ev[m + 1])
                     ELSE g[s]]
  <2>2. ASSUME NEW s \in SUBSET (1..m + 1)
        PROVE  h[s] = IF s = {} THEN base
                      ELSE ReplayEvent(h[s \ {LastIndex(s)}], ev[LastIndex(s)])
    <3>1. CASE m + 1 \in s
      <4>1. LastIndex(s) = m + 1 /\ s # {}
        BY <3>1, LastIndexFacts
      <4>2. s \ {m + 1} \in SUBSET (1..m + 1) /\ m + 1 \notin s \ {m + 1}
        OBVIOUS
      <4>3. h[s \ {m + 1}] = g[s \ {m + 1}]
        BY <4>2
      <4>4. h[s] = ReplayEvent(g[s \ {m + 1}], ev[m + 1])
        BY <3>1
      <4> HIDE DEF h
      <4> QED BY <4>1, <4>3, <4>4
    <3>2. CASE m + 1 \notin s
      <4>a. \A j \in s : j \in 1..m
        <5>1. \A j \in 1..m + 1 : j # m + 1 => j \in 1..m
          OBVIOUS
        <5> QED BY <3>2, <5>1
      <4>1. s \in SUBSET (1..m) /\ s \ {LastIndex(s)} \in SUBSET (1..m)
            /\ m + 1 \notin s \ {LastIndex(s)} /\ s \ {LastIndex(s)} \in SUBSET (1..m + 1)
        BY <3>2, <4>a
      <4>2. h[s] = g[s] /\ h[s \ {LastIndex(s)}] = g[s \ {LastIndex(s)}]
        BY <3>2, <4>1
      <4>3. g[s] = IF s = {} THEN base
                   ELSE ReplayEvent(g[s \ {LastIndex(s)}], ev[LastIndex(s)])
        BY <2>1, <4>1 DEF IsFold
      <4> HIDE DEF h
      <4> QED BY <4>2, <4>3
    <3> QED BY <3>1, <3>2
  <2>3. h = [s \in SUBSET (1..m + 1) |-> h[s]]
    OBVIOUS
  <2> HIDE DEF h
  <2>4. IsFold(h, 1..m + 1, ev, base)
    BY <2>2, <2>3 DEF IsFold
  <2> QED BY <2>4
<1>3. T = Nat
  <2> HIDE DEF T
  <2>1. T \in SUBSET Nat
    BY DEF T
  <2> QED BY <1>1, <1>2, <2>1, Induction
<1> QED BY <1>3

(* build_run_registry takes the records one by one, in the order of the log. *)
LEMMA ReplayFacts ==
  ASSUME NEW n \in Nat, NEW ev, DOMAIN ev = 1..n, NEW forg
  PROVE  \E f : /\ f[0] = [EmptyRegistry EXCEPT !.forgotten = forg]
                /\ \A k \in 0..n - 1 : f[k + 1] = ReplayEvent(f[k], ev[k + 1])
                /\ f[n] = BuildRunRegistry(ev, forg)
<1> DEFINE base == [EmptyRegistry EXCEPT !.forgotten = forg]
           it == FoldOn(1..n, ev, base)
           f == [k \in 0..n |-> it[1..k]]
<1> HIDE DEF base
<1>1. it = [s \in SUBSET (1..n) |->
              IF s = {} THEN base
              ELSE ReplayEvent(it[s \ {LastIndex(s)}], ev[LastIndex(s)])]
  <2>1. \E g : IsFold(g, 1..n, ev, base)
    BY FoldExists
  <2>2. IsFold(it, 1..n, ev, base)
    BY <2>1, Zenon DEF FoldOn
  <2> HIDE DEF it
  <2> QED BY <2>2 DEF IsFold
<1> HIDE DEF it
<1>2. f[0] = base
  <2>1. 1..0 = {} /\ {} \in SUBSET (1..n)
    OBVIOUS
  <2>2. it[{}] = base
    BY <1>1, <2>1
  <2> QED BY <2>1, <2>2
<1>3. ASSUME NEW k \in 0..n - 1 PROVE f[k + 1] = ReplayEvent(f[k], ev[k + 1])
  <2>1. LastIndex(1..k + 1) = k + 1
    BY LastIndexFacts
  <2>2. (1..k + 1) \ {k + 1} = 1..k /\ 1..k + 1 # {} /\ (1..k + 1) \in SUBSET (1..n)
    OBVIOUS
  <2>3. it[1..k + 1] = ReplayEvent(it[(1..k + 1) \ {LastIndex(1..k + 1)}],
                                   ev[LastIndex(1..k + 1)])
    BY <1>1, <2>2
  <2>4. k \in 0..n /\ k + 1 \in 0..n
    OBVIOUS
  <2> QED BY <2>1, <2>2, <2>3, <2>4
<1>4. f[n] = BuildRunRegistry(ev, forg)
  BY FoldDef DEF it, base
<1> HIDE DEF f
<1> QED BY <1>2, <1>3, <1>4 DEF base

(* What the first k records of a log say of the runs that g remembers. *)
Says(log, k, r, kind) == \E i \in 1..k : log[i].run = r /\ log[i].kind = kind
Mentions(log, k, r) == \E i \in 1..k : log[i].run = r
Tells(g, log, k) ==
  \A r \in Runs \ g.forgotten :
    /\ Summary(g, r) = [created |-> Says(log, k, r, "run_created"),
                        deleted |-> Says(log, k, r, "run_deleted")]
    /\ Present(g, r) <=> Mentions(log, k, r)

(* The registry a structural event leaves tells its record too. *)
LEMMA StructuralTells ==
  ASSUME NEW g, IsRegistry(g), \A r \in Runs : g.runs[r] <= Len(g.heap),
         NEW h, NEW log, NEW k \in Nat, Tells(g, log, k), Inserts(g, h, log[k + 1])
  PROVE  Tells(h, log, k + 1)
<1> DEFINE e == log[k + 1]
           n == Len(g.heap)
<1>0. /\ n \in Nat /\ \A r \in Runs : g.runs[r] \in 0..n
      /\ g.forgotten \subseteq h.forgotten
      /\ \A o \in 1..n : h.heap[o] = g.heap[o]
      /\ h.heap[n + 1].created = (Summary(g, e.run).created \/ e.kind = "run_created")
      /\ h.heap[n + 1].del =
           IF Summary(g, e.run).deleted \/ e.kind = "run_deleted" THEN "deleted" ELSE "live"
      /\ \A r \in Runs : \/ h.runs[r] = IF r = e.run THEN n + 1 ELSE g.runs[r]
                         \/ h.runs[r] = 0 /\ r \in h.forgotten
  <2>1. n \in Nat /\ \A r \in Runs : g.runs[r] \in Nat
    BY LenProperties DEF IsRegistry
  <2> QED BY <2>1 DEF Inserts
<1> HIDE DEF n
<1> SUFFICES ASSUME NEW r \in Runs \ h.forgotten
             PROVE  /\ Summary(h, r) = [created |-> Says(log, k + 1, r, "run_created"),
                                        deleted |-> Says(log, k + 1, r, "run_deleted")]
                    /\ Present(h, r) <=> Mentions(log, k + 1, r)
  BY DEF Tells
<1>1. /\ Summary(g, r) = [created |-> Says(log, k, r, "run_created"),
                          deleted |-> Says(log, k, r, "run_deleted")]
      /\ Present(g, r) <=> Mentions(log, k, r)
  BY <1>0 DEF Tells
<1>2. \A i : i \in 1..k + 1 <=> i \in 1..k \/ i = k + 1
  OBVIOUS
<1>3. /\ \A kind : Says(log, k + 1, r, kind) <=>
                     Says(log, k, r, kind) \/ (e.run = r /\ e.kind = kind)
      /\ Mentions(log, k + 1, r) <=> Mentions(log, k, r) \/ e.run = r
  BY <1>2 DEF Says, Mentions
<1>4. CASE r = e.run
  <2>1. h.runs[r] = n + 1 /\ Present(h, r)
    BY <1>0, <1>4 DEF Present
  <2>2. Summary(h, r) = [created |-> h.heap[n + 1].created, deleted |-> h.heap[n + 1].del = "deleted"]
    BY <2>1, Zenon DEF Summary, Deleted
  <2>a. /\ Summary(g, r).created = Says(log, k, r, "run_created")
        /\ Summary(g, r).deleted = Says(log, k, r, "run_deleted")
    BY <1>1
  <2>b. \A kind : Says(log, k + 1, r, kind) = (Says(log, k, r, kind) \/ e.kind = kind)
    BY <1>3, <1>4 DEF Says
  <2>3. h.heap[n + 1].created = Says(log, k + 1, r, "run_created")
    BY <1>0, <1>4, <2>a, <2>b
  <2>4. (h.heap[n + 1].del = "deleted") = Says(log, k + 1, r, "run_deleted")
    BY <1>0, <1>4, <2>a, <2>b DEF Says
  <2> QED BY <1>3, <1>4, <2>1, <2>2, <2>3, <2>4
<1>5. CASE r # e.run
  <2>1. h.runs[r] = g.runs[r] /\ (Present(h, r) <=> Present(g, r))
    BY <1>0, <1>5 DEF Present
  <2>2. Present(g, r) => h.heap[g.runs[r]] = g.heap[g.runs[r]]
    <3>1. Present(g, r) => g.runs[r] \in 1..n
      BY <1>0 DEF Present
    <3> QED BY <1>0, <3>1
  <2>3. Summary(h, r) = Summary(g, r)
    BY <2>1, <2>2, Zenon DEF Summary, Deleted
  <2>4. /\ \A kind : Says(log, k + 1, r, kind) = Says(log, k, r, kind)
        /\ Mentions(log, k + 1, r) <=> Mentions(log, k, r)
    BY <1>3, <1>5 DEF Says
  <2> QED BY <1>1, <2>1, <2>3, <2>4
<1> QED BY <1>4, <1>5

(* What replaying the first k records leaves: a registry without claims     *)
(* that tells those records.                                                *)
Replayed(g, log, k, forg) ==
  /\ IsRegistry(g) /\ forg \subseteq g.forgotten
  /\ \A r \in Runs : g.runs[r] <= Len(g.heap)
  /\ \A r, s \in Runs : g.runs[r] = g.runs[s] /\ g.runs[r] # 0 => r = s
  /\ \A o \in 1..Len(g.heap) : g.heap[o].del # "in_flight"
  /\ \A r \in Runs : g.runs[r] # 0 => Mentions(log, k, r)
  /\ Tells(g, log, k)

(* Before the first record.                                                *)
LEMMA EmptyIsReplayed ==
  ASSUME NEW log, NEW forg \in SUBSET Runs
  PROVE  Replayed([EmptyRegistry EXCEPT !.forgotten = forg], log, 0, forg)
<1> DEFINE g == [EmptyRegistry EXCEPT !.forgotten = forg]
<1>1. /\ g = [runs |-> g.runs, heap |-> g.heap, order |-> g.order, forgotten |-> g.forgotten]
      /\ g.runs = [r \in Runs |-> 0] /\ g.heap = <<>> /\ g.order = <<>> /\ g.forgotten = forg
  BY DEF EmptyRegistry
<1> HIDE DEF g
<1>2. g.heap \in Seq(RunStates) /\ g.order \in Seq(Runs) /\ Len(g.heap) = 0
  BY <1>1, EmptySeq
<1>3. \A r \in Runs : g.runs[r] = 0 /\ ~Present(g, r)
  BY <1>1 DEF Present
<1>4. IsRegistry(g)
  BY <1>1, <1>2, <1>3 DEF IsRegistry
<1>5. \A r : /\ \A kind : Says(log, 0, r, kind) = FALSE
             /\ Mentions(log, 0, r) = FALSE
  BY DEF Says, Mentions
<1>6. Tells(g, log, 0)
  BY <1>3, <1>5 DEF Tells, Summary, DefaultSummary
<1>7. \A o : o \notin 1..0
  OBVIOUS
<1> HIDE DEF g
<1>8. Replayed(g, log, 0, forg)
  BY <1>1, <1>2, <1>3, <1>4, <1>6, <1>7 DEF Replayed
<1> QED BY <1>8 DEF g

(* One record more.                                                        *)
LEMMA StepIsReplayed ==
  ASSUME NEW g, NEW h, NEW log, NEW k \in Nat, NEW forg, Replayed(g, log, k, forg),
         log[k + 1].run \in Runs, log[k + 1].kind \in Kinds,
         h = ReplayEvent(g, log[k + 1])
  PROVE  Replayed(h, log, k + 1, forg)
<1> DEFINE e == log[k + 1]
           n == Len(g.heap)
<1>0. Inserts(g, h, e)
  <2>1. IsRegistry(g) /\ \A r \in Runs : g.runs[r] <= Len(g.heap)
    BY DEF Replayed
  <2> HIDE DEF e
  <2>2. e.run \in Runs /\ e.kind \in Kinds /\ h = ReplayEvent(g, e)
    BY DEF e
  <2> QED BY <2>1, <2>2, ReplayEventFacts
<1>1. /\ IsRegistry(h) /\ Len(h.heap) = n + 1
      /\ \A o \in 1..n : h.heap[o] = g.heap[o]
      /\ h.heap[n + 1].del \in {"live", "deleted"}
      /\ g.forgotten \subseteq h.forgotten
      /\ \A r \in Runs : \/ h.runs[r] = IF r = e.run THEN n + 1 ELSE g.runs[r]
                         \/ h.runs[r] = 0 /\ r \in h.forgotten
  BY <1>0 DEF Inserts
<1>2. n \in Nat /\ \A r \in Runs : g.runs[r] \in 0..n
  <2>1. n \in Nat /\ \A r \in Runs : g.runs[r] \in Nat
    BY LenProperties DEF Replayed, IsRegistry
  <2> QED BY <2>1 DEF Replayed
<1>4. Tells(h, log, k + 1)
  BY <1>0, StructuralTells DEF Replayed
<1> HIDE DEF e, n
<1>5. \A r \in Runs : h.runs[r] <= Len(h.heap)
  BY <1>1, <1>2
<1>6. \A r, s \in Runs : h.runs[r] = h.runs[s] /\ h.runs[r] # 0 => r = s
  BY <1>1, <1>2 DEF Replayed
<1>7. \A o \in 1..Len(h.heap) : h.heap[o].del # "in_flight"
  <2> TAKE o \in 1..Len(h.heap)
  <2>1. CASE o \in 1..n
    BY <1>1, <2>1 DEF Replayed, n
  <2>2. CASE o = n + 1
    BY <1>1, <2>2
  <2> QED BY <1>1, <1>2, <2>1, <2>2
<1>8. \A r \in Runs : h.runs[r] # 0 => Mentions(log, k + 1, r)
  <2>1. \A i \in 1..k : i \in 1..k + 1
    OBVIOUS
  <2>2. k + 1 \in 1..k + 1
    OBVIOUS
  <2>3. Mentions(log, k + 1, e.run)
    BY <2>2 DEF Mentions, e
  <2>4. \A r \in Runs : Mentions(log, k, r) => Mentions(log, k + 1, r)
    BY <2>1 DEF Mentions
  <2> QED BY <1>1, <2>3, <2>4 DEF Replayed
<1>9. forg \subseteq h.forgotten
  BY <1>1 DEF Replayed
<1> QED BY <1>1, <1>4, <1>5, <1>6, <1>7, <1>8, <1>9 DEF Replayed

(* The registry of a restart tells the whole log. *)
LEMMA ReplayTells ==
  ASSUME NEW n \in Nat, NEW log, DOMAIN log = 1..n, NEW forg \in SUBSET Runs,
         \A i \in 1..n : log[i].run \in Runs /\ log[i].kind \in Kinds
  PROVE  Replayed(BuildRunRegistry(log, forg), log, n, forg)
<1>1. PICK f : /\ f[0] = [EmptyRegistry EXCEPT !.forgotten = forg]
               /\ \A k \in 0..n - 1 : f[k + 1] = ReplayEvent(f[k], log[k + 1])
               /\ f[n] = BuildRunRegistry(log, forg)
  BY ReplayFacts
<1> DEFINE T == {k \in Nat : k <= n => Replayed(f[k], log, k, forg)}
<1>2. 0 \in T
  BY <1>1, EmptyIsReplayed
<1>3. ASSUME NEW k \in T PROVE k + 1 \in T
  <2> SUFFICES ASSUME k + 1 <= n PROVE Replayed(f[k + 1], log, k + 1, forg)
    OBVIOUS
  <2>1. k \in 0..n - 1 /\ k + 1 \in 1..n /\ k \in Nat /\ Replayed(f[k], log, k, forg)
    OBVIOUS
  <2>2. f[k + 1] = ReplayEvent(f[k], log[k + 1])
    BY <1>1, <2>1
  <2> HIDE DEF T
  <2> QED BY <2>1, <2>2, StepIsReplayed
<1>4. T = Nat
  <2>1. T \in SUBSET Nat
    OBVIOUS
  <2> HIDE DEF T
  <2> QED BY <1>2, <1>3, <2>1, Induction
<1>5. n \in T
  BY <1>4
<1> QED BY <1>1, <1>5

(* With nothing on the way and nobody calling, only the registry is left.   *)
LEMMA EmptyKeepsProtocol ==
  ASSUME ~Settling', PipeLen' = 0, drop' = 0, \A c \in Clients : pc'[c] = "idle",
         IsRegistry(reg'), \A r \in Runs : reg'.runs[r] <= Len(reg'.heap),
         \A r, s \in Runs : reg'.runs[r] = reg'.runs[s] /\ reg'.runs[r] # 0 => r = s,
         \A o \in 1..Len(reg'.heap) : reg'.heap[o].del # "in_flight", BirthInv'
  PROVE  ProtocolInv'
<1>1. \A i : i \notin 1..PipeLen' /\ i \notin Pending'
  BY DEF Pending
<1>2. Calling' = {} /\ Senders' = {} /\ Deleters' = {} /\ Objects' = 1..Len(reg'.heap)
  BY DEF Calling, Senders, Deleters, Objects
<1>3. CallInv'
  BY <1>2 DEF CallInv
<1>4. ReplyInv'
  BY <1>1 DEF ReplyInv
<1>5. OwnerInv'
  <2>1. 0 <= Len(reg'.heap)
    BY LenProperties DEF IsRegistry
  <2> QED BY <1>1, <1>2, <2>1 DEF OwnerInv, Settling
<1>6. GuardInv'
  <2>1. \A o \in Objects' : o # 0
    BY <1>2
  <2> QED BY <1>1, <1>2, <2>1 DEF GuardInv
<1>7. DeleteInv'
  BY <1>1, <1>2 DEF DeleteInv
<1> QED BY <1>3, <1>4, <1>5, <1>6, <1>7 DEF ProtocolInv

(* A crash keeps a prefix of the file. *)
LEMMA CrashFile ==
  ASSUME IInv, Crash
  PROVE  /\ Len(file') \in Nat /\ Len(file') <= Len(file) /\ Len(file) \in Nat
         /\ \A i \in 1..Len(file') : i \in 1..Len(file) /\ file'[i] = file[i]
<1>1. IsSeq(file) /\ Len(file) \in Nat /\ durable \in Nat
  BY SeqFacts DEF IInv, FileInv
<1>2. CASE UNCHANGED W!disk
  BY <1>1, <1>2 DEF W!disk
<1>3. CASE ~UNCHANGED W!disk
  <2>1. PICK k \in durable..Len(file) : file' = SubSeq(file, 1, k)
    BY <1>3 DEF Crash, W!ProcessCrash, W!PowerLoss
  <2>2. k \in 0..Len(file) /\ k \in Nat
    BY <1>1
  <2>3. Len(file') = k /\ \A i \in 1..k : file'[i] = file[i] /\ i \in 1..Len(file)
    BY <1>1, <2>1, <2>2, PrefixFacts
  <2> QED BY <1>1, <2>2, <2>3
<1> QED BY <1>2, <1>3

(* An empty pipeline, whatever there was before. *)
LEMMA NothingOnTheWay ==
  ASSUME queue' = <<>>, deferred' = None, staged' = <<>>
  PROVE  PipeLen' = 0
<1>1. Len(<<>>) = 0
  BY EmptySeq
<1> QED BY <1>1 DEF PipeLen, Held

(* A crash leaves no call, no command and no registry. *)
LEMMA CrashKeepsProtocol ==
  ASSUME IInv, TypeInv, Crash
  PROVE  TypeInv' /\ BatchInv' /\ ProtocolInv'
<1>1. /\ queue' = <<>> /\ deferred' = None /\ wpc' = "down" /\ staged' = <<>> /\ drop' = 0
      /\ pc' = [c \in Clients |-> "idle"] /\ call' = [c \in Clients |-> NoCall]
      /\ reg' = [EmptyRegistry EXCEPT !.forgotten = reg.forgotten] /\ gen' = gen
  BY DEF Crash
<1>2. Replayed(reg', file, 0, reg.forgotten)
  BY <1>1, EmptyIsReplayed DEF TypeInv, IsRegistry
<1>3. TypeInv'
  <2>1. <<>> \in Seq(Commands) /\ <<>> \in Seq(StagedAppends)
    BY EmptySeq
  <2>2. IsRegistry(reg')
    BY <1>2 DEF Replayed
  <2>3. NoCall \in [run : Runs \cup {None}, kind : Kinds, arc : Nat] /\ "idle" \in ClientPCs
    BY DEF NoCall, Kinds, ClientPCs
  <2>4. \A i \in 1..Len(file') : file'[i] \in TimelineEvent
    BY CrashFile DEF TypeInv
  <2> QED BY <1>1, <2>1, <2>2, <2>3, <2>4 DEF TypeInv
<1>4. BatchInv'
  <2>1. Len(<<>>) = 0 /\ \A i : i \notin 1..0
    BY EmptySeq
  <2> QED BY <1>1, <2>1 DEF BatchInv
<1>5. ProtocolInv'
  <2>1. BirthInv'
    BY <1>1 DEF BirthInv, Running
  <2>2. \A c \in Clients : pc'[c] = "idle"
    BY <1>1
  <2>3. PipeLen' = 0
    BY <1>1, NothingOnTheWay
  <2> QED BY <1>1, <1>2, <2>1, <2>2, <2>3, EmptyKeepsProtocol DEF Replayed, Settling
<1> QED BY <1>3, <1>4, <1>5

(* A writer that is down holds no claim, and nothing is on the way. *)
LEMMA DownFacts ==
  ASSUME IInv, BatchInv, ProtocolInv, wpc = "down"
  PROVE  /\ queue = <<>> /\ deferred = None /\ staged = <<>> /\ drop = 0 /\ PipeLen = 0
         /\ \A c \in Clients : pc[c] = "idle"
         /\ \A o \in 1..Len(reg.heap) : reg.heap[o].del # "in_flight"
<1>1. /\ queue = <<>> /\ deferred = None /\ staged = <<>> /\ drop = 0
      /\ \A c \in Clients : pc[c] = "idle"
  BY DEF IInv, WriterInv, BatchInv
<1>2. PipeLen = 0
  BY <1>1, EmptySeq DEF PipeLen, Held
<1>3. \A i : i \notin 1..PipeLen
  BY <1>2
<1>4. Senders = {}
  BY <1>1 DEF Senders
<1>5. \A o \in Objects : reg.heap[o].del # "in_flight"
  <2>1. \A o \in Objects : o # 0
    BY DEF Objects
  <2> QED BY <1>1, <1>3, <1>4, <2>1 DEF ProtocolInv, GuardInv
<1> QED BY <1>1, <1>2, <1>5 DEF Objects

(* Opening the log is nobody else's business. *)
LEMMA OpenKeepsProtocol ==
  ASSUME IInv, TypeInv, BatchInv, ProtocolInv, OpenStep
  PROVE  TypeInv' /\ BatchInv' /\ ProtocolInv' /\ file' = file
<1>1. /\ wpc = "down" /\ file' = file
      /\ UNCHANGED <<queue, deferred, wpc, staged, drop, reg, gen, pc, call>>
  BY DEF OpenStep, writer, clients, W!OpenScan, W!OpenTruncate, W!OpenSync, W!OpenFail, W!disk
<1>2. TypeInv'
  BY <1>1 DEF TypeInv
<1>3. BatchInv'
  BY <1>1 DEF BatchInv
<1>4. ProtocolInv'
  <2>1. BirthInv'
    BY <1>1 DEF BirthInv, Running
  <2>2. /\ drop = 0 /\ \A c \in Clients : pc[c] = "idle"
        /\ \A o \in 1..Len(reg.heap) : reg.heap[o].del # "in_flight"
        /\ queue = <<>> /\ deferred = None /\ staged = <<>>
    BY <1>1, DownFacts
  <2>3. PipeLen' = 0
    BY <1>1, <2>2, NothingOnTheWay
  <2>4. /\ IsRegistry(reg) /\ \A r \in Runs : reg.runs[r] <= Len(reg.heap)
        /\ \A r, s \in Runs : reg.runs[r] = reg.runs[s] /\ reg.runs[r] # 0 => r = s
    BY DEF TypeInv, ProtocolInv, OwnerInv
  <2> QED BY <1>1, <2>1, <2>2, <2>3, <2>4, EmptyKeepsProtocol DEF Settling
<1> QED BY <1>1, <1>2, <1>3, <1>4

(* A restart continues with what the log tells. *)
LEMMA RestoreKeepsProtocol ==
  ASSUME IInv, TypeInv, BatchInv, ProtocolInv, Restore
  PROVE  /\ TypeInv' /\ BatchInv' /\ ProtocolInv' /\ file' = file
         /\ Replayed(reg', file, Len(file), reg.forgotten)
<1>1. /\ wpc = "down" /\ wpc' = "recv" /\ next_seq' = Len(file)
      /\ reg' = BuildRunRegistry(file, reg.forgotten)
      /\ gen' = [r \in Runs |-> IF \E i \in DOMAIN file : file[i].run = r
                                THEN "joined" ELSE "unused"]
      /\ UNCHANGED <<file, queue, deferred, staged, drop, pc, call, acked>>
  BY DEF Restore, Wal, clients, history
<1>2. Len(file) \in Nat /\ DOMAIN file = 1..Len(file)
  BY SeqFacts DEF IInv, FileInv
<1>3. \A i \in 1..Len(file) : file[i].run \in Runs /\ file[i].kind \in Kinds
  BY DEF TypeInv, TimelineEvent
<1>4. Replayed(reg', file, Len(file), reg.forgotten)
  BY <1>1, <1>2, <1>3, ReplayTells DEF TypeInv, IsRegistry
<1>5. TypeInv'
  <2>1. IsRegistry(reg') /\ gen' \in [Runs -> Generations]
    BY <1>1, <1>4 DEF Replayed, Generations
  <2> QED BY <1>1, <2>1 DEF TypeInv
<1>6. /\ drop = 0 /\ \A c \in Clients : pc[c] = "idle"
      /\ queue = <<>> /\ deferred = None /\ staged = <<>>
  BY <1>1, DownFacts
<1>7. BatchInv'
  <2>1. Len(<<>>) = 0 /\ \A i : i \notin 1..0
    BY EmptySeq
  <2> QED BY <1>1, <1>6, <2>1 DEF BatchInv
<1>8. PipeLen' = 0
  BY <1>1, <1>6, NothingOnTheWay
<1>9. BirthInv'
  <2>1. \A i : i \notin Pending'
    BY <1>8 DEF Pending
  <2>2. Calling' = {}
    BY <1>1, <1>6 DEF Calling
  <2>3. \A r : Recorded(r)' <=> Mentions(file, Len(file), r)
    BY <1>1 DEF Recorded, Mentions
  <2>4. \A e \in acked' : e.seq <= next_seq'
    <3>1. durable \in Nat /\ durable <= Len(file)
      BY DEF IInv, FileInv
    <3> QED BY <1>1, <1>2, <3>1 DEF IInv, AckedInv
  <2>5. \A r \in Runs : gen'[r] # "live"
                        /\ (gen'[r] = "unused" => \A i \in 1..Len(file) : file[i].run # r)
    BY <1>1, <1>2
  <2> QED BY <1>1, <1>4, <2>1, <2>2, <2>3, <2>4, <2>5 DEF BirthInv, Replayed
<1>10. ProtocolInv'
  BY <1>1, <1>4, <1>6, <1>8, <1>9, EmptyKeepsProtocol DEF Replayed, Settling
<1> QED BY <1>1, <1>4, <1>5, <1>7, <1>10

(* What the log and the registry tell does not change. *)
SameStory ==
  /\ reg'.runs = reg.runs /\ reg'.forgotten = reg.forgotten /\ next_seq' = next_seq
  /\ Running' => Running
  /\ \A i \in 1..next_seq : file'[i] = file[i]
  /\ \A r \in Runs : reg.runs[r] # 0 =>
       LET o == reg.runs[r]
       IN /\ reg'.heap[o].created = reg.heap[o].created
          /\ reg'.heap[o].del = "deleted" <=> reg.heap[o].del = "deleted"

Calls == [run : Runs \cup {None}, kind : Kinds, arc : Nat]

(* What a returned call leaves.                                            *)
LEMMA NoCallFacts == NoCall \in Calls /\ {"idle", "send", "arm"} \subseteq ClientPCs
  BY DEF NoCall, Calls, Kinds, ClientPCs

(* What a caller's step leaves of the types and the batch. *)
LEMMA CallerKeepsTypes ==
  ASSUME TypeInv, BatchInv, Running, UNCHANGED <<Wal, writer>>,
         queue' \in Seq(Commands), IsRegistry(reg'), pc' \in [Clients -> ClientPCs],
         call' \in [Clients -> Calls], gen' \in [Runs -> Generations]
  PROVE  TypeInv' /\ BatchInv'
<1>1. UNCHANGED <<file, deferred, wpc, staged, drop>> /\ wpc # "down"
  BY DEF Wal, writer, Running
<1>2. TypeInv'
  BY <1>1 DEF TypeInv, Calls
<1>3. BatchInv'
  BY <1>1 DEF BatchInv
<1> QED BY <1>2, <1>3

(* Claims and waiters are not part of the story. *)
LEMMA SameRegistry ==
  ASSUME TypeInv, OwnerInv, UNCHANGED <<Wal, writer>>,
         reg' = reg \/ SameClaims \/ (\E o : DeleteSet(o, "in_flight") /\ reg.heap[o].del # "deleted")
           \/ (\E o : DeleteSet(o, RolledBack(o)))
  PROVE  SameStory
<1>1. UNCHANGED <<file, wpc, next_seq>>
  BY DEF Wal, writer
<1>2. \A r \in Runs : reg.runs[r] # 0 => reg.runs[r] \in Objects
  BY DEF TypeInv, IsRegistry, OwnerInv, Objects
<1>3. CASE reg' = reg
  BY <1>1, <1>3 DEF SameStory, Running
<1>4. CASE SameClaims
  BY <1>1, <1>2, <1>4 DEF SameStory, Running, SameClaims
<1>5. CASE \E o : DeleteSet(o, "in_flight") /\ reg.heap[o].del # "deleted"
  BY <1>1, <1>2, <1>5 DEF SameStory, Running, DeleteSet
<1>6. CASE \E o : DeleteSet(o, RolledBack(o))
  BY <1>1, <1>2, <1>6 DEF SameStory, Running, DeleteSet, RolledBack
<1> QED BY <1>3, <1>4, <1>5, <1>6

(* A rollback sets the delete state of one RunState. *)
LEMMA RollbackSets ==
  ASSUME TypeInv, NEW o \in Objects, reg' = RollbackDeleteAppend(reg, o)
  PROVE  DeleteSet(o, RolledBack(o))
<1>1. reg' = SetDelete(reg, o, RolledBack(o))
  BY DEF RollbackDeleteAppend, RolledBack
<1>2. RolledBack(o) \in DeleteStates
  <2>1. reg.heap[o] \in RunStates
    BY ElementOfSeq DEF TypeInv, IsRegistry, Objects
  <2> QED BY <2>1 DEF RolledBack, RunStates, DeleteStates
<1>3. IsRegistry(reg) /\ o \in 1..Len(reg.heap)
  BY DEF TypeInv, Objects
<1> HIDE DEF RolledBack
<1> QED BY <1>1, <1>2, <1>3, SetDeleteFacts DEF DeleteSet, Objects

(* Every step of a call keeps the protocol, and the story. *)
LEMMA StartKeeps ==
  ASSUME IInv, TypeInv, BatchInv, ProtocolInv, NEW c \in Clients, NEW r \in Runs,
         StartCreate(c, r) \/ StartAppend(c, r) \/ StartDelete(c, r)
  PROVE  TypeInv' /\ BatchInv' /\ ProtocolInv' /\ SameStory
<1>1. /\ Running /\ UNCHANGED <<Wal, writer, queue, reg>>
      /\ gen' \in [Runs -> Generations]
      /\ \E kind \in Kinds, l \in ClientPCs :
           /\ pc' = [pc EXCEPT ![c] = l]
           /\ call' = [call EXCEPT ![c] = [run |-> r, kind |-> kind, arc |-> 0]]
  BY DEF StartCreate, StartAppend, StartDelete, Start, Goto, Kinds, ClientPCs, TypeInv, Generations
<1>2. pc' \in [Clients -> ClientPCs] /\ call' \in [Clients -> Calls]
  BY <1>1 DEF TypeInv, Calls
<1>3. TypeInv' /\ BatchInv'
  BY <1>1, <1>2, CallerKeepsTypes DEF TypeInv
<1>4. ProtocolInv'
  <2>1. next_seq \in 0..Len(file)
    BY <1>1, DoneFacts
  <2> QED BY <2>1, StartKeepsProtocol
<1>5. SameStory
  BY <1>1, SameRegistry DEF ProtocolInv
<1> QED BY <1>3, <1>4, <1>5

(* run_is_deleted before a blocking append.                                *)
LEMMA CheckKeeps ==
  ASSUME TypeInv, BatchInv, ProtocolInv, NEW c \in Clients, CheckDeleted(c)
  PROVE  TypeInv' /\ BatchInv' /\ ProtocolInv' /\ SameStory
<1>1. /\ pc[c] = "check" /\ UNCHANGED <<Wal, writer, queue, reg, gen, history>>
      /\ \/ pc' = [pc EXCEPT ![c] = "idle"] /\ call' = [call EXCEPT ![c] = NoCall]
         \/ pc' = [pc EXCEPT ![c] = "send"] /\ call' = call
  BY DEF CheckDeleted, Return, Goto
<1>2. Running
  BY <1>1 DEF BatchInv, Running
<1>3. pc' \in [Clients -> ClientPCs] /\ call' \in [Clients -> Calls]
  BY <1>1, NoCallFacts DEF TypeInv, Calls
<1>4. TypeInv' /\ BatchInv'
  BY <1>1, <1>2, <1>3, CallerKeepsTypes DEF TypeInv
<1>5. SameClaims
  BY <1>1 DEF SameClaims
<1>6. PICK l \in {"idle", "send"} :
        /\ pc' = [pc EXCEPT ![c] = l] /\ \A d \in Clients : d # c => call'[d] = call[d]
        /\ l # "idle" => call' = call
  BY <1>1 DEF TypeInv
<1>7. l \in ClientPCs /\ <<pc[c], l>> \in Moves
  BY <1>1 DEF ClientPCs, Moves
<1>8. ProtocolInv'
  BY <1>1, <1>5, <1>6, <1>7, MoveKeepsProtocol
<1> QED BY <1>1, <1>4, <1>8, SameRegistry DEF ProtocolInv

(* The clone of the RunState in begin_run_deleted_append.                  *)
LEMMA LookupKeeps ==
  ASSUME TypeInv, BatchInv, ProtocolInv, NEW c \in Clients, Lookup(c)
  PROVE  TypeInv' /\ BatchInv' /\ ProtocolInv' /\ SameStory
<1>1. /\ pc[c] = "lookup" /\ UNCHANGED <<Wal, writer, queue, reg, gen>>
      /\ call' = [call EXCEPT ![c].arc = reg.runs[call[c].run]]
      /\ \E l \in {"send", "claim"} : pc' = [pc EXCEPT ![c] = l]
  BY DEF Lookup, Goto
<1>2. Running
  BY <1>1 DEF BatchInv, Running
<1>3. reg.runs[call[c].run] \in Nat
  BY <1>1 DEF ProtocolInv, CallInv, TypeInv, IsRegistry
<1>4. pc' \in [Clients -> ClientPCs] /\ call' \in [Clients -> Calls]
  BY <1>1, <1>3 DEF TypeInv, Calls, ClientPCs
<1>5. TypeInv' /\ BatchInv'
  BY <1>1, <1>2, <1>4, CallerKeepsTypes DEF TypeInv
<1> QED BY <1>1, <1>5, LookupKeepsProtocol, SameRegistry DEF ProtocolInv

(* The RunState a deleter cloned is in the heap. *)
LEMMA ArcFacts ==
  ASSUME TypeInv, BatchInv, ProtocolInv, NEW c \in Deleters
  PROVE  call[c].arc \in Objects /\ c \in Clients /\ Running
<1>1. c \in Calling /\ c \in Clients /\ call[c].arc # 0 /\ pc[c] # "idle"
  BY DEF Deleters, Calling, ProtocolInv, CallInv
<1> QED BY <1>1 DEF TypeInv, BatchInv, Running, ProtocolInv, OwnerInv, Objects

(* The compare_exchange, won, lost to a deletion, or lost to a claim.      *)
LEMMA ClaimKeeps ==
  ASSUME IInv, TypeInv, BatchInv, ProtocolInv, NEW c \in Clients, Claim(c)
  PROVE  TypeInv' /\ BatchInv' /\ ProtocolInv' /\ SameStory
<1> DEFINE o == call[c].arc
<1>1. /\ pc[c] = "claim" /\ UNCHANGED <<Wal, writer, queue, gen, history>>
      /\ \/ /\ reg.heap[o].del = "live" /\ reg' = BeginDeleteAppend(reg, o)
            /\ pc' = [pc EXCEPT ![c] = "send"] /\ call' = call
         \/ /\ pc' = [pc EXCEPT ![c] = "idle"] /\ call' = [call EXCEPT ![c] = NoCall]
            /\ reg' = reg
         \/ pc' = [pc EXCEPT ![c] = "arm"] /\ call' = call /\ reg' = reg
  <2>1. reg.heap[o].del \in DeleteStates
    <3>1. o \in 1..Len(reg.heap)
      BY ArcFacts DEF Claim, Deleters, Objects
    <3>2. reg.heap[o] \in RunStates
      BY <3>1, ElementOfSeq DEF TypeInv, IsRegistry
    <3> QED BY <3>2 DEF RunStates
  <2> QED BY <2>1 DEF Claim, Return, Goto, DeleteStates
<1>2. o \in Objects /\ Running
  BY <1>1, ArcFacts DEF Deleters
<1>3. pc' \in [Clients -> ClientPCs] /\ call' \in [Clients -> Calls]
  BY <1>1, NoCallFacts DEF TypeInv, Calls
<1>4. CASE reg.heap[o].del = "live" /\ reg' = BeginDeleteAppend(reg, o)
             /\ pc' = [pc EXCEPT ![c] = "send"] /\ call' = call
  <2>1. DeleteSet(o, "in_flight")
    BY <1>2, <1>4, BeginDeleteFacts DEF DeleteSet, Objects, TypeInv
  <2>2. TypeInv' /\ BatchInv'
    BY <1>1, <1>2, <1>3, <2>1, CallerKeepsTypes DEF TypeInv, DeleteSet
  <2>3. ProtocolInv'
    BY <1>1, <1>4, <2>1, ClaimKeepsProtocol
  <2>4. SameStory
    BY <1>1, <1>4, <2>1, SameRegistry DEF ProtocolInv
  <2> QED BY <2>2, <2>3, <2>4
<1>5. CASE reg' = reg /\ \/ /\ pc' = [pc EXCEPT ![c] = "idle"]
                            /\ call' = [call EXCEPT ![c] = NoCall]
                         \/ pc' = [pc EXCEPT ![c] = "arm"] /\ call' = call
  <2>1. TypeInv' /\ BatchInv'
    BY <1>1, <1>2, <1>3, <1>5, CallerKeepsTypes DEF TypeInv
  <2>2. SameClaims
    BY <1>5 DEF SameClaims
  <2>3. PICK l \in {"idle", "arm"} :
          /\ pc' = [pc EXCEPT ![c] = l] /\ \A d \in Clients : d # c => call'[d] = call[d]
          /\ l # "idle" => call' = call
    BY <1>5 DEF TypeInv
  <2>4. l \in ClientPCs /\ <<pc[c], l>> \in Moves
    BY <1>1 DEF ClientPCs, Moves
  <2>5. ProtocolInv'
    BY <1>1, <2>2, <2>3, <2>4, MoveKeepsProtocol
  <2> QED BY <1>1, <1>5, <2>1, <2>5, SameRegistry DEF ProtocolInv
<1> QED BY <1>1, <1>4, <1>5

(* wait_delete_append: arming, testing, sleeping and waking.               *)
LEMMA WaitKeeps ==
  ASSUME TypeInv, BatchInv, ProtocolInv, NEW c \in Clients, Arm(c) \/ Test(c) \/ Wake(c)
  PROVE  TypeInv' /\ BatchInv' /\ ProtocolInv' /\ SameStory
<1> DEFINE o == call[c].arc
<1>1. /\ pc[c] \in {"arm", "test", "sleep"}
      /\ UNCHANGED <<Wal, writer, queue, call, gen, history>>
      /\ reg' = reg \/ \E w \in {reg.heap[o].waiters \cup {c}, reg.heap[o].waiters \ {c}} :
                          reg' = [reg EXCEPT !.heap[o].waiters = w]
      /\ \E l \in ClientPCs : pc' = [pc EXCEPT ![c] = l] /\ <<pc[c], l>> \in Moves /\ l # "idle"
  <2>1. CASE Arm(c)
    BY <2>1, Zenon DEF Arm, Goto, ClientPCs, Moves
  <2>2. CASE Test(c)
    BY <2>2, Zenon DEF Test, Goto, ClientPCs, Moves
  <2>3. CASE Wake(c)
    BY <2>3, Zenon DEF Wake, Goto, ClientPCs, Moves
  <2> QED BY <2>1, <2>2, <2>3
<1>2. o \in Objects /\ Running
  BY <1>1, ArcFacts DEF Deleters
<1> HIDE DEF o
<1>3. IsRegistry(reg') /\ SameClaims
  <2>1. reg.heap[o] \in RunStates /\ IsRegistry(reg) /\ o \in 1..Len(reg.heap)
    BY <1>2, ElementOfSeq DEF TypeInv, IsRegistry, Objects
  <2>2. CASE reg' = reg
    BY <2>1, <2>2 DEF SameClaims
  <2>3. ASSUME NEW w \in SUBSET Clients, reg' = [reg EXCEPT !.heap[o].waiters = w]
        PROVE  IsRegistry(reg') /\ SameClaims
    BY <2>1, <2>3, WaitersFacts DEF SameClaims, Objects
  <2>4. reg.heap[o].waiters \cup {c} \in SUBSET Clients
        /\ reg.heap[o].waiters \ {c} \in SUBSET Clients
    BY <2>1 DEF RunStates
  <2> QED BY <1>1, <2>2, <2>3, <2>4
<1>4. pc' \in [Clients -> ClientPCs] /\ call' \in [Clients -> Calls]
  BY <1>1 DEF TypeInv, Calls
<1>5. TypeInv' /\ BatchInv'
  BY <1>1, <1>2, <1>3, <1>4, CallerKeepsTypes DEF TypeInv
<1>6. PICK l \in ClientPCs : pc' = [pc EXCEPT ![c] = l] /\ <<pc[c], l>> \in Moves /\ l # "idle"
  BY <1>1
<1>7. ProtocolInv'
  BY <1>1, <1>3, <1>6, MoveKeepsProtocol
<1> QED BY <1>1, <1>3, <1>5, <1>7, SameRegistry DEF ProtocolInv

(* A command joins the queue, with the guard its caller won.               *)
LEMMA SendKeeps ==
  ASSUME IInv, TypeInv, BatchInv, ProtocolInv, NEW c \in Clients, Send(c)
  PROVE  TypeInv' /\ BatchInv' /\ ProtocolInv' /\ SameStory
<1> DEFINE cmd == [run |-> call[c].run, kind |-> call[c].kind, client |-> c,
                   guard |-> call[c].arc]
<1>1. /\ pc[c] = "send" /\ UNCHANGED <<Wal, writer, reg, gen, call>>
      /\ pc' = [pc EXCEPT ![c] = "reply"] /\ queue' = Append(queue, cmd)
  BY DEF Send, Goto
<1>2. Running
  BY <1>1 DEF BatchInv, Running
<1>3. cmd \in Commands
  BY <1>1 DEF TypeInv, Commands, ProtocolInv, CallInv
<1> HIDE DEF cmd
<1>4. queue' \in Seq(Commands)
  BY <1>1, <1>3, AppendProperties DEF TypeInv
<1>5. pc' \in [Clients -> ClientPCs] /\ call' \in [Clients -> Calls]
  BY <1>1 DEF TypeInv, Calls, ClientPCs
<1>6. TypeInv' /\ BatchInv'
  BY <1>1, <1>2, <1>4, <1>5, CallerKeepsTypes DEF TypeInv
<1> QED BY <1>1, <1>6, DoneFacts, SendKeepsProtocol, SameRegistry DEF ProtocolInv

(* A refused command rolls its claim back.                                 *)
LEMMA RefusedKeeps ==
  ASSUME IInv, TypeInv, BatchInv, ProtocolInv, NEW c \in Clients, SendRefused(c)
  PROVE  TypeInv' /\ BatchInv' /\ ProtocolInv' /\ SameStory
<1> DEFINE o == call[c].arc
<1>1. /\ pc[c] = "send" /\ UNCHANGED <<Wal, writer, queue, gen, history>> /\ Return(c)
      /\ reg' = IF o = 0 THEN reg ELSE RollbackDeleteAppend(reg, o)
  BY DEF SendRefused
<1>2. Running /\ (o # 0 => o \in Objects)
  BY <1>1 DEF BatchInv, Running, TypeInv, ProtocolInv, OwnerInv, Objects, Calling
<1>3. IF o = 0 THEN reg' = reg ELSE DeleteSet(o, RolledBack(o))
  BY <1>1, <1>2, RollbackSets
<1>4. pc' \in [Clients -> ClientPCs] /\ call' \in [Clients -> Calls]
  BY <1>1, NoCallFacts DEF Return, Goto, TypeInv, Calls
<1>5. IsRegistry(reg')
  BY <1>3 DEF TypeInv, DeleteSet
<1>6. TypeInv' /\ BatchInv'
  BY <1>1, <1>2, <1>4, <1>5, CallerKeepsTypes DEF TypeInv
<1>7. ProtocolInv'
  BY <1>1, <1>3, RefusedKeepsProtocol
<1>8. SameStory
  BY <1>1, <1>3, SameRegistry DEF ProtocolInv
<1> QED BY <1>6, <1>7, <1>8

(* So does what a worker generation does. *)
LEMMA WorkerKeeps ==
  ASSUME IInv, TypeInv, BatchInv, ProtocolInv, NEW r \in Runs,
         AppendDetached(r) \/ ProtectTombstone(r) \/ ReleaseTombstone(r)
  PROVE  TypeInv' /\ BatchInv' /\ ProtocolInv' /\ SameStory
<1>1. /\ Running /\ UNCHANGED <<Wal, writer, reg, clients>>
      /\ gen' \in [Runs -> Generations] /\ queue' \in Seq(Commands)
  <2>1. CASE AppendDetached(r)
    <3> DEFINE cmd == [run |-> r, kind |-> "loop_detected", client |-> None, guard |-> 0]
    <3>1. cmd \in Commands
      BY DEF Commands, Kinds
    <3>2. queue' = Append(queue, cmd)
      BY <2>1 DEF AppendDetached
    <3> HIDE DEF cmd
    <3>3. queue' \in Seq(Commands)
      BY <3>1, <3>2, AppendProperties DEF TypeInv
    <3> QED BY <2>1, <3>3 DEF AppendDetached, TypeInv
  <2>2. CASE ProtectTombstone(r) \/ ReleaseTombstone(r)
    BY <2>2 DEF ProtectTombstone, ReleaseTombstone, TypeInv, Generations
  <2> QED BY <2>1, <2>2
<1>2. TypeInv' /\ BatchInv'
  BY <1>1, CallerKeepsTypes DEF TypeInv, Calls, clients
<1>3. ProtocolInv'
  BY DoneFacts, DetachedKeepsProtocol, GenerationKeepsProtocol
<1> QED BY <1>1, <1>2, <1>3, SameRegistry DEF ProtocolInv

(* A take of the writer, whatever becomes of the command.                   *)
LEMMA TakeFacts ==
  ASSUME IInv, TypeInv, BatchInv, CanTake, Dequeue
  PROVE  /\ wpc \in {"recv", "stage"} /\ drop = 0 /\ HasCommand /\ Done = 0
         /\ queue' \in Seq(Commands) /\ deferred' = None /\ Current \in Commands
         /\ \A i \in 1..Len(staged) : staged[i].event.kind # "run_deleted"
<1>1. wpc \in {"recv", "stage"} /\ drop = 0 /\ HasCommand
  BY DEF CanTake
<1>2. Done = 0
  BY <1>1 DEF Done, Publishing
<1>3. Current \in Commands
  BY <1>1, DequeueFacts
<1>4. deferred' = None
  BY DEF Dequeue
<1>5. queue' \in Seq(Commands)
  <2>1. CASE deferred # None
    BY <2>1 DEF Dequeue, TypeInv
  <2>2. CASE deferred = None
    <3>1. queue # <<>> /\ queue' = Tail(queue)
      BY <1>1, <2>2 DEF Dequeue, HasCommand
    <3> QED BY <3>1, HeadTailProperties DEF TypeInv
  <2> QED BY <2>1, <2>2
<1>6. \A i \in 1..Len(staged) : staged[i].event.kind # "run_deleted"
  <2>1. CASE wpc = "stage"
    BY <2>1 DEF BatchInv
  <2>2. CASE wpc = "recv"
    <3>1. Len(staged) = 0 /\ \A i : i \notin 1..0
      BY <2>2, EmptySeq DEF BatchInv
    <3> QED BY <3>1
  <2> QED BY <1>1, <2>1, <2>2
<1> QED BY <1>1, <1>2, <1>3, <1>4, <1>5, <1>6

(* The replies that leave the front of the batch.                           *)
LEMMA TailOfBatch ==
  ASSUME IInv, TypeInv, BatchInv, staged # <<>>, staged' = Tail(staged)
  PROVE  /\ staged' \in Seq(StagedAppends) /\ Len(staged') = Len(staged) - 1
         /\ Len(staged) >= 1
         /\ Len(staged) = 1 => staged' = <<>>
         /\ \A i \in 1..Len(staged') : staged'[i].event.kind # "run_deleted"
<1>1. staged' \in Seq(StagedAppends)
  BY HeadTailProperties DEF TypeInv
<1>2. /\ Len(staged') = Len(staged) - 1 /\ IsSeq(staged') /\ Len(staged) \in Nat
      /\ \A i \in 1..Len(staged) - 1 : staged'[i] = staged[i + 1]
  BY TailFacts, PipeFacts
<1>3. Len(staged) >= 1
  BY <1>2, SeqFacts
<1>4. Len(staged) = 1 => staged' = <<>>
  <2> SUFFICES ASSUME Len(staged) = 1, staged' # <<>> PROVE FALSE
    OBVIOUS
  <2>1. Len(staged') # 0
    BY <1>2, EmptyIsEmpty
  <2> QED BY <1>2, <2>1
<1>5. ASSUME NEW i \in 1..Len(staged') PROVE staged'[i].event.kind # "run_deleted"
  <2>1. i + 1 \in 1..Len(staged) /\ staged'[i] = staged[i + 1] /\ Len(staged) # 1
    BY <1>2
  <2> QED BY <2>1 DEF BatchInv
<1> QED BY <1>1, <1>2, <1>3, <1>4, <1>5

(* The steps of a batch that hand nothing on.                               *)
LEMMA SteadyKeeps ==
  ASSUME IInv, IInv', TypeInv, BatchInv, ProtocolInv,
         EndBatch \/ SyncNothing \/ SyncBatch \/ StoreCommittedEnd \/ Publish
  PROVE  TypeInv' /\ BatchInv' /\ ProtocolInv' /\ SameStory
<1>1. /\ UNCHANGED <<file, queue, deferred, staged, drop, next_seq, reg, gen, pc, call, acked>>
      /\ \/ wpc = "stage" /\ wpc' = "sync"
         \/ wpc = "sync" /\ wpc' = "recv" /\ staged = <<>>
         \/ wpc = "sync" /\ wpc' \in {"store", "fail"}
         \/ wpc = "store" /\ wpc' = "apply"
         \/ wpc = "apply" /\ wpc' = "reply"
  <2>1. CASE EndBatch
    BY <2>1 DEF EndBatch, Wal, clients, history
  <2>2. CASE SyncNothing
    BY <2>2 DEF SyncNothing, Wal, clients, history
  <2>3. CASE SyncBatch
    BY <2>3 DEF SyncBatch, Wal, clients, history, W!SyncOk, W!SyncFail, W!disk
  <2>4. CASE StoreCommittedEnd
    BY <2>4 DEF StoreCommittedEnd, Wal, clients, history
  <2>5. CASE Publish
    BY <2>5 DEF Publish, Wal, clients, history
  <2> QED BY <2>1, <2>2, <2>3, <2>4, <2>5
<1>2. TypeInv'
  BY <1>1 DEF TypeInv
<1>3. BatchInv'
  BY <1>1 DEF BatchInv
<1>4. Done' = Done
  <2>1. CASE wpc \in {"store", "apply"}
    BY <1>1, <2>1 DEF Done, Publishing
  <2>2. CASE wpc \in {"stage", "sync"}
    <3>1. Done = 0
      BY <2>2 DEF Done, Publishing
    <3>2. wpc' # "store" => Done' = 0
      BY <1>1, <2>2 DEF Done, Publishing
    <3>3. wpc' = "store" => Done' = 0
      <4>1. Len(file) \in Nat /\ Len(staged) \in Nat
        BY SeqFacts DEF IInv, FileInv, WriterInv
      <4> QED BY <1>1, <4>1 DEF Done, Publishing, IInv, WriterInv
    <3> QED BY <3>1, <3>2, <3>3
  <2> QED BY <1>1, <2>1, <2>2
<1>5. PipeKept
  BY <1>1, PipeUnchanged
<1>6. LogGrows
  BY <1>1 DEF LogGrows
<1>7. UNCHANGED Protocol /\ ~Settling /\ ~Settling' /\ Running' = Running
  BY <1>1 DEF Protocol, Running, Settling
<1>8. ProtocolInv'
  BY <1>4, <1>5, <1>6, <1>7, SteadyKeepsProtocol
<1>9. SameStory
  BY <1>1 DEF SameStory, Running
<1> QED BY <1>2, <1>3, <1>8, <1>9

(* A delete waits for the batch before it.                                 *)
LEMMA DeferKeeps ==
  ASSUME IInv, TypeInv, BatchInv, ProtocolInv, DeferDelete
  PROVE  TypeInv' /\ BatchInv' /\ ProtocolInv' /\ SameStory
<1>1. /\ wpc = "stage" /\ wpc' = "sync" /\ queue # <<>>
      /\ deferred' = Head(queue) /\ queue' = Tail(queue)
      /\ UNCHANGED <<file, staged, drop, next_seq, reg, gen, pc, call, acked>>
  BY DEF DeferDelete, CanTake, Defer, HasCommand, Current, BatchInv, Wal, clients, history
<1>2. queue' \in Seq(Commands) /\ deferred' \in Commands
  BY <1>1, HeadTailProperties DEF TypeInv
<1>3. TypeInv'
  BY <1>1, <1>2 DEF TypeInv
<1>4. BatchInv'
  BY <1>1 DEF BatchInv
<1>5. PipeKept /\ Done' = Done /\ LogGrows
  BY <1>1, PipeDefer DEF Done, Publishing, LogGrows
<1>6. UNCHANGED Protocol /\ ~Settling /\ ~Settling' /\ Running' = Running
  BY <1>1 DEF Protocol, Running, Settling
<1>7. ProtocolInv'
  BY <1>5, <1>6, SteadyKeepsProtocol
<1>8. SameStory
  BY <1>1 DEF SameStory, Running
<1> QED BY <1>3, <1>4, <1>7, <1>8

(* A staged record is its command's, and the next one of the log.           *)
LEMMA StageFacts ==
  ASSUME IInv, TypeInv, BatchInv, StageCommand
  PROVE  LET e == NextEvent(Current)
             a == [event |-> e, client |-> Current.client, guard |-> Current.guard]
         IN  /\ Len(file) = next_seq + Len(staged) /\ next_seq \in Nat /\ Len(staged) \in Nat
             /\ StagedBehind(next_seq)
             /\ Len(file') = Len(file) + 1 /\ file'[Len(file) + 1] = e
             /\ \A i \in 1..Len(file) : file'[i] = file[i]
             /\ staged' = Append(staged, a) /\ Len(staged') = Len(staged) + 1
             /\ staged'[Len(staged) + 1] = a
             /\ \A i \in 1..Len(staged) : staged'[i] = staged[i]
             /\ e \in TimelineEvent /\ a \in StagedAppends
             /\ e.run = Current.run /\ e.kind = Current.kind
<1> DEFINE e == NextEvent(Current)
           a == [event |-> e, client |-> Current.client, guard |-> Current.guard]
<1>1. /\ W!StageOk(e) /\ staged' = Append(staged, a) /\ wpc \in {"recv", "stage"}
      /\ CanTake /\ Dequeue
  BY DEF StageCommand, CanTake, Advance
<1>2. Current \in Commands
  BY <1>1, TakeFacts
<1>3. IsSeq(file) /\ IsSeq(staged) /\ Len(file) \in Nat /\ Len(staged) \in Nat /\ next_seq \in Nat
  BY SeqFacts DEF IInv, FileInv, WriterInv
<1>4. e \in TimelineEvent /\ e.run = Current.run /\ e.kind = Current.kind
  BY <1>2, <1>3 DEF NextEvent, TimelineEvent, Commands
<1> HIDE DEF e
<1>5. a \in StagedAppends
  BY <1>2, <1>4 DEF StagedAppends, Commands
<1> HIDE DEF a
<1>6. handle = "open" /\ ~poisoned /\ tail = "none"
  BY <1>1 DEF W!StageOk, W!Writable, IInv, FileInv
<1>7. file' = Append(file, e)
  BY <1>1, <1>6 DEF W!StageOk
<1>8. /\ Len(file') = Len(file) + 1 /\ file'[Len(file) + 1] = e
      /\ \A i \in 1..Len(file) : file'[i] = file[i]
  BY <1>3, <1>7, AppendFacts
<1>9. /\ Len(staged') = Len(staged) + 1 /\ staged'[Len(staged) + 1] = a
      /\ \A i \in 1..Len(staged) : staged'[i] = staged[i]
  BY <1>1, <1>3, AppendFacts
<1>10. Len(file) = next_seq + Len(staged) /\ StagedBehind(next_seq)
  BY <1>1, <1>6 DEF IInv, WriterInv, Batching
<1> QED BY <1>1, <1>3, <1>4, <1>5, <1>8, <1>9, <1>10 DEF e, a

(* A command's record is written behind the batch.                         *)
LEMMA StageKeeps ==
  ASSUME IInv, TypeInv, BatchInv, ProtocolInv, StageCommand
  PROVE  TypeInv' /\ BatchInv' /\ ProtocolInv' /\ SameStory
<1> DEFINE e == NextEvent(Current)
           a == [event |-> e, client |-> Current.client, guard |-> Current.guard]
           m == Len(staged)
<1>1. /\ CanTake /\ Dequeue /\ ~Defer(Current) /\ wpc' = IF IsDelete(Current) THEN "sync" ELSE "stage"
      /\ UNCHANGED <<drop, next_seq, reg, gen, pc, call, acked>>
  BY DEF StageCommand, Advance, clients, history
<1>2. /\ Len(file) = next_seq + m /\ next_seq \in Nat /\ m \in Nat
      /\ Len(file') = Len(file) + 1 /\ file'[Len(file) + 1] = e
      /\ \A i \in 1..Len(file) : file'[i] = file[i]
      /\ staged' = Append(staged, a) /\ Len(staged') = m + 1 /\ staged'[m + 1] = a
      /\ \A i \in 1..m : staged'[i] = staged[i]
      /\ e \in TimelineEvent /\ a \in StagedAppends
      /\ e.run = Current.run /\ e.kind = Current.kind /\ a.event = e
  BY StageFacts
<1> HIDE DEF e, a
<1>3. /\ wpc \in {"recv", "stage"} /\ drop = 0 /\ Done = 0
      /\ queue' \in Seq(Commands) /\ deferred' = None /\ Current \in Commands
      /\ \A i \in 1..m : staged[i].event.kind # "run_deleted"
  BY <1>1, TakeFacts
<1> HIDE DEF m
<1>4. TypeInv'
  <2>1. staged' \in Seq(StagedAppends)
    BY <1>2, AppendProperties DEF TypeInv
  <2>2. \A i \in 1..Len(file') : file'[i] \in TimelineEvent
    <3> TAKE i \in 1..Len(file')
    <3>1. i \in 1..Len(file) \/ i = Len(file) + 1
      BY <1>2
    <3> QED BY <1>2, <3>1 DEF TypeInv
  <2> QED BY <1>1, <1>3, <2>1, <2>2 DEF TypeInv
<1>5. BatchInv'
  <2>1. \A i \in 1..Len(staged') : i \in 1..m \/ i = m + 1
    BY <1>2
  <2>2. ~IsDelete(Current) => \A i \in 1..Len(staged') : staged'[i].event.kind # "run_deleted"
    BY <1>2, <1>3, <2>1 DEF IsDelete
  <2>3. IsDelete(Current) => Len(staged') = 1
    <3>1. IsDelete(Current) => staged = <<>>
      BY <1>1 DEF Defer
    <3> QED BY <1>2, <3>1, EmptySeq DEF m
  <2>4. wpc' \notin {"down", "recv"} /\ (wpc' = "stage" => ~IsDelete(Current))
    BY <1>1
  <2> QED BY <1>3, <2>2, <2>3, <2>4 DEF BatchInv
<1>6. /\ PipeKept /\ m + 1 \in 1..PipeLen /\ Pipe[m + 1] = Current
  BY PipeStage DEF m
<1>7. Done' = 0
  BY <1>1 DEF Done, Publishing
<1>8. LogGrows
  <2>1. m + 1 \in Pending
    BY <1>2, <1>3, <1>6 DEF Pending
  <2>2. \A i \in 1..Len(file') : i \in 1..Len(file) \/ i = Len(file) + 1
    BY <1>2
  <2>3. \A i \in 1..next_seq : i \in 1..Len(file)
    BY <1>2
  <2>4. \A i \in 1..Len(file') :
          \/ i \in 1..Len(file) /\ file'[i] = file[i]
          \/ Pipe[m + 1].run = file'[i].run
    BY <1>2, <1>6, <2>2
  <2> QED BY <1>2, <2>1, <2>3, <2>4 DEF LogGrows
<1>9. UNCHANGED Protocol /\ ~Settling /\ ~Settling' /\ Running' = Running
  BY <1>1, <1>3 DEF Protocol, Running, Settling
<1>10. ProtocolInv'
  BY <1>3, <1>6, <1>7, <1>8, <1>9, SteadyKeepsProtocol
<1>11. SameStory
  BY <1>1, <1>8, <1>9 DEF SameStory, LogGrows
<1> QED BY <1>4, <1>5, <1>10, <1>11

(* A rejected command returns, and leaves its guard to be dropped. *)
LEMMA StageRejectKeeps ==
  ASSUME IInv, TypeInv, BatchInv, ProtocolInv, StageReject \/ StageWriteFails
  PROVE  TypeInv' /\ BatchInv' /\ ProtocolInv' /\ SameStory
<1>1. /\ CanTake /\ Dequeue /\ ~Defer(Current) /\ RejectReply(Current)
      /\ wpc' = IF IsDelete(Current) THEN "sync" ELSE "stage"
      /\ UNCHANGED <<file, staged, next_seq, reg, gen, acked>>
  BY DEF StageReject, StageWriteFails, Advance, Wal, history, W!StageFail
<1>2. /\ wpc \in {"recv", "stage"} /\ drop = 0 /\ HasCommand /\ Done = 0
      /\ queue' \in Seq(Commands) /\ deferred' = None /\ Current \in Commands
      /\ \A i \in 1..Len(staged) : staged[i].event.kind # "run_deleted"
  BY <1>1, TakeFacts
<1>3. PipeWithout(Len(staged) + 1) /\ Pipe[Len(staged) + 1] = Current
  BY <1>1, <1>2, PipeReject
<1>4. Len(staged) + 1 \in Pending
  BY <1>2, <1>3, PipeFacts DEF Pending, PipeWithout
<1>5. Done' = 0
  BY <1>1 DEF Done, Publishing
<1>6. /\ drop' \in Nat /\ pc' \in [Clients -> ClientPCs] /\ call' \in [Clients -> Calls]
  <2>1. drop' = Current.guard /\ Current.guard \in Nat
    BY <1>1, <1>2 DEF RejectReply, Commands
  <2>2. CASE Current.client = None
    BY <1>1, <2>1, <2>2 DEF RejectReply, TypeInv, Calls
  <2>3. CASE Current.client # None
    BY <1>1, <2>1, <2>3, NoCallFacts DEF RejectReply, Return, Goto, TypeInv, Calls
  <2> QED BY <2>2, <2>3, <2>1
<1>7. TypeInv'
  BY <1>1, <1>2, <1>6 DEF TypeInv, Calls
<1>8. BatchInv'
  BY <1>1, <1>2 DEF BatchInv
<1>9. ~Settling /\ ~Settling' /\ Running' = Running
  BY <1>1, <1>2 DEF Running, Settling
<1>10. ProtocolInv'
  BY <1>1, <1>2, <1>3, <1>4, <1>5, <1>9, RejectKeepsProtocol
<1>11. SameStory
  BY <1>1, <1>9 DEF SameStory
<1> QED BY <1>7, <1>8, <1>10, <1>11

(* So does each command of a batch that was not synced. *)
LEMMA ReplyErrKeeps ==
  ASSUME IInv, TypeInv, BatchInv, ProtocolInv, ReplyErr
  PROVE  TypeInv' /\ BatchInv' /\ ProtocolInv' /\ SameStory
<1> DEFINE a == Head(staged)
<1>1. /\ wpc = "fail" /\ drop = 0 /\ RejectReply(a) /\ staged' = Tail(staged)
      /\ wpc' = IF Len(staged) = 1 THEN "recv" ELSE "fail"
      /\ UNCHANGED <<file, queue, deferred, next_seq, reg, gen, acked>>
  BY DEF ReplyErr, Wal, history
<1>2. staged # <<>>
  BY <1>1 DEF IInv, WriterInv
<1>3. /\ staged' \in Seq(StagedAppends) /\ Len(staged') = Len(staged) - 1
      /\ Len(staged) >= 1
      /\ Len(staged) = 1 => staged' = <<>>
      /\ \A i \in 1..Len(staged') : staged'[i].event.kind # "run_deleted"
  BY <1>1, <1>2, TailOfBatch
<1>4. PipeWithout(1) /\ Pipe[1] = Entry(a)
  BY <1>1, <1>2, PipeReply
<1>5. a \in StagedAppends
  BY <1>2, HeadTailProperties DEF TypeInv
<1> HIDE DEF a
<1>6. Done = 0 /\ Done' = 0
  BY <1>1 DEF Done, Publishing
<1>7. 1 \in Pending /\ Pipe[1].guard = a.guard /\ Pipe[1].client = a.client
  BY <1>4, <1>6 DEF Pending, PipeWithout, Entry
<1>8. /\ drop' \in Nat /\ pc' \in [Clients -> ClientPCs] /\ call' \in [Clients -> Calls]
  <2>1. drop' = a.guard /\ a.guard \in Nat
    BY <1>1, <1>5 DEF RejectReply, StagedAppends
  <2>2. CASE a.client = None
    BY <1>1, <2>1, <2>2 DEF RejectReply, TypeInv, Calls
  <2>3. CASE a.client # None
    BY <1>1, <2>1, <2>3, NoCallFacts DEF RejectReply, Return, Goto, TypeInv, Calls
  <2> QED BY <2>2, <2>3, <2>1
<1>9. TypeInv'
  BY <1>1, <1>3, <1>8 DEF TypeInv, Calls
<1>10. BatchInv'
  BY <1>1, <1>3 DEF BatchInv
<1>11. ~Settling /\ ~Settling' /\ Running' = Running
  BY <1>1 DEF Running, Settling
<1>12. ProtocolInv'
  BY <1>1, <1>4, <1>6, <1>7, <1>11, RejectKeepsProtocol
<1>13. SameStory
  BY <1>1, <1>11 DEF SameStory
<1> QED BY <1>9, <1>10, <1>12, <1>13

(* An acknowledged command returns with its record. *)
LEMMA ReplyOkKeeps ==
  ASSUME IInv, IInv', TypeInv, BatchInv, ProtocolInv, ReplyOk
  PROVE  TypeInv' /\ BatchInv' /\ ProtocolInv' /\ SameStory
<1> DEFINE a == Head(staged)
<1>1. /\ wpc = "reply" /\ staged' = Tail(staged)
      /\ IF a.client = None THEN UNCHANGED <<pc, call, acked>>
         ELSE Return(a.client) /\ acked' = acked \cup {a.event}
      /\ wpc' = IF Len(staged) = 1 THEN "recv" ELSE "reply"
      /\ UNCHANGED <<Wal, queue, deferred, drop, next_seq, reg, gen>>
  BY DEF ReplyOk
<1>2. /\ Done = Len(staged) /\ Len(staged) >= 1 /\ Len(staged) \in Nat /\ Len(file) \in Nat
      /\ next_seq = Len(file)
  BY <1>1, DoneFacts, PipeFacts DEF IInv, WriterInv
<1>3. staged # <<>>
  BY <1>2, EmptySeq
<1>4. /\ staged' \in Seq(StagedAppends) /\ Len(staged') = Len(staged) - 1
      /\ Len(staged) = 1 => staged' = <<>>
      /\ \A i \in 1..Len(staged') : staged'[i].event.kind # "run_deleted"
  BY <1>1, <1>3, TailOfBatch
<1>5. PipeWithout(1) /\ Pipe[1] = Entry(a)
  BY <1>1, <1>3, PipeReply
<1>6. a \in StagedAppends
  BY <1>3, HeadTailProperties DEF TypeInv
<1> HIDE DEF a
<1>7. file' = file /\ durable' = durable /\ Running' = Running /\ ~Settling /\ ~Settling'
  BY <1>1 DEF Wal, Running, Settling
<1>8. Done' = Done - 1
  BY <1>1, <1>2, <1>4, <1>7 DEF Done, Publishing
<1>9. Pipe[1].client = a.client
  BY <1>5 DEF Entry
<1>10. \A e \in acked' : e \in acked \/ e.seq <= next_seq
  <2>1. \A e \in acked' : e.seq <= durable
    <3>1. durable \in Nat
      BY DEF IInv, FileInv
    <3> QED BY <1>7, <3>1 DEF IInv, AckedInv
  <2>2. durable <= Len(file) /\ durable \in Nat
    BY DEF IInv, FileInv
  <2>3. \A e \in acked' : e.seq \in Nat
    BY <1>7, <2>2 DEF IInv, AckedInv
  <2> QED BY <1>2, <2>1, <2>2, <2>3
<1>11. pc' \in [Clients -> ClientPCs] /\ call' \in [Clients -> Calls]
  <2>1. CASE a.client = None
    <3>1. pc' = pc /\ call' = call
      BY <1>1, <2>1
    <3> QED BY <3>1 DEF TypeInv, Calls
  <2>2. CASE a.client # None
    <3>1. Return(a.client)
      BY <1>1, <2>2
    <3> QED BY <3>1, NoCallFacts DEF Return, Goto, TypeInv, Calls
  <2> QED BY <2>1, <2>2
<1>12. TypeInv'
  BY <1>1, <1>4, <1>7, <1>11 DEF TypeInv, Calls
<1>13. BatchInv'
  BY <1>1, <1>4 DEF BatchInv
<1>14. IF a.client = None THEN UNCHANGED <<pc, call>> ELSE Return(a.client)
  BY <1>1
<1>15. ProtocolInv'
  BY <1>1, <1>2, <1>5, <1>7, <1>8, <1>9, <1>10, <1>14, ReplyKeepsProtocol
<1>16. SameStory
  BY <1>1, <1>7 DEF SameStory
<1> QED BY <1>12, <1>13, <1>15, <1>16

(* A dropped guard rolls its claim back.                                   *)
LEMMA DropGuardKeeps ==
  ASSUME TypeInv, BatchInv, ProtocolInv, DropGuard
  PROVE  TypeInv' /\ BatchInv' /\ ProtocolInv' /\ SameStory
<1>1. /\ drop # 0 /\ drop' = 0 /\ reg' = RollbackDeleteAppend(reg, drop)
      /\ UNCHANGED <<file, queue, deferred, wpc, staged, next_seq, pc, call, gen, acked>>
  BY DEF DropGuard, Wal, clients, history
<1>2. drop \in Objects /\ Running' = Running
  BY <1>1 DEF TypeInv, ProtocolInv, OwnerInv, Objects, Running
<1>3. DeleteSet(drop, RolledBack(drop))
  BY <1>1, <1>2, RollbackSets
<1>4. TypeInv'
  BY <1>1, <1>3 DEF TypeInv, DeleteSet
<1>5. BatchInv'
  BY <1>1 DEF BatchInv
<1>6. ProtocolInv'
  BY <1>1, <1>3, DropKeepsProtocol
<1>7. \A r \in Runs : reg.runs[r] # 0 => reg.runs[r] \in Objects
  BY DEF TypeInv, IsRegistry, ProtocolInv, OwnerInv, Objects
<1>8. SameStory
  BY <1>1, <1>2, <1>3, <1>7 DEF SameStory, DeleteSet, RolledBack
<1> QED BY <1>4, <1>5, <1>6, <1>8

(* A committed guard leaves a RunState that no run is mapped to any more.  *)
LEMMA CommitGuardKeeps ==
  ASSUME IInv, TypeInv, BatchInv, ProtocolInv, CommitGuard
  PROVE  TypeInv' /\ BatchInv' /\ ProtocolInv' /\ SameStory
<1> DEFINE o == staged[Len(staged)].guard
<1>1. /\ wpc = "guard" /\ wpc' = "apply" /\ reg' = CommitDeleteAppend(reg, o)
      /\ UNCHANGED <<file, queue, deferred, drop, staged, next_seq, pc, call, gen, acked>>
  BY DEF CommitGuard, Wal, clients, history
<1>2. /\ Len(staged) \in 1..PipeLen /\ Pipe[Len(staged)] = Entry(staged[Len(staged)])
  <2>1. Len(staged) >= 1
    BY <1>1 DEF IInv, WriterInv, Publishing
  <2> QED BY <2>1, PipeFacts
<1>3. /\ o # 0 /\ o \in Nat /\ o <= Len(reg.heap)
      /\ \A r \in Runs : reg.runs[r] # o
  BY <1>1, <1>2, PipeFacts DEF ProtocolInv, OwnerInv, Entry, Commands, Settling
<1> HIDE DEF o
<1>4. o \in Objects /\ Running' = Running
  BY <1>1, <1>3 DEF Objects, Running, TypeInv
<1>5. DeleteSet(o, "deleted")
  BY <1>1, <1>4, SetDeleteFacts DEF CommitDeleteAppend, DeleteSet, Objects, TypeInv, DeleteStates
<1>6. TypeInv'
  BY <1>1, <1>5 DEF TypeInv, DeleteSet
<1>7. BatchInv'
  BY <1>1 DEF BatchInv
<1>8. ProtocolInv'
  BY <1>1, <1>5, CommitKeepsProtocol DEF o
<1>9. \A r \in Runs : reg.runs[r] # 0 => reg.runs[r] \in Objects
  BY DEF TypeInv, IsRegistry, ProtocolInv, OwnerInv, Objects
<1>10. SameStory
  BY <1>1, <1>3, <1>4, <1>5, <1>9 DEF SameStory, DeleteSet
<1> QED BY <1>6, <1>7, <1>8, <1>10

(* An applied record adds to the registry.                                  *)
LEMMA ApplyKeeps ==
  ASSUME IInv, TypeInv, BatchInv, ProtocolInv, ApplyCommittedEvent
  PROVE  /\ TypeInv' /\ BatchInv' /\ ProtocolInv'
         /\ Applied(file[next_seq + 1]) /\ next_seq' = next_seq + 1 /\ file' = file
         /\ next_seq \in Nat /\ reg'.forgotten = reg.forgotten
<1> DEFINE e == Applying.event
<1>1. /\ wpc = "apply" /\ wpc' \in {"apply", "evict", "guard"}
      /\ UNCHANGED <<file, queue, deferred, drop, staged, pc, call, gen>>
      /\ reg' = ApplyAppendedEvent(reg, e)
  BY DEF ApplyCommittedEvent, GuardOrNext, Wal, clients, history
<1>2. /\ Applying \in StagedAppends /\ e = file[next_seq + 1] /\ next_seq' = next_seq + 1
      /\ next_seq \in Nat
  BY ApplyFacts
<1>3. e.run \in Runs /\ e.kind \in Kinds
  BY <1>2 DEF StagedAppends, TimelineEvent
<1>4. Applied(e) /\ reg'.forgotten = reg.forgotten
  BY <1>1, <1>3, AppliedFacts DEF ProtocolInv
<1> HIDE DEF e
<1>5. IsRegistry(reg')
  BY <1>4 DEF Applied, Inserts, TypeInv
<1>6. TypeInv'
  BY <1>1, <1>5 DEF TypeInv
<1>7. BatchInv'
  BY <1>1 DEF BatchInv
<1> QED BY <1>1, <1>2, <1>4, <1>6, <1>7, ApplyKeepsProtocol

(* Nothing of a run follows its tombstone in the log, unless the registry   *)
(* forgot the run; and the registry tells what the applied records say.     *)
LogStory ==
  \A i, j \in 1..Len(file) :
    i < j /\ file[i].kind = "run_deleted" /\ file[j].run = file[i].run
      => file[i].run \in reg.forgotten

StoryInv == LogStory /\ (Running => Tells(reg, file, next_seq))

(* The writer evicts a tombstone that exists, and no run that was protected *)
(* before the writer looked.                                               *)
EvictInv ==
  /\ scan \in Nat /\ late \in SUBSET Runs
  /\ wpc = "remove" => reg.order # <<>>
  /\ \A r \in Protected \ late : ~EvictionDecided(r)

RInv == IInv /\ TypeInv /\ BatchInv /\ ProtocolInv /\ StoryInv /\ EvictInv

(* What SameStory leaves of the registry's half. *)
LEMMA SameStoryTells ==
  ASSUME SameStory, Running => Tells(reg, file, next_seq)
  PROVE  Running' => Tells(reg', file', next_seq')
<1> SUFFICES ASSUME Running' PROVE Tells(reg', file', next_seq)
  BY DEF SameStory
<1>1. Tells(reg, file, next_seq) /\ reg'.runs = reg.runs /\ reg'.forgotten = reg.forgotten
  BY DEF SameStory
<1>2. \A r : /\ \A kind : Says(file', next_seq, r, kind) = Says(file, next_seq, r, kind)
             /\ Mentions(file', next_seq, r) = Mentions(file, next_seq, r)
  BY DEF SameStory, Says, Mentions
<1>3. ASSUME NEW r \in Runs PROVE Present(reg', r) = Present(reg, r) /\ Summary(reg', r) = Summary(reg, r)
  <2>1. Present(reg', r) = Present(reg, r)
    BY <1>1 DEF Present
  <2>2. CASE Present(reg, r)
    <3>1. /\ reg'.heap[reg.runs[r]].created = reg.heap[reg.runs[r]].created
          /\ (reg'.heap[reg.runs[r]].del = "deleted") = (reg.heap[reg.runs[r]].del = "deleted")
      BY <2>2 DEF Present, SameStory
    <3>2. Deleted(reg', r) = Deleted(reg, r)
      BY <1>1, <2>1, <3>1 DEF Deleted, Present
    <3> QED BY <1>1, <2>1, <2>2, <3>1, <3>2 DEF Summary
  <2>3. CASE ~Present(reg, r)
    BY <2>1, <2>3, Zenon DEF Summary
  <2> QED BY <2>1, <2>2, <2>3
<1> QED BY <1>1, <1>2, <1>3 DEF Tells

(* The log's half, while the log does not grow. *)
LEMMA PrefixKeepsLogStory ==
  ASSUME LogStory, \A i \in 1..Len(file') : i \in 1..Len(file) /\ file'[i] = file[i],
         reg.forgotten \subseteq reg'.forgotten
  PROVE  LogStory'
  BY DEF LogStory

(* A record is staged: every tombstone before it is applied, and neither an  *)
(* ordinary event nor another delete passes one the registry remembers.      *)
LEMMA StageKeepsLogStory ==
  ASSUME RInv, StageCommand
  PROVE  LogStory'
<1>1. /\ wpc \in {"recv", "stage"} /\ ~RunIsDeleted(Current) /\ reg' = reg /\ HasCommand
      /\ CanTake /\ Dequeue
  BY DEF StageCommand, CanTake, Advance
<1>2. /\ Len(file) = next_seq + Len(staged) /\ next_seq \in Nat /\ Len(staged) \in Nat
      /\ StagedBehind(next_seq)
      /\ Len(file') = Len(file) + 1 /\ file'[Len(file) + 1].run = Current.run
      /\ \A i \in 1..Len(file) : file'[i] = file[i]
  BY StageFacts DEF RInv
<1>3. Current \in Commands /\ Done = 0
      /\ \A i \in 1..Len(staged) : staged[i].event.kind # "run_deleted"
  BY <1>1, TakeFacts DEF RInv
<1>4. ASSUME NEW i \in 1..Len(file), file[i].kind = "run_deleted", file[i].run = Current.run,
             Current.run \notin reg.forgotten
      PROVE  FALSE
  <2>1. i <= next_seq
    <3> SUFFICES ASSUME i > next_seq PROVE FALSE
      BY <1>2
    <3>1. i - next_seq \in 1..Len(staged) /\ next_seq + (i - next_seq) = i
      BY <1>2
    <3>2. staged[i - next_seq].event = file[i]
      BY <3>1, <1>2 DEF StagedBehind
    <3> QED BY <1>3, <1>4, <3>1, <3>2
  <2>2. Says(file, next_seq, Current.run, "run_deleted")
    BY <1>2, <1>4, <2>1 DEF Says
  <2>3. Tells(reg, file, next_seq) /\ Current.run \in Runs
    BY <1>1, <1>3 DEF RInv, StoryInv, Running, Commands
  <2>4. Summary(reg, Current.run).deleted
    BY <1>4, <2>2, <2>3 DEF Tells
  <2>5. Deleted(reg, Current.run)
    BY <2>4, Zenon DEF Summary, DefaultSummary
  <2>6. Current.kind = "run_deleted"
    BY <1>1, <2>5 DEF RunIsDeleted, IsDelete
  <2>7. Len(staged) + 1 \in Pending /\ Pipe[Len(staged) + 1] = Current
    BY <1>2, <1>3, PipeStage DEF RInv, Pending
  <2>8. reg.heap[reg.runs[Current.run]].del = "in_flight"
    BY <1>4, <2>6, <2>7 DEF RInv, ProtocolInv, DeleteInv
  <2> QED BY <2>5, <2>8 DEF Deleted
<1>5. \A j \in 1..Len(file') : j \in 1..Len(file) \/ j = Len(file) + 1
  BY <1>2
<1>6. \A i, j \in 1..Len(file') : i < j => i \in 1..Len(file)
  BY <1>2
<1> SUFFICES ASSUME NEW i \in 1..Len(file'), NEW j \in 1..Len(file'), i < j,
                    file'[i].kind = "run_deleted", file'[j].run = file'[i].run
             PROVE  file'[i].run \in reg.forgotten
  BY <1>1 DEF LogStory
<1>7. i \in 1..Len(file) /\ file'[i] = file[i]
  BY <1>2, <1>6
<1>8. CASE j \in 1..Len(file)
  BY <1>2, <1>7, <1>8 DEF RInv, StoryInv, LogStory
<1>9. CASE j = Len(file) + 1
  BY <1>2, <1>4, <1>7, <1>9
<1> QED BY <1>5, <1>8, <1>9

(* Applying a record adds it to what the registry tells. *)
LEMMA ApplyKeepsStory ==
  ASSUME RInv, ApplyCommittedEvent
  PROVE  StoryInv'
<1>1. /\ Applied(file[next_seq + 1]) /\ next_seq' = next_seq + 1 /\ file' = file
      /\ next_seq \in Nat
  BY ApplyKeeps DEF RInv
<1>2. Running /\ Tells(reg, file, next_seq)
  BY DEF ApplyCommittedEvent, Running, RInv, StoryInv
<1>3. Tells(reg', file, next_seq + 1)
  <2> DEFINE e == file[next_seq + 1]
  <2>1. CASE Inserts(reg, reg', e)
    <3>1. IsRegistry(reg) /\ \A r \in Runs : reg.runs[r] <= Len(reg.heap)
      BY DEF RInv, TypeInv, ProtocolInv, OwnerInv
    <3> QED BY <1>1, <1>2, <2>1, <3>1, StructuralTells
  <2>2. CASE reg' = reg /\ e.kind \notin {"run_created", "run_deleted"} /\ reg.runs[e.run] # 0
    <3>1. \A i : i \in 1..next_seq + 1 <=> i \in 1..next_seq \/ i = next_seq + 1
      BY <1>1
    <3>2. \A r : \A kind \in {"run_created", "run_deleted"} :
            Says(file, next_seq + 1, r, kind) = Says(file, next_seq, r, kind)
      BY <2>2, <3>1 DEF Says
    <3>3. \A r \in Runs \ reg.forgotten :
            Mentions(file, next_seq + 1, r) <=> Mentions(file, next_seq, r)
      BY <1>2, <2>2, <3>1 DEF Mentions, Tells, Present
    <3>4. \A r : /\ Says(file, next_seq + 1, r, "run_created") = Says(file, next_seq, r, "run_created")
                 /\ Says(file, next_seq + 1, r, "run_deleted") = Says(file, next_seq, r, "run_deleted")
      BY <3>2
    <3> HIDE DEF e
    <3> QED BY <1>2, <2>2, <3>3, <3>4 DEF Tells
  <2> QED BY <1>1, <2>1, <2>2 DEF Applied
<1>4. LogStory'
  <2>1. reg.forgotten \subseteq reg'.forgotten
    BY <1>1 DEF Applied, Inserts
  <2> QED BY <1>1, <2>1, PrefixKeepsLogStory DEF RInv, StoryInv
<1> QED BY <1>1, <1>3, <1>4 DEF StoryInv

(* A crash shortens the log and forgets nothing that was forgotten.        *)
LEMMA CrashKeepsStory ==
  ASSUME RInv, Crash
  PROVE  StoryInv'
<1>1. reg'.forgotten = reg.forgotten /\ ~Running'
  BY EmptyIsReplayed DEF Crash, EmptyRegistry, Running
<1>2. \A i \in 1..Len(file') : i \in 1..Len(file) /\ file'[i] = file[i]
  BY CrashFile DEF RInv
<1> QED BY <1>1, <1>2, PrefixKeepsLogStory DEF RInv, StoryInv

(* Opening the log reads it.                                               *)
LEMMA OpenKeepsStory ==
  ASSUME RInv, OpenStep
  PROVE  StoryInv'
<1>1. file' = file /\ reg' = reg /\ ~Running'
  BY OpenKeepsProtocol DEF RInv, OpenStep, writer, Running
<1>2. LogStory'
  BY <1>1, PrefixKeepsLogStory DEF RInv, StoryInv
<1> QED BY <1>1, <1>2 DEF StoryInv

(* A restart rebuilds the registry from the whole log.                     *)
LEMMA RestoreKeepsStory ==
  ASSUME RInv, Restore
  PROVE  StoryInv'
<1>1. file' = file /\ Replayed(reg', file, Len(file), reg.forgotten) /\ next_seq' = Len(file)
  BY RestoreKeepsProtocol DEF RInv, Restore
<1>2. reg.forgotten \subseteq reg'.forgotten /\ Tells(reg', file', next_seq')
  BY <1>1 DEF Replayed
<1>3. LogStory'
  BY <1>1, <1>2, PrefixKeepsLogStory DEF RInv, StoryInv
<1> QED BY <1>2, <1>3 DEF StoryInv

(* Every other step tells the same story. *)
LEMMA QuietKeepsStory ==
  ASSUME RInv, SameStory, StageCommand \/ file' = file
  PROVE  StoryInv'
<1>1. Running' => Tells(reg', file', next_seq')
  BY SameStoryTells DEF RInv, StoryInv
<1>2. LogStory'
  <2>1. CASE file' = file
    <3>1. reg.forgotten \subseteq reg'.forgotten
      BY DEF SameStory
    <3> QED BY <2>1, <3>1, PrefixKeepsLogStory DEF RInv, StoryInv
  <2> QED BY <2>1, StageKeepsLogStory
<1> QED BY <1>1, <1>2 DEF StoryInv

(* A turn of the eviction loop keeps the protocol. *)
LEMMA EvictionKeeps ==
  ASSUME RInv, CheckTombstone \/ RemoveTombstone \/ EndEviction
  PROVE  /\ TypeInv' /\ BatchInv' /\ ProtocolInv' /\ Evicts(reg, reg')
         /\ file' = file /\ next_seq' = next_seq
<1>1. /\ wpc \in {"evict", "remove"} /\ wpc' \in {"evict", "remove", "guard", "apply"}
      /\ wpc' \in {"guard", "apply"} =>
           wpc' = IF staged[Len(staged)].guard = 0 THEN "apply" ELSE "guard"
      /\ UNCHANGED <<file, queue, deferred, drop, staged, next_seq, pc, call, gen, acked>>
  BY DEF CheckTombstone, RemoveTombstone, EndEviction, Evicting, GuardOrNext, Wal, clients, history
<1>2. IsRegistry(reg)
  BY DEF RInv, TypeInv
<1>3. Evicts(reg, reg')
  <2>1. CASE CheckTombstone
    <3>1. reg.order # <<>>
      BY <2>1, RetentionCapAssumption, EmptySeq DEF CheckTombstone, Evicting, OverCap
    <3>2. reg' = reg \/ reg' = RotateOldest(reg)
      BY <2>1 DEF CheckTombstone
    <3> QED BY <1>2, <3>1, <3>2, RotateFacts DEF Evicts
  <2>2. CASE RemoveTombstone
    BY <1>2, <2>2, ForgetFacts DEF RemoveTombstone, RInv, EvictInv
  <2>3. CASE EndEviction
    BY <1>2, <2>3 DEF EndEviction, Evicts
  <2> QED BY <2>1, <2>2, <2>3
<1>4. TypeInv'
  BY <1>1, <1>3 DEF RInv, TypeInv, Evicts
<1>5. BatchInv'
  BY <1>1 DEF RInv, BatchInv
<1>6. ProtocolInv'
  BY <1>1, <1>3, EvictionKeepsProtocol DEF RInv
<1> QED BY <1>1, <1>3, <1>4, <1>5, <1>6

(* What is left of the registry tells what it told. *)
LEMMA EvictionKeepsStory ==
  ASSUME RInv, CheckTombstone \/ RemoveTombstone \/ EndEviction
  PROVE  StoryInv'
<1>1. Evicts(reg, reg') /\ file' = file /\ next_seq' = next_seq
  BY EvictionKeeps
<1>2. Running
  BY DEF CheckTombstone, RemoveTombstone, EndEviction, Evicting, Running
<1>3. Tells(reg, file, next_seq)
  BY <1>2 DEF RInv, StoryInv
<1>4. ASSUME NEW r \in Runs \ reg'.forgotten
      PROVE  Present(reg', r) = Present(reg, r) /\ Summary(reg', r) = Summary(reg, r)
  <2>1. reg'.runs[r] = reg.runs[r] /\ reg'.heap = reg.heap
    BY <1>1 DEF Evicts
  <2> QED BY <2>1, Zenon DEF Present, Summary, Deleted
<1>5. reg.forgotten \subseteq reg'.forgotten
  BY <1>1 DEF Evicts
<1>6. Tells(reg', file', next_seq')
  BY <1>1, <1>3, <1>4, <1>5 DEF Tells
<1>7. LogStory'
  BY <1>1, <1>5, PrefixKeepsLogStory DEF RInv, StoryInv
<1> QED BY <1>6, <1>7 DEF StoryInv

(* A step that leaves the FIFO, what is forgotten and who is protected.     *)
LEMMA EvictSame ==
  ASSUME EvictInv, reg'.order = reg.order, reg'.forgotten = reg.forgotten,
         gen' = gen, late' = late, scan' = scan, wpc' = "remove" => wpc = "remove"
  PROVE  EvictInv'
  BY DEF EvictInv, EvictionDecided, Protected, Oldest

(* A step that sets a delete_state or a list of waiters. *)
LEMMA HeapFacts ==
  ASSUME NEW g, IsRegistry(g), NEW o
  PROVE  /\ \A d : SetDelete(g, o, d).order = g.order /\ SetDelete(g, o, d).forgotten = g.forgotten
         /\ BeginDeleteAppend(g, o).order = g.order
         /\ BeginDeleteAppend(g, o).forgotten = g.forgotten
         /\ \A w : /\ [g EXCEPT !.heap[o].waiters = w].order = g.order
                   /\ [g EXCEPT !.heap[o].waiters = w].forgotten = g.forgotten
<1>1. g = [runs |-> g.runs, heap |-> g.heap, order |-> g.order, forgotten |-> g.forgotten]
  BY DEF IsRegistry
<1>2. \A x : /\ [g EXCEPT !.heap = x].order = g.order
            /\ [g EXCEPT !.heap = x].forgotten = g.forgotten
  BY <1>1
<1> QED BY <1>2 DEF SetDelete, BeginDeleteAppend

(* Every step keeps what is known of the eviction loop. *)
LEMMA NextKeepsEvict ==
  ASSUME RInv, [Next]_vars
  PROVE  EvictInv'
<1>0. EvictInv /\ IsRegistry(reg)
  BY DEF RInv, TypeInv
<1>1. CASE \/ DeferDelete \/ StageReject \/ StageCommand \/ StageWriteFails \/ EndBatch
           \/ SyncNothing \/ SyncBatch \/ StoreCommittedEnd \/ Publish \/ ReplyOk \/ ReplyErr
           \/ UNCHANGED vars
  <2>1. UNCHANGED <<reg, gen, late, scan>> /\ (wpc' = "remove" => wpc = "remove")
    BY <1>1 DEF DeferDelete, StageReject, StageCommand, StageWriteFails, EndBatch, SyncNothing,
                SyncBatch, StoreCommittedEnd, Publish, ReplyOk, ReplyErr, Advance, history,
                vars, writer
  <2> QED BY <1>0, <2>1, EvictSame
<1>2. CASE CommitGuard \/ DropGuard
  <2>1. /\ UNCHANGED <<gen, late, scan>> /\ (wpc' = "remove" => wpc = "remove")
        /\ \E o, d : reg' = SetDelete(reg, o, d)
    BY <1>2 DEF CommitGuard, DropGuard, CommitDeleteAppend, RollbackDeleteAppend, history
  <2> QED BY <1>0, <2>1, HeapFacts, EvictSame
<1>3. CASE ApplyCommittedEvent
  <2>1. reg'.forgotten = reg.forgotten
    BY <1>3, ApplyKeeps DEF RInv
  <2>2. UNCHANGED <<gen, late, scan>> /\ wpc = "apply" /\ wpc' # "remove"
    BY <1>3 DEF ApplyCommittedEvent, GuardOrNext, history
  <2> QED BY <1>0, <2>1, <2>2 DEF EvictInv, EvictionDecided, Protected
<1>4. CASE CheckTombstone
  <2>1. reg.order # <<>>
    BY <1>4, RetentionCapAssumption, EmptySeq DEF CheckTombstone, Evicting, OverCap
  <2>2. UNCHANGED <<gen, late>> /\ wpc = "evict"
    BY <1>4 DEF CheckTombstone, Evicting, history
  <2>3. CASE reg' = RotateOldest(reg) /\ scan' = scan + 1 /\ wpc' = wpc
    <3>1. reg'.forgotten = reg.forgotten
      BY <1>0, <2>1, <2>3, RotateFacts
    <3> QED BY <1>0, <2>2, <2>3, <3>1 DEF EvictInv, EvictionDecided, Protected
  <2>4. CASE Oldest(reg) \notin Protected /\ UNCHANGED <<reg, scan>>
    BY <1>0, <2>1, <2>2, <2>4 DEF EvictInv, EvictionDecided, Protected
  <2> QED BY <1>4, <2>3, <2>4 DEF CheckTombstone
<1>5. CASE RemoveTombstone
  <2>1. /\ UNCHANGED <<gen, late>> /\ wpc = "remove" /\ wpc' = "evict" /\ scan' = 0
        /\ reg' = ForgetOldest(reg)
    BY <1>5 DEF RemoveTombstone, history
  <2>2. reg'.forgotten \subseteq reg.forgotten \cup {Oldest(reg)}
    BY <1>0, <2>1, ForgetFacts DEF EvictInv
  <2> QED BY <1>0, <2>1, <2>2 DEF EvictInv, EvictionDecided, Protected
<1>6. CASE EndEviction
  <2>1. UNCHANGED <<reg, gen, late>> /\ scan' = 0 /\ wpc' # "remove"
    BY <1>6 DEF EndEviction, GuardOrNext, history
  <2> QED BY <1>0, <2>1 DEF EvictInv, EvictionDecided, Protected
<1>7. ASSUME NEW c \in Clients, ClientStep(c)
      PROVE  EvictInv'
  <2>1. UNCHANGED <<gen, late, scan, wpc>>
    BY <1>7 DEF ClientStep, CheckDeleted, Lookup, Claim, Arm, Test, Wake, Send, SendRefused,
                writer, history
  <2>2. \/ reg' = reg
        \/ \E o, d : reg' = SetDelete(reg, o, d)
        \/ \E o : reg' = BeginDeleteAppend(reg, o)
        \/ \E o, w : reg' = [reg EXCEPT !.heap[o].waiters = w]
    <3>1. CASE CheckDeleted(c) \/ Lookup(c) \/ Wake(c) \/ Send(c)
      <4>1. reg' = reg
        BY <3>1 DEF CheckDeleted, Lookup, Wake, Send
      <4> QED BY <4>1
    <3>2. CASE Claim(c)
      <4> DEFINE del == reg.heap[call[c].arc].del
      <4>1. pc[c] = "claim" /\ del \in {"live", "deleted", "in_flight"} =>
              reg' = reg \/ reg' = BeginDeleteAppend(reg, call[c].arc)
        BY <3>2 DEF Claim
      <4>2. pc[c] = "claim" /\ del \in {"live", "deleted", "in_flight"}
        <5>1. pc[c] = "claim"
          BY <3>2 DEF Claim
        <5>2. call[c].arc \in 1..Len(reg.heap)
          BY <1>0, <5>1 DEF RInv, TypeInv, ProtocolInv, CallInv, OwnerInv, Calling, Deleters
        <5>3. reg.heap[call[c].arc] \in RunStates
          BY <1>0, <5>2, ElementOfSeq DEF IsRegistry
        <5> QED BY <5>1, <5>3 DEF RunStates, DeleteStates
      <4> HIDE DEF del
      <4> QED BY <4>1, <4>2
    <3>3. CASE Arm(c)
      <4>1. reg' = [reg EXCEPT !.heap[call[c].arc].waiters = @ \cup {c}]
        BY <3>3 DEF Arm
      <4> QED BY <4>1
    <3>4. CASE Test(c)
      <4>1. reg' = reg \/ reg' = [reg EXCEPT !.heap[call[c].arc].waiters = @ \ {c}]
        BY <3>4 DEF Test
      <4> QED BY <4>1
    <3>5. CASE SendRefused(c)
      BY <3>5 DEF SendRefused, RollbackDeleteAppend
    <3> QED BY <1>7, <3>1, <3>2, <3>3, <3>4, <3>5 DEF ClientStep
  <2>3. reg'.order = reg.order /\ reg'.forgotten = reg.forgotten
    <3>1. CASE \E o, d : reg' = SetDelete(reg, o, d)
      BY <1>0, <3>1, HeapFacts
    <3>2. CASE \E o : reg' = BeginDeleteAppend(reg, o)
      BY <1>0, <3>2, HeapFacts
    <3>3. CASE \E o, w : reg' = [reg EXCEPT !.heap[o].waiters = w]
      <4>1. PICK o, w : reg' = [reg EXCEPT !.heap[o].waiters = w]
        BY <3>3
      <4> QED BY <1>0, <4>1, HeapFacts
    <3> QED BY <2>2, <3>1, <3>2, <3>3
  <2> QED BY <1>0, <2>1, <2>3, EvictSame
<1>8. ASSUME NEW c \in Clients, NEW r \in Runs,
             StartCreate(c, r) \/ StartAppend(c, r) \/ StartDelete(c, r)
      PROVE  EvictInv'
  <2>1. /\ UNCHANGED <<reg, late, scan, wpc>>
        /\ gen' = gen \/ gen' = [gen EXCEPT ![r] = "used"]
    BY <1>8 DEF StartCreate, StartAppend, StartDelete, writer, history
  <2> QED BY <1>0, <2>1 DEF EvictInv, EvictionDecided, Protected, RInv, TypeInv
<1>9. ASSUME NEW r \in Runs, AppendDetached(r) \/ ReleaseTombstone(r)
      PROVE  EvictInv'
  <2>1. /\ UNCHANGED <<reg, late, scan, wpc>>
        /\ gen' = gen \/ gen' = [gen EXCEPT ![r] = "joined"]
    BY <1>9 DEF AppendDetached, ReleaseTombstone, writer, history
  <2> QED BY <1>0, <2>1 DEF EvictInv, EvictionDecided, Protected, RInv, TypeInv
<1>10. ASSUME NEW r \in Runs, ProtectTombstone(r)
       PROVE  EvictInv'
  <2>1. /\ UNCHANGED <<reg, scan, wpc>> /\ gen' = [gen EXCEPT ![r] = "live"]
        /\ late' = IF EvictionDecided(r) THEN late \cup {r} ELSE late
    BY <1>10 DEF ProtectTombstone, writer
  <2> QED BY <1>0, <2>1 DEF EvictInv, EvictionDecided, Protected, RInv, TypeInv
<1>11. CASE OpenStep
  <2>1. UNCHANGED <<reg, gen, late, scan, wpc>>
    BY <1>11 DEF OpenStep, writer, history
  <2> QED BY <1>0, <2>1, EvictSame
<1>12. CASE Restore
  <2>1. /\ UNCHANGED <<late, scan>> /\ wpc' = "recv"
        /\ \A r \in Runs : gen'[r] # "live"
    BY <1>12 DEF Restore, history
  <2> QED BY <1>0, <2>1 DEF EvictInv, EvictionDecided, Protected
<1>13. CASE Crash
  <2>1. UNCHANGED <<gen, late>> /\ wpc' = "down" /\ scan' = 0 /\ reg'.forgotten = reg.forgotten
    BY <1>13, EmptyIsReplayed DEF Crash, EmptyRegistry
  <2> QED BY <1>0, <2>1 DEF EvictInv, EvictionDecided, Protected
<1> QED BY <1>1, <1>2, <1>3, <1>4, <1>5, <1>6, <1>7, <1>8, <1>9, <1>10, <1>11, <1>12, <1>13
     DEF Next, WriterStep

(* Nothing of the protocol moves when nothing happens. *)
LEMMA StutterKeeps ==
  ASSUME RInv, UNCHANGED vars
  PROVE  TypeInv' /\ BatchInv' /\ ProtocolInv' /\ SameStory
<1>1. UNCHANGED <<file, queue, deferred, wpc, staged, drop, next_seq, reg, gen, pc, call, acked>>
  BY DEF vars, Wal, writer, clients, history
<1>2. TypeInv'
  BY <1>1 DEF RInv, TypeInv
<1>3. BatchInv'
  BY <1>1 DEF RInv, BatchInv
<1>4. SameStory
  BY <1>1 DEF SameStory, Running
<1>5. PipeLen' = PipeLen /\ Pipe' = Pipe /\ Done' = Done
  BY <1>1 DEF PipeLen, Pipe, Held, Entry, Done, Publishing
<1>6. /\ Pending' = Pending /\ Calling' = Calling /\ Senders' = Senders
      /\ Deleters' = Deleters /\ Objects' = Objects /\ Running' = Running
  BY <1>1, <1>5 DEF Pending, Calling, Senders, Deleters, Objects, Running
<1>7. \A o : Committing(o)' = Committing(o)
  BY <1>1 DEF Committing, Settling
<1>8. \A r : Recorded(r)' = Recorded(r)
  BY <1>1 DEF Recorded
<1>9. CallInv' /\ ReplyInv' /\ OwnerInv'
  BY <1>1, <1>5, <1>6 DEF RInv, ProtocolInv, CallInv, ReplyInv, OwnerInv, Settling
<1>10. GuardInv'
  BY <1>1, <1>5, <1>6, <1>7 DEF RInv, ProtocolInv, GuardInv
<1>11. DeleteInv'
  BY <1>1, <1>5, <1>6, <1>7 DEF RInv, ProtocolInv, DeleteInv
<1>12. BirthInv'
  BY <1>1, <1>5, <1>6, <1>8 DEF RInv, ProtocolInv, BirthInv
<1> QED BY <1>2, <1>3, <1>4, <1>9, <1>10, <1>11, <1>12 DEF ProtocolInv

(* The steps after which log and registry tell what they told before. *)
QuietStep ==
  \/ DeferDelete \/ StageReject \/ StageCommand \/ StageWriteFails \/ EndBatch
  \/ SyncNothing \/ SyncBatch \/ StoreCommittedEnd \/ CommitGuard \/ Publish
  \/ ReplyOk \/ ReplyErr \/ DropGuard
  \/ \E c \in Clients :
       \/ ClientStep(c)
       \/ \E r \in Runs : StartCreate(c, r) \/ StartAppend(c, r) \/ StartDelete(c, r)
  \/ \E r \in Runs : AppendDetached(r) \/ ProtectTombstone(r) \/ ReleaseTombstone(r)
  \/ UNCHANGED vars

(* Only staging writes to the file.                                        *)
LEMMA QuietFile == ASSUME QuietStep PROVE StageCommand \/ file' = file
<1>1. CASE DeferDelete \/ StageReject \/ StageWriteFails \/ EndBatch
  BY <1>1 DEF DeferDelete, StageReject, StageWriteFails, EndBatch, Wal, W!StageFail
<1>2. CASE SyncNothing \/ SyncBatch \/ StoreCommittedEnd \/ CommitGuard \/ Publish
  BY <1>2 DEF SyncNothing, SyncBatch, StoreCommittedEnd, CommitGuard, Publish, Wal,
              W!SyncOk, W!SyncFail, W!disk
<1>3. CASE ReplyOk \/ ReplyErr \/ DropGuard \/ UNCHANGED vars
  BY <1>3 DEF ReplyOk, ReplyErr, DropGuard, vars, Wal
<1>4. CASE \E c \in Clients :
             \/ ClientStep(c)
             \/ \E r \in Runs : StartCreate(c, r) \/ StartAppend(c, r) \/ StartDelete(c, r)
  BY <1>4 DEF ClientStep, CheckDeleted, Lookup, Claim, Arm, Test, Wake, Send, SendRefused,
              StartCreate, StartAppend, StartDelete, Wal
<1>5. CASE \E r \in Runs : AppendDetached(r) \/ ProtectTombstone(r) \/ ReleaseTombstone(r)
  BY <1>5 DEF AppendDetached, ProtectTombstone, ReleaseTombstone, Wal
<1> QED BY <1>1, <1>2, <1>3, <1>4, <1>5 DEF QuietStep

(* Every quiet step keeps the invariant.                                   *)
LEMMA QuietKeepsRInv ==
  ASSUME RInv, IInv', EvictInv', QuietStep
  PROVE  RInv' /\ SameStory
<1>1. TypeInv' /\ BatchInv' /\ ProtocolInv' /\ SameStory
  <2>0. IInv /\ TypeInv /\ BatchInv /\ ProtocolInv
    BY DEF RInv
  <2>1. CASE DeferDelete \/ StageCommand
    BY <2>0, <2>1, DeferKeeps, StageKeeps
  <2>2. CASE StageReject \/ StageWriteFails
    BY <2>0, <2>2, StageRejectKeeps
  <2>3. CASE EndBatch \/ SyncNothing \/ SyncBatch \/ StoreCommittedEnd \/ Publish
    BY <2>0, <2>3, SteadyKeeps
  <2>4. CASE CommitGuard \/ DropGuard
    BY <2>0, <2>4, CommitGuardKeeps, DropGuardKeeps
  <2>5. CASE ReplyOk \/ ReplyErr
    BY <2>0, <2>5, ReplyOkKeeps, ReplyErrKeeps
  <2>6. ASSUME NEW c \in Clients, ClientStep(c)
        PROVE  TypeInv' /\ BatchInv' /\ ProtocolInv' /\ SameStory
    BY <2>0, <2>6, CheckKeeps, LookupKeeps, ClaimKeeps, WaitKeeps, SendKeeps, RefusedKeeps
       DEF ClientStep
  <2>7. ASSUME NEW c \in Clients, NEW r \in Runs,
               StartCreate(c, r) \/ StartAppend(c, r) \/ StartDelete(c, r)
        PROVE  TypeInv' /\ BatchInv' /\ ProtocolInv' /\ SameStory
    BY <2>0, <2>7, StartKeeps
  <2>8. ASSUME NEW r \in Runs, AppendDetached(r) \/ ProtectTombstone(r) \/ ReleaseTombstone(r)
        PROVE  TypeInv' /\ BatchInv' /\ ProtocolInv' /\ SameStory
    BY <2>0, <2>8, WorkerKeeps
  <2>9. CASE UNCHANGED vars
    BY <2>9, StutterKeeps
  <2> QED BY <2>1, <2>2, <2>3, <2>4, <2>5, <2>6, <2>7, <2>8, <2>9 DEF QuietStep
<1>2. StoryInv'
  BY <1>1, QuietFile, QuietKeepsStory
<1> QED BY <1>1, <1>2 DEF RInv

(* So does every step.                                                     *)
LEMMA NextKeepsRInv == RInv /\ [Next]_vars => RInv'
<1> SUFFICES ASSUME RInv, [Next]_vars PROVE RInv'
  OBVIOUS
<1>1. IInv' /\ EvictInv'
  BY NextKeepsIInv, NextKeepsEvict DEF RInv
<1>2. CASE QuietStep
  BY <1>1, <1>2, QuietKeepsRInv
<1>3. CASE ApplyCommittedEvent
  BY <1>1, <1>3, ApplyKeeps, ApplyKeepsStory DEF RInv
<1>7. CASE CheckTombstone \/ RemoveTombstone \/ EndEviction
  BY <1>1, <1>7, EvictionKeeps, EvictionKeepsStory DEF RInv
<1>4. CASE Crash
  BY <1>1, <1>4, CrashKeepsProtocol, CrashKeepsStory DEF RInv
<1>5. CASE OpenStep
  BY <1>1, <1>5, OpenKeepsProtocol, OpenKeepsStory DEF RInv
<1>6. CASE Restore
  BY <1>1, <1>6, RestoreKeepsProtocol, RestoreKeepsStory DEF RInv
<1> QED BY <1>2, <1>3, <1>4, <1>5, <1>6, <1>7 DEF Next, WriterStep, QuietStep

(* Nothing is logged, registered or on the way.                            *)
LEMMA InitRInv == Init => RInv
<1> SUFFICES ASSUME Init PROVE RInv
  OBVIOUS
<1>0. IInv
  BY InitIInv
<1>1. /\ file = <<>> /\ queue = <<>> /\ deferred = None /\ wpc = "down" /\ staged = <<>>
      /\ drop = 0 /\ next_seq = 0 /\ reg = EmptyRegistry
      /\ gen = [r \in Runs |-> "unused"] /\ pc = [c \in Clients |-> "idle"]
      /\ call = [c \in Clients |-> NoCall] /\ acked = {}
  BY DEF Init, W!Init
<1>2. Len(<<>>) = 0 /\ \A i : i \notin 1..0
  BY EmptySeq
<1>3. IsRegistry(reg) /\ \A r \in Runs : reg.runs[r] = 0
  <2>1. <<>> \in Seq(RunStates) /\ <<>> \in Seq(Runs)
    BY EmptySeq
  <2> QED BY <1>1, <2>1 DEF EmptyRegistry, IsRegistry
<1>4. Len(reg.heap) = 0
  BY <1>1, <1>2 DEF EmptyRegistry
<1>5. TypeInv
  <2>1. <<>> \in Seq(Commands) /\ <<>> \in Seq(StagedAppends)
    BY EmptySeq
  <2> QED BY <1>1, <1>2, <1>3, <2>1, NoCallFacts DEF TypeInv, Calls, Generations
<1>6. BatchInv
  BY <1>1, <1>2 DEF BatchInv
<1>7. PipeLen = 0 /\ ~Running
  BY <1>1, <1>2 DEF PipeLen, Held, Running
<1>8. \A i : i \notin 1..PipeLen /\ i \notin Pending
  BY <1>7 DEF Pending
<1>9. Calling = {} /\ Senders = {} /\ Deleters = {} /\ Objects = {}
  BY <1>1, <1>4 DEF Calling, Senders, Deleters, Objects
<1>10. ProtocolInv
  <2>1. CallInv /\ ReplyInv
    BY <1>1, <1>8, <1>9 DEF CallInv, ReplyInv
  <2>2. OwnerInv
    BY <1>1, <1>3, <1>4, <1>8, <1>9 DEF OwnerInv, Settling
  <2>3. GuardInv /\ DeleteInv
    BY <1>1, <1>8, <1>9 DEF GuardInv, DeleteInv
  <2>4. BirthInv
    BY <1>7 DEF BirthInv
  <2> QED BY <2>1, <2>2, <2>3, <2>4 DEF ProtocolInv
<1>11. StoryInv
  <2>1. LogStory
    BY <1>1, <1>2 DEF LogStory
  <2> QED BY <1>7, <2>1 DEF StoryInv
<1>12. EvictInv
  BY <1>1 DEF Init, EvictInv, Protected
<1> QED BY <1>0, <1>5, <1>6, <1>10, <1>11, <1>12 DEF RInv

---------------------------------------------------------------------------
(* The inductive invariant of the deletion protocol. *)
THEOREM ProtocolInvariance == Spec => []RInv
  BY InitRInv, NextKeepsRInv, PTL DEF Spec

(* The two halves of the story, in the words of the specification. *)
LEMMA StoryIsTold ==
  ASSUME RInv
  PROVE  NothingAfterTombstone /\ DeletedOnce /\ RegistryMatchesReplay
<1>1. DOMAIN file = 1..Len(file)
  BY SeqFacts DEF RInv, IInv, FileInv
<1>2. NothingAfterTombstone /\ DeletedOnce
  BY <1>1 DEF NothingAfterTombstone, DeletedOnce, Tombstone, RInv, StoryInv, LogStory
<1>3. RegistryMatchesReplay
  BY DEF RegistryMatchesReplay, RInv, StoryInv, Tells, Says, Mentions
<1> QED BY <1>2, <1>3

(* No record of a run follows its tombstone while the registry remembers it, *)
(* and a restart rebuilds what the registry answers.                         *)
THEOREM LogAndRegistryAgree == Spec => []LogAgreesWithRegistry
<1>1. RInv => LogAgreesWithRegistry
  BY StoryIsTold DEF LogAgreesWithRegistry
<1> QED BY <1>1, ProtocolInvariance, PTL

(* A claimed RunState is held by one guard: where it is, and only there. *)
LEMMA OneGuard ==
  ASSUME RInv
  PROVE  ClaimHasOneGuard
<1> SUFFICES ASSUME NEW o \in DOMAIN reg.heap, reg.heap[o].del = "in_flight"
             PROVE  Cardinality(GuardHolders(o)) = 1
  BY DEF ClaimHasOneGuard
<1> DEFINE m == Len(staged)
<1>1. o \in Objects /\ o # 0
  <2>1. DOMAIN reg.heap = 1..Len(reg.heap)
    BY LenProperties DEF RInv, TypeInv, IsRegistry
  <2> QED BY <2>1 DEF Objects
<1>2. /\ m \in Nat /\ Len(queue) \in Nat /\ Held \in {0, 1} /\ PipeLen = m + Held + Len(queue)
      /\ DOMAIN staged = 1..m /\ DOMAIN queue = 1..Len(queue)
      /\ \A i \in 1..PipeLen :
           Pipe[i] = IF i <= m THEN Entry(staged[i])
                     ELSE IF i <= m + Held THEN deferred ELSE queue[i - m - Held]
      /\ (Held = 1) = (deferred # None)
  BY PipeFacts, SeqFacts DEF RInv, Held
<1> HIDE DEF m
<1>3. /\ \A c \in Clients : <<"client", c>> \in GuardHolders(o) <=> c \in Senders /\ call[c].arc = o
      /\ \A h \in GuardHolders(o) :
           \/ \E c \in Senders : call[c].arc = o /\ h = <<"client", c>>
           \/ \E i \in 1..Len(queue) : queue[i].guard = o /\ h = <<"queue", i>>
           \/ \E i \in 1..m : staged[i].guard = o /\ h = <<"staged", i>>
           \/ deferred # None /\ deferred.guard = o /\ h = <<"deferred", 0>>
           \/ drop = o /\ h = <<"drop", 0>>
  BY <1>2 DEF GuardHolders, Senders
<1> DEFINE place(i) == IF i <= m THEN <<"staged", i>>
                       ELSE IF i <= m + Held THEN <<"deferred", 0>> ELSE <<"queue", i - m - Held>>
<1>4. \A h \in GuardHolders(o) :
           \/ \E c \in Senders : call[c].arc = o /\ h = <<"client", c>>
           \/ \E i \in 1..PipeLen : Pipe[i].guard = o /\ h = place(i)
           \/ drop = o /\ h = <<"drop", 0>>
  <2> TAKE h \in GuardHolders(o)
  <2>1. CASE \E i \in 1..Len(queue) : queue[i].guard = o /\ h = <<"queue", i>>
    <3>1. PICK i \in 1..Len(queue) : queue[i].guard = o /\ h = <<"queue", i>>
      BY <2>1
    <3>2. i + m + Held \in 1..PipeLen /\ (i + m + Held) - m - Held = i
          /\ ~(i + m + Held <= m) /\ ~(i + m + Held <= m + Held)
      BY <1>2
    <3>3. Pipe[i + m + Held] = queue[i] /\ place(i + m + Held) = <<"queue", i>>
      BY <1>2, <3>2
    <3> QED BY <3>1, <3>2, <3>3
  <2>2. CASE \E i \in 1..m : staged[i].guard = o /\ h = <<"staged", i>>
    <3>1. PICK i \in 1..m : staged[i].guard = o /\ h = <<"staged", i>>
      BY <2>2
    <3>2. i \in 1..PipeLen /\ Pipe[i] = Entry(staged[i]) /\ place(i) = <<"staged", i>>
      BY <1>2
    <3> QED BY <3>1, <3>2 DEF Entry
  <2>3. CASE deferred # None /\ deferred.guard = o /\ h = <<"deferred", 0>>
    <3>1. m + 1 \in 1..PipeLen /\ ~(m + 1 <= m) /\ m + 1 <= m + Held
      BY <1>2, <2>3
    <3>2. Pipe[m + 1] = deferred /\ place(m + 1) = <<"deferred", 0>>
      BY <1>2, <3>1
    <3> QED BY <2>3, <3>1, <3>2
  <2> HIDE DEF place
  <2> QED BY <1>3, <2>1, <2>2, <2>3
<1>5. \A i \in 1..PipeLen : Pipe[i].guard = o => place(i) \in GuardHolders(o)
  <2> SUFFICES ASSUME NEW i \in 1..PipeLen, Pipe[i].guard = o PROVE place(i) \in GuardHolders(o)
    OBVIOUS
  <2>1. CASE i <= m
    <3>1. i \in DOMAIN staged /\ place(i) = <<"staged", i>> /\ Pipe[i] = Entry(staged[i])
      BY <1>2, <2>1
    <3>2. staged[i].guard = o
      BY <3>1 DEF Entry
    <3> QED BY <3>1, <3>2 DEF GuardHolders
  <2>2. CASE i > m /\ i <= m + Held
    <3>1. deferred # None /\ deferred.guard = o /\ place(i) = <<"deferred", 0>>
      BY <1>2, <2>2
    <3> QED BY <3>1 DEF GuardHolders
  <2>3. CASE i > m + Held
    <3>1. /\ i - m - Held \in DOMAIN queue /\ queue[i - m - Held].guard = o
          /\ place(i) = <<"queue", i - m - Held>>
      BY <1>2, <2>3
    <3> QED BY <3>1 DEF GuardHolders
  <2> QED BY <1>2, <2>1, <2>2, <2>3
<1> HIDE DEF place
<1>6. drop = o => <<"drop", 0>> \in GuardHolders(o)
  BY DEF GuardHolders
<1>7. \E h : GuardHolders(o) = {h}
  <2>1. CASE \E i \in 1..PipeLen : Pipe[i].guard = o
    <3>1. PICK i \in 1..PipeLen : Pipe[i].guard = o
      BY <2>1
    <3>2. /\ \A j \in 1..PipeLen : Pipe[j].guard = o => j = i
          /\ \A c \in Senders : call[c].arc # o
          /\ drop # o
      BY <1>1, <3>1 DEF RInv, ProtocolInv, GuardInv
    <3>3. \A h \in GuardHolders(o) : h = place(i)
      BY <1>4, <3>2
    <3> QED BY <1>5, <3>1, <3>3
  <2>2. CASE \E c \in Senders : call[c].arc = o
    <3>1. PICK c \in Senders : call[c].arc = o
      BY <2>2
    <3>2. /\ \A d \in Senders : call[d].arc = o => d = c
          /\ \A i \in 1..PipeLen : Pipe[i].guard # o
          /\ drop # o
      BY <1>1, <3>1 DEF RInv, ProtocolInv, GuardInv
    <3>3. <<"client", c>> \in GuardHolders(o)
      BY <1>3, <3>1 DEF Senders
    <3>4. \A h \in GuardHolders(o) : h = <<"client", c>>
      BY <1>4, <3>2
    <3> QED BY <3>3, <3>4
  <2>3. CASE drop = o
    <3>1. /\ \A c \in Senders : call[c].arc # o
          /\ \A i \in 1..PipeLen : Pipe[i].guard # o
      BY <1>1, <2>3 DEF RInv, ProtocolInv, GuardInv
    <3>2. \A h \in GuardHolders(o) : h = <<"drop", 0>>
      BY <1>4, <3>1
    <3> QED BY <1>6, <2>3, <3>2
  <2> QED BY <1>1, <2>1, <2>2, <2>3 DEF RInv, ProtocolInv, GuardInv
<1> QED BY <1>7, FS_Singleton

(* Of concurrent deleters one appends the tombstone, and its claim is on     *)
(* its way to commit or roll back.                                           *)
THEOREM DeletionIsWonOnce == Spec => []DeletionHasOneWinner
<1>1. RInv => DeletionHasOneWinner
  BY StoryIsTold, OneGuard DEF DeletionHasOneWinner
<1> QED BY <1>1, ProtocolInvariance, PTL

(* A deleted run with live workers is still known to be deleted, unless its *)
(* protection came after the eviction loop had looked.                      *)
THEOREM LiveTombstoneIsRetained == Spec => []LiveTombstoneRetained
<1>1. RInv => LiveTombstoneRetained
  <2> SUFFICES ASSUME RInv, Running, NEW r \in Protected \ late, NEW i \in 1..next_seq,
                      file[i].run = r, Tombstone(i)
               PROVE  Deleted(reg, r)
    BY DEF LiveTombstoneRetained
  <2>1. r \in Runs \ reg.forgotten
    BY DEF RInv, EvictInv, EvictionDecided, Protected
  <2>2. Summary(reg, r) = [created |-> Says(file, next_seq, r, "run_created"),
                           deleted |-> Says(file, next_seq, r, "run_deleted")]
        /\ (Present(reg, r) <=> Mentions(file, next_seq, r))
    BY <2>1 DEF RInv, StoryInv, Tells
  <2>3. Says(file, next_seq, r, "run_deleted") /\ Mentions(file, next_seq, r)
    BY DEF Tombstone, Says, Mentions
  <2>4. Summary(reg, r).deleted = Deleted(reg, r)
    BY <2>2, <2>3 DEF Summary
  <2> QED BY <2>2, <2>3, <2>4
<1> QED BY <1>1, ProtocolInvariance, PTL

---------------------------------------------------------------------------
(* Room: every record in the file, on its way to it, or about to be sent   *)
(* was counted when its call started.                                      *)
DemandInv ==
  /\ IsFiniteSet(Calling)
  /\ Len(file) + Held + Len(queue) + Cardinality(Calling) <= MaxFile

Bounded ==
  /\ synced \in BOOLEAN /\ handle \in W!Handles
  /\ {taken, ops, crashes} \subseteq Nat
  /\ pending_end \in 0..MaxFile

SizeInv == Bounded /\ DemandInv

(* The numbers in it are numbers. *)
LEMMA DemandFacts ==
  ASSUME RInv
  PROVE  /\ Len(file) \in Nat /\ Held \in {0, 1} /\ Len(queue) \in Nat
         /\ IsFiniteSet(Calling) => Cardinality(Calling) \in Nat
<1>1. Len(file) \in Nat
  BY SeqFacts DEF RInv, IInv, FileInv
<1> QED BY <1>1, PipeFacts, FS_CardinalityType DEF RInv

(* A step that hands on or gives up a record asks for no more room. *)
LEMMA DemandShrinks ==
  ASSUME RInv, RInv', DemandInv, Calling' \in SUBSET Calling,
         Len(file') + Held' + Len(queue') <= Len(file) + Held + Len(queue)
  PROVE  DemandInv'
<1>1. /\ IsFiniteSet(Calling') /\ Cardinality(Calling') <= Cardinality(Calling)
      /\ Cardinality(Calling) \in Nat /\ Cardinality(Calling') \in Nat
  BY FS_Subset, FS_CardinalityType DEF DemandInv
<1>2. /\ Len(file) \in Nat /\ Held \in {0, 1} /\ Len(queue) \in Nat
      /\ Len(file') \in Nat /\ Held' \in {0, 1} /\ Len(queue') \in Nat
  <2>1. Len(file') \in Nat
    BY SeqFacts DEF RInv, IInv, FileInv
  <2>2. Len(queue') \in Nat
    BY LenProperties DEF RInv, TypeInv
  <2>3. Held' \in {0, 1}
    BY DEF Held
  <2> QED BY <2>1, <2>2, <2>3, DemandFacts
<1>3. MaxFile \in Nat
  BY BoundsAssumption
<1> QED BY <1>1, <1>2, <1>3 DEF DemandInv

(* A call that starts takes room for one record. *)
LEMMA StartDemand ==
  ASSUME RInv, DemandInv, NEW c \in Clients, NEW r \in Runs,
         StartCreate(c, r) \/ StartAppend(c, r) \/ StartDelete(c, r)
  PROVE  DemandInv'
<1>1. /\ Room /\ UNCHANGED <<file, deferred, queue>>
      /\ \E l \in ClientPCs : pc' = [pc EXCEPT ![c] = l]
  BY DEF StartCreate, StartAppend, StartDelete, Start, Goto, ClientPCs, Wal, writer
<1>2. Calling' \in SUBSET (Calling \cup {c})
  BY <1>1 DEF Calling, RInv, TypeInv
<1>3. /\ IsFiniteSet(Calling \cup {c}) /\ IsFiniteSet(Calling)
      /\ Cardinality(Calling \cup {c}) <= Cardinality(Calling) + 1
      /\ Cardinality(Calling) \in Nat
  <2>1. IsFiniteSet(Calling)
    BY DEF DemandInv
  <2>2. Cardinality(Calling) \in Nat
    BY <2>1, FS_CardinalityType
  <2>3. /\ IsFiniteSet(Calling \cup {c})
        /\ Cardinality(Calling \cup {c}) =
             IF c \in Calling THEN Cardinality(Calling) ELSE Cardinality(Calling) + 1
    BY <2>1, FS_AddElement
  <2> QED BY <2>1, <2>2, <2>3
<1>4. /\ IsFiniteSet(Calling') /\ Cardinality(Calling') <= Cardinality(Calling \cup {c})
      /\ Cardinality(Calling') \in Nat /\ Cardinality(Calling \cup {c}) \in Nat
  BY <1>2, <1>3, FS_Subset, FS_CardinalityType
<1>5. Len(file) + Len(queue) + Held + Cardinality(Calling) < MaxFile
  BY <1>1 DEF Room, Held, Calling
<1>6. Held' = Held /\ MaxFile \in Nat
  BY <1>1, BoundsAssumption DEF Held
<1> QED BY <1>1, <1>3, <1>4, <1>5, <1>6, DemandFacts DEF DemandInv

(* A request that is sent moves from its caller to the queue. *)
LEMMA SendDemand ==
  ASSUME RInv, RInv', DemandInv, NEW c \in Clients, Send(c)
  PROVE  DemandInv'
<1>1. /\ pc[c] = "send" /\ pc' = [pc EXCEPT ![c] = "reply"]
      /\ \E cmd : queue' = Append(queue, cmd)
      /\ UNCHANGED <<file, deferred>>
  BY DEF Send, Goto, Wal, writer
<1>2. Calling' = Calling \ {c} /\ c \in Calling
  BY <1>1 DEF Calling, RInv, TypeInv
<1>3. /\ IsFiniteSet(Calling') /\ Cardinality(Calling') = Cardinality(Calling) - 1
      /\ Cardinality(Calling) \in Nat
  BY <1>2, FS_RemoveElement, FS_CardinalityType DEF DemandInv
<1>4. Len(queue') = Len(queue) + 1
  <2>1. IsSeq(queue)
    BY PipeFacts DEF RInv
  <2> QED BY <1>1, <2>1, AppendFacts
<1>5. Held' = Held /\ MaxFile \in Nat
  BY <1>1, BoundsAssumption DEF Held
<1> QED BY <1>1, <1>3, <1>4, <1>5, DemandFacts DEF DemandInv

(* A detached event takes room for its record. *)
LEMMA DetachedDemand ==
  ASSUME RInv, DemandInv, NEW r \in Runs, AppendDetached(r)
  PROVE  DemandInv'
<1>1. /\ Room /\ (\E cmd : queue' = Append(queue, cmd)) /\ UNCHANGED <<file, deferred, pc>>
  BY DEF AppendDetached, Wal, writer, clients
<1>2. Calling' = Calling /\ Held' = Held /\ MaxFile \in Nat
  BY <1>1, BoundsAssumption DEF Calling, Held
<1>3. Len(queue') = Len(queue) + 1
  <2>1. IsSeq(queue)
    BY PipeFacts DEF RInv
  <2> QED BY <1>1, <2>1, AppendFacts
<1>4. Len(file) + Len(queue) + Held + Cardinality(Calling) < MaxFile
  BY <1>1 DEF Room, Held, Calling
<1>5. IsFiniteSet(Calling)
  BY DEF DemandInv
<1>6. IsFiniteSet(Calling') /\ Cardinality(Calling') = Cardinality(Calling)
  BY <1>2, <1>5
<1> QED BY <1>1, <1>2, <1>3, <1>4, <1>5, <1>6, DemandFacts DEF DemandInv

(* A caller that returns or waits for its reply asks for nothing. *)
LEMMA ReturnShrinks ==
  ASSUME TypeInv, NEW c, NEW l \in {"idle", "reply"}, pc' = [pc EXCEPT ![c] = l]
  PROVE  Calling' \in SUBSET Calling
  BY DEF Calling, TypeInv

(* The other steps of a call keep its claim to a record or give it up. *)
LEMMA CallDemand ==
  ASSUME RInv, RInv', DemandInv, NEW c \in Clients,
         CheckDeleted(c) \/ Lookup(c) \/ Claim(c) \/ Arm(c) \/ Test(c) \/ Wake(c) \/ SendRefused(c)
  PROVE  DemandInv'
<1>1. /\ UNCHANGED <<file, deferred, queue>>
      /\ pc[c] \notin {"idle", "reply"}
      /\ \E l \in ClientPCs : pc' = [pc EXCEPT ![c] = l]
  <2>1. CASE CheckDeleted(c)
    BY <2>1 DEF CheckDeleted, Return, Goto, Wal, writer, ClientPCs
  <2>2. CASE Lookup(c)
    BY <2>2 DEF Lookup, Goto, Wal, writer, ClientPCs
  <2>3. CASE Claim(c)
    <3>1. \E l \in {"send", "idle", "arm"} : Goto(c, l)
      <4>1. \/ Goto(c, "send") \/ Return(c) \/ Goto(c, "arm")
        <5>1. reg.heap[call[c].arc].del \in {"live", "deleted", "in_flight"}
          <6>1. c \in Deleters
            BY <2>3 DEF Claim, Deleters
          <6>2. call[c].arc \in Objects
            <7>1. c \in Calling
              BY <6>1 DEF Calling, Deleters
            <7>2. call[c].arc # 0 /\ call[c].arc <= Len(reg.heap) /\ call[c].arc \in Nat
              BY <6>1, <7>1 DEF RInv, ProtocolInv, CallInv, OwnerInv, TypeInv
            <7> QED BY <7>2, LenProperties DEF Objects, RInv, TypeInv, IsRegistry
          <6>3. reg.heap[call[c].arc] \in RunStates
            BY <6>2, ElementOfSeq DEF RInv, TypeInv, IsRegistry, Objects
          <6> QED BY <6>3 DEF RunStates, DeleteStates
        <5> QED BY <2>3, <5>1 DEF Claim
      <4> QED BY <4>1 DEF Return
    <3> QED BY <2>3, <3>1 DEF Claim, Goto, Wal, writer, ClientPCs
  <2>4. CASE Arm(c) \/ Wake(c)
    BY <2>4 DEF Arm, Wake, Goto, Wal, writer, ClientPCs
  <2>5. CASE Test(c)
    BY <2>5 DEF Test, Goto, Wal, writer, ClientPCs
  <2>6. CASE SendRefused(c)
    BY <2>6 DEF SendRefused, Return, Goto, Wal, writer, ClientPCs
  <2> QED BY <2>1, <2>2, <2>3, <2>4, <2>5, <2>6
<1>2. Calling' \in SUBSET Calling
  BY <1>1 DEF Calling, RInv, TypeInv
<1>3. Held' = Held
  BY <1>1 DEF Held
<1> QED BY <1>1, <1>2, <1>3, DemandFacts, DemandShrinks

(* The writer takes from the queue what it writes. *)
LEMMA TakeDemand ==
  ASSUME RInv, RInv', DemandInv, StageReject \/ StageWriteFails \/ StageCommand
  PROVE  DemandInv'
<1>1. CanTake /\ Dequeue
  BY DEF StageReject, StageWriteFails, StageCommand, Advance
<1>2. Held' = 0 /\ Len(queue') = Held + Len(queue) - 1 /\ Len(queue) \in Nat /\ Held \in {0, 1}
  BY <1>1, DequeueFacts, PipeFacts DEF CanTake, RInv
<1>3. Len(file') \in {Len(file), Len(file) + 1}
  <2>1. CASE StageReject \/ StageWriteFails
    BY <2>1 DEF StageReject, StageWriteFails, W!StageFail, Wal
  <2>2. CASE StageCommand
    BY <2>2, StageFacts DEF RInv
  <2> QED BY <2>1, <2>2
<1>4. Calling' \in SUBSET Calling
  <2>1. CASE StageReject \/ StageWriteFails
    <3>1. pc' = pc \/ pc' = [pc EXCEPT ![Current.client] = "idle"]
      BY <2>1 DEF StageReject, StageWriteFails, RejectReply, Return, Goto
    <3> QED BY <3>1 DEF Calling, RInv, TypeInv
  <2>2. CASE StageCommand
    BY <2>2 DEF StageCommand, clients, Calling
  <2> QED BY <2>1, <2>2
<1>5. Len(file) \in Nat
  BY DemandFacts
<1>6. Len(file') + Held' + Len(queue') <= Len(file) + Held + Len(queue)
  BY <1>2, <1>3, <1>5
<1> QED BY <1>4, <1>6, DemandShrinks

(* The other steps of the writer hand nothing on, or a deferred delete. *)
LEMMA WriterDemand ==
  ASSUME RInv, RInv', DemandInv,
         \/ DeferDelete \/ EndBatch \/ SyncNothing \/ SyncBatch \/ StoreCommittedEnd
         \/ ApplyCommittedEvent \/ CheckTombstone \/ RemoveTombstone \/ EndEviction
         \/ CommitGuard \/ Publish \/ ReplyOk \/ ReplyErr \/ DropGuard
  PROVE  DemandInv'
<1>1. file' = file
  <2>1. CASE \/ DeferDelete \/ EndBatch \/ SyncNothing \/ SyncBatch \/ StoreCommittedEnd
             \/ ApplyCommittedEvent \/ CheckTombstone \/ RemoveTombstone \/ EndEviction
    BY <2>1 DEF DeferDelete, EndBatch, SyncNothing, SyncBatch, StoreCommittedEnd,
                ApplyCommittedEvent, CheckTombstone, RemoveTombstone, EndEviction, Wal,
                W!SyncOk, W!SyncFail, W!disk
  <2>2. CASE CommitGuard \/ Publish \/ ReplyOk \/ ReplyErr \/ DropGuard
    BY <2>2 DEF CommitGuard, Publish, ReplyOk, ReplyErr, DropGuard, Wal
  <2> QED BY <2>1, <2>2
<1>2. Held' + Len(queue') = Held + Len(queue)
  <2>1. CASE DeferDelete
    <3>1. /\ deferred = None /\ queue # <<>>
          /\ deferred' = Head(queue) /\ queue' = Tail(queue)
      BY <2>1 DEF DeferDelete, CanTake, Defer, HasCommand, Current, BatchInv, RInv
    <3>2. Head(queue) \in Commands /\ Len(queue') = Len(queue) - 1 /\ Len(queue) \in Nat
      BY <3>1, HeadTailProperties, LenProperties DEF RInv, TypeInv
    <3>3. Held = 0 /\ Held' = 1
      BY <3>1, <3>2, CommandAssumption DEF Held
    <3> QED BY <3>2, <3>3
  <2>2. CASE ~DeferDelete
    <3>1. UNCHANGED <<deferred, queue>>
      BY <2>2 DEF EndBatch, SyncNothing, SyncBatch, StoreCommittedEnd, ApplyCommittedEvent,
                  CheckTombstone, RemoveTombstone, EndEviction,
                  CommitGuard, Publish, ReplyOk, ReplyErr, DropGuard
    <3> QED BY <3>1 DEF Held
  <2> QED BY <2>1, <2>2
<1>3. Calling' \in SUBSET Calling
  <2>1. CASE ReplyOk \/ ReplyErr
    <3>1. \/ pc' = pc
          \/ pc' = [pc EXCEPT ![Head(staged).client] = "idle"]
      BY <2>1 DEF ReplyOk, ReplyErr, RejectReply, Return, Goto
    <3> QED BY <3>1 DEF Calling, RInv, TypeInv
  <2>2. CASE ~(ReplyOk \/ ReplyErr)
    <3>1. pc' = pc
      BY <2>2 DEF DeferDelete, EndBatch, SyncNothing, SyncBatch, StoreCommittedEnd,
                  ApplyCommittedEvent, CheckTombstone, RemoveTombstone, EndEviction,
                  CommitGuard, Publish, DropGuard, clients
    <3> QED BY <3>1 DEF Calling
  <2> QED BY <2>1, <2>2
<1>4. Len(file') + Held' + Len(queue') <= Len(file) + Held + Len(queue)
  <2>1. Len(file) \in Nat /\ Held \in {0, 1} /\ Len(queue) \in Nat /\ Held' \in {0, 1}
    BY DemandFacts DEF Held
  <2>2. Len(queue') \in Nat
    BY LenProperties DEF RInv, TypeInv
  <2> QED BY <1>1, <1>2, <2>1, <2>2
<1> QED BY <1>3, <1>4, DemandShrinks

(* What happens around the calls leaves the file, or cuts it. *)
LEMMA OutsideDemand ==
  ASSUME RInv, RInv', DemandInv,
         \/ \E r \in Runs : ProtectTombstone(r) \/ ReleaseTombstone(r)
         \/ OpenStep \/ Restore \/ Crash \/ UNCHANGED vars
  PROVE  DemandInv'
<1>1. CASE Crash
  <2>1. queue' = <<>> /\ deferred' = None /\ pc' = [c \in Clients |-> "idle"]
    BY <1>1 DEF Crash
  <2>2. Len(queue') = 0 /\ Held' = 0
    BY <2>1, EmptySeq DEF Held
  <2>3. Calling' \in SUBSET Calling
    BY <2>1 DEF Calling
  <2>4. Len(file') <= Len(file) /\ Len(file') \in Nat
    BY <1>1, CrashFile DEF RInv
  <2>5. Len(file') + Held' + Len(queue') <= Len(file) + Held + Len(queue)
    BY <2>2, <2>4, DemandFacts
  <2> QED BY <2>3, <2>5, DemandShrinks
<1>2. CASE ~Crash
  <2>1. UNCHANGED <<file, deferred, queue, pc>>
    BY <1>2 DEF ProtectTombstone, ReleaseTombstone, OpenStep, Restore, vars, Wal, writer, clients,
                W!OpenScan, W!OpenTruncate, W!OpenSync, W!OpenFail, W!disk
  <2>2. Calling' = Calling /\ Held' = Held
    BY <2>1 DEF Calling, Held
  <2>3. Len(file') + Held' + Len(queue') <= Len(file) + Held + Len(queue)
    BY <2>1, <2>2, DemandFacts
  <2> QED BY <2>2, <2>3, DemandShrinks
<1> QED BY <1>1, <1>2

(* So the room is never overdrawn. *)
LEMMA NextKeepsDemand ==
  ASSUME RInv, RInv', DemandInv, [Next]_vars
  PROVE  DemandInv'
<1>1. CASE WriterStep
  BY <1>1, TakeDemand, WriterDemand DEF WriterStep
<1>2. ASSUME NEW c \in Clients, ClientStep(c) PROVE DemandInv'
  BY <1>2, CallDemand, SendDemand DEF ClientStep
<1>3. ASSUME NEW c \in Clients, NEW r \in Runs,
             StartCreate(c, r) \/ StartAppend(c, r) \/ StartDelete(c, r)
      PROVE  DemandInv'
  BY <1>3, StartDemand
<1>4. ASSUME NEW r \in Runs, AppendDetached(r) PROVE DemandInv'
  BY <1>4, DetachedDemand
<1>5. CASE \/ \E r \in Runs : ProtectTombstone(r) \/ ReleaseTombstone(r)
           \/ OpenStep \/ Restore \/ Crash \/ UNCHANGED vars
  BY <1>5, OutsideDemand
<1> QED BY <1>1, <1>2, <1>3, <1>4, <1>5 DEF Next

(* What a step adds to a counter. *)
LEMMA CountersKept ==
  ASSUME Bounded, [Next]_vars
  PROVE  {taken', ops', crashes'} \subseteq Nat
<1> USE DEF Bounded
<1>1. CASE WriterStep
  <2>1. UNCHANGED <<ops, crashes>>
    <3>1. CASE DeferDelete \/ StageReject \/ StageCommand \/ StageWriteFails \/ EndBatch
      BY <3>1 DEF DeferDelete, StageReject, StageCommand, StageWriteFails, EndBatch, clients, history
    <3>2. CASE \/ SyncNothing \/ SyncBatch \/ StoreCommittedEnd \/ ApplyCommittedEvent
               \/ CheckTombstone \/ RemoveTombstone \/ EndEviction \/ CommitGuard
      BY <3>2 DEF SyncNothing, SyncBatch, StoreCommittedEnd, ApplyCommittedEvent,
                  CheckTombstone, RemoveTombstone, EndEviction, CommitGuard,
                  clients, history
    <3>3. CASE Publish \/ ReplyOk \/ ReplyErr \/ DropGuard
      BY <3>3 DEF Publish, ReplyOk, ReplyErr, DropGuard, clients, history
    <3> QED BY <1>1, <3>1, <3>2, <3>3 DEF WriterStep
  <2>2. taken' \in {taken, 1, taken + 1}
    <3>1. CASE StageReject \/ StageCommand \/ StageWriteFails
      BY <3>1 DEF StageReject, StageCommand, StageWriteFails, Advance
    <3>2. CASE DeferDelete \/ EndBatch \/ SyncNothing \/ SyncBatch \/ StoreCommittedEnd
      BY <3>2 DEF DeferDelete, EndBatch, SyncNothing, SyncBatch, StoreCommittedEnd
    <3>3. CASE \/ ApplyCommittedEvent \/ CheckTombstone \/ RemoveTombstone \/ EndEviction
               \/ CommitGuard \/ Publish \/ ReplyOk \/ ReplyErr \/ DropGuard
      BY <3>3 DEF ApplyCommittedEvent, CheckTombstone, RemoveTombstone, EndEviction,
                  CommitGuard, Publish, ReplyOk, ReplyErr, DropGuard
    <3> QED BY <1>1, <3>1, <3>2, <3>3 DEF WriterStep
  <2> QED BY <2>1, <2>2
<1>2. ASSUME NEW c \in Clients, ClientStep(c) PROVE UNCHANGED <<taken, ops, crashes>>
  BY <1>2 DEF ClientStep, CheckDeleted, Lookup, Claim, Arm, Test, Wake, Send, SendRefused,
              writer, history
<1>3. ASSUME NEW c \in Clients, NEW r \in Runs,
             StartCreate(c, r) \/ StartAppend(c, r) \/ StartDelete(c, r)
      PROVE  UNCHANGED <<taken, crashes>> /\ ops' = ops + 1
  BY <1>3 DEF StartCreate, StartAppend, StartDelete, Start, writer, history
<1>4. ASSUME NEW r \in Runs, AppendDetached(r) \/ ProtectTombstone(r) \/ ReleaseTombstone(r)
      PROVE  UNCHANGED <<taken, ops, crashes>>
  BY <1>4 DEF AppendDetached, ProtectTombstone, ReleaseTombstone, writer, clients, history
<1>5. CASE OpenStep \/ Restore \/ UNCHANGED vars
  BY <1>5 DEF OpenStep, Restore, vars, writer, clients, history
<1>6. CASE Crash
  BY <1>6 DEF Crash
<1> QED BY <1>1, <1>2, <1>3, <1>4, <1>5, <1>6 DEF Next

(* The offsets follow the file. *)
LEMMA OffsetsKept ==
  ASSUME RInv, RInv', Bounded, Len(file') <= MaxFile, [Next]_vars
  PROVE  synced' \in BOOLEAN /\ handle' \in W!Handles /\ pending_end' \in 0..MaxFile
<1>0. Len(file) \in Nat /\ Len(file') \in Nat /\ MaxFile \in Nat
  BY DemandFacts, BoundsAssumption
<1>1. CASE StageCommand
  <2>1. W!StageOk(NextEvent(Current))
    BY <1>1 DEF StageCommand
  <2>2. pending_end = Len(file) /\ Len(file') = Len(file) + 1
    BY <1>1, <2>1, StageFacts DEF W!StageOk, W!Writable, RInv, IInv, FileInv
  <2>3. pending_end' = pending_end + 1 /\ synced' = FALSE /\ handle' = handle
    BY <2>1 DEF W!StageOk
  <2>4. pending_end' = Len(file')
    BY <2>2, <2>3
  <2>5. pending_end' \in 0..MaxFile
    BY <1>0, <2>4
  <2> QED BY <2>3, <2>5 DEF Bounded
<1>2. CASE StageWriteFails
  BY <1>2 DEF StageWriteFails, W!StageFail, Bounded
<1>3. CASE SyncBatch
  BY <1>3 DEF SyncBatch, Wal, W!SyncOk, W!SyncFail, W!disk, Bounded
<1>4. CASE OpenStep
  <2>1. handle' \in {"refused", "truncate", "resync", "open", "closed"}
    <3>1. tail \in {"none", "torn", "garbled"}
      BY DEF RInv, IInv, FileInv, W!Tails
    <3> QED BY <1>4, <3>1 DEF OpenStep, W!OpenScan, W!OpenTruncate, W!OpenSync, W!OpenFail
  <2>2. synced' \in {synced, TRUE, FALSE}
    BY <1>4 DEF OpenStep, W!OpenScan, W!OpenTruncate, W!OpenSync, W!OpenFail, W!disk
  <2>3. pending_end' \in {pending_end, Len(file)} /\ file' = file
    BY <1>4 DEF OpenStep, W!OpenScan, W!OpenTruncate, W!OpenSync, W!OpenFail, W!offsets, W!disk
  <2>4. pending_end' \in 0..MaxFile
    <3>1. CASE pending_end' = Len(file')
      BY <1>0, <3>1
    <3>2. CASE pending_end' = pending_end
      BY <3>2 DEF Bounded
    <3> QED BY <2>3, <3>1, <3>2
  <2> QED BY <2>1, <2>2, <2>4 DEF W!Handles, Bounded
<1>5. CASE Crash
  <2>1. /\ pending_end' = pending_end /\ synced' \in {synced, TRUE}
        /\ handle' \in {"closed", "refused"}
    BY <1>5 DEF Crash, W!ProcessCrash, W!PowerLoss, W!disk, W!offsets
  <2> QED BY <2>1 DEF W!Handles, Bounded
<1>6. CASE UNCHANGED Wal
  BY <1>6 DEF Wal, Bounded
<1>7. StageCommand \/ StageWriteFails \/ SyncBatch \/ OpenStep \/ Crash \/ UNCHANGED Wal
  <2>1. CASE DeferDelete \/ StageReject \/ EndBatch \/ SyncNothing \/ StoreCommittedEnd
    BY <2>1 DEF DeferDelete, StageReject, EndBatch, SyncNothing, StoreCommittedEnd
  <2>2. CASE \/ ApplyCommittedEvent \/ CheckTombstone \/ RemoveTombstone \/ EndEviction
             \/ CommitGuard \/ Publish \/ ReplyOk \/ ReplyErr \/ DropGuard
             \/ Restore \/ UNCHANGED vars
    BY <2>2 DEF ApplyCommittedEvent, CheckTombstone, RemoveTombstone, EndEviction,
                CommitGuard, Publish, ReplyOk, ReplyErr, DropGuard, Restore, vars
  <2>3. ASSUME NEW c \in Clients,
               ClientStep(c) \/ \E r \in Runs : StartCreate(c, r) \/ StartAppend(c, r) \/ StartDelete(c, r)
        PROVE  UNCHANGED Wal
    BY <2>3 DEF ClientStep, CheckDeleted, Lookup, Claim, Arm, Test, Wake, Send, SendRefused,
                StartCreate, StartAppend, StartDelete
  <2>4. ASSUME NEW r \in Runs, AppendDetached(r) \/ ProtectTombstone(r) \/ ReleaseTombstone(r)
        PROVE  UNCHANGED Wal
    BY <2>4 DEF AppendDetached, ProtectTombstone, ReleaseTombstone
  <2> QED BY <2>1, <2>2, <2>3, <2>4 DEF Next, WriterStep
<1> QED BY <1>1, <1>2, <1>3, <1>4, <1>5, <1>6, <1>7

(* The room bounds the file, whatever is demanded besides. *)
LEMMA FileFits == RInv /\ DemandInv => Len(file) <= MaxFile
<1> SUFFICES ASSUME RInv, DemandInv PROVE Len(file) <= MaxFile
  OBVIOUS
<1>1. /\ Len(file) \in Nat /\ Held \in {0, 1} /\ Len(queue) \in Nat /\ Cardinality(Calling) \in Nat
  BY DemandFacts DEF DemandInv
<1>2. Len(file) + Held + Len(queue) + Cardinality(Calling) <= MaxFile /\ MaxFile \in Nat
  BY BoundsAssumption DEF DemandInv
<1> QED BY <1>1, <1>2

(* Every step keeps the sizes. *)
LEMMA NextKeepsSize == RInv /\ RInv' /\ SizeInv /\ [Next]_vars => SizeInv'
<1> SUFFICES ASSUME RInv, RInv', SizeInv, [Next]_vars PROVE SizeInv'
  OBVIOUS
<1>1. DemandInv'
  BY NextKeepsDemand DEF SizeInv
<1>2. Len(file') <= MaxFile
  <2>1. (RInv /\ DemandInv => Len(file) <= MaxFile)'
    BY FileFits, PTL
  <2> QED BY <1>1, <2>1
<1>3. Bounded'
  BY <1>2, CountersKept, OffsetsKept DEF SizeInv, Bounded
<1> QED BY <1>1, <1>3 DEF SizeInv

(* Nothing is logged and nobody is calling. *)
LEMMA InitSize == Init => SizeInv
<1> SUFFICES ASSUME Init PROVE SizeInv
  OBVIOUS
<1>1. /\ file = <<>> /\ queue = <<>> /\ deferred = None /\ pc = [c \in Clients |-> "idle"]
      /\ synced = TRUE /\ handle = "closed" /\ pending_end = 0
      /\ taken = 0 /\ ops = 0 /\ crashes = 0
  BY DEF Init, W!Init
<1>2. Len(<<>>) = 0
  BY EmptySeq
<1>3. Calling = {}
  BY <1>1 DEF Calling
<1>4. IsFiniteSet(Calling) /\ Cardinality(Calling) = 0
  BY <1>3, FS_EmptySet
<1>5. MaxFile \in Nat
  BY BoundsAssumption
<1>6. DemandInv
  BY <1>1, <1>2, <1>4, <1>5 DEF DemandInv, Held
<1>7. Bounded
  BY <1>1, <1>5 DEF Bounded, W!Handles
<1> QED BY <1>6, <1>7 DEF SizeInv

(* The types, in the words of the specification. *)
LEMMA TypesFollow ==
  ASSUME RInv, SizeInv
  PROVE  TypeOK
<1>1. Len(file) \in Nat /\ Len(file) <= MaxFile /\ MaxFile \in Nat /\ DOMAIN file = 1..Len(file)
  BY SeqFacts, FileFits, BoundsAssumption DEF RInv, IInv, FileInv, SizeInv
<1>2. file \in Seq(TimelineEvent)
  <2>1. file \in Seq(Range(file))
    BY DEF RInv, IInv, FileInv, IsSeq
  <2> DEFINE R == Range(file)
  <2>2. file \in [1..Len(file) -> R]
    BY <2>1, LenProperties
  <2>3. \A i \in 1..Len(file) : file[i] \in TimelineEvent
    BY DEF RInv, TypeInv
  <2>4. file \in [1..Len(file) -> TimelineEvent]
    BY <2>2, <2>3
  <2> QED BY <1>1, <2>4, SeqDef
<1>3. W!TypeOK
  <2>1. committed_end \in 0..MaxFile
    BY <1>1 DEF RInv, IInv, FileInv
  <2> QED BY <1>1, <1>2, <2>1 DEF W!TypeOK, RInv, IInv, FileInv, SizeInv, Bounded
<1>4. acked \in SUBSET TimelineEvent
  <2>1. \A e \in acked : e.seq \in 1..Len(file) /\ file[e.seq] = e
    BY <1>1 DEF RInv, IInv, AckedInv, FileInv
  <2> QED BY <2>1 DEF RInv, TypeInv
<1>5. wpc \in WriterPCs /\ {next_seq, published, scan} \subseteq Nat /\ late \in SUBSET Runs
  BY DEF RInv, IInv, WriterInv, EvictInv
<1> QED BY <1>3, <1>4, <1>5 DEF TypeOK, RInv, TypeInv, IsRegistry, SizeInv, Bounded

(* Every record the writer logs, queues, stages or acknowledges is one of a *)
(* known run and kind, every caller and the writer are at a known step, the *)
(* registry's FIFO holds runs only, and no offset leaves the file's room.   *)
THEOREM TimelineTypes == Spec => []TypeOK
<1>1. Spec => [](RInv /\ SizeInv)
  <2>1. Init => RInv /\ SizeInv
    BY InitRInv, InitSize
  <2>2. (RInv /\ SizeInv) /\ [Next]_vars => (RInv /\ SizeInv)'
    BY NextKeepsRInv, NextKeepsSize
  <2> QED BY <2>1, <2>2, PTL DEF Spec
<1>2. RInv /\ SizeInv => TypeOK
  BY TypesFollow
<1> QED BY <1>1, <1>2, PTL
=============================================================================
