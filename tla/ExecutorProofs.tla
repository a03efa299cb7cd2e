--------------------------- MODULE ExecutorProofs ---------------------------
(***************************************************************************)
(* Proofs about the block executor (Executor.tla) for every value of the   *)
(* constants: type correctness, and that synthetic transaction numbers are *)
(* never handed out twice.                                                 *)
(***************************************************************************)
EXTENDS Executor, StateManagerProofs, SequenceTheorems, TLAPS

(***************************************************************************)
(* TypeOK is not inductive by itself: Commit adds one to height, and stays *)
(* within MaxHeight only because a block is open only below MaxHeight.     *)
(***************************************************************************)
TInv ==
  /\ TypeOK
  /\ inBlock => height < MaxHeight

(***************************************************************************)
(* The strengthening of SynthNonceUnique: committed numbers lie below the  *)
(* committed counter, this block's numbers between the committed counter   *)
(* and the DBTransaction's one, and a number names at most one link.       *)
(***************************************************************************)
NInv ==
  /\ kvCount <= dCount
  /\ \A l \in kvLinks : l[2] < kvCount
  /\ \A l \in dLinks : kvCount <= l[2] /\ l[2] < dCount
  /\ \A l1, l2 \in kvLinks \cup dLinks : l1[2] = l2[2] => l1 = l2

-----------------------------------------------------------------------------
(* The calls an executor makes are a sequence of state-manager calls. *)
LEMMA CallsOfType ==
  ASSUME NEW t \in TxIds, NEW s \in CallsOf(t)
  PROVE  s \in Seq(Call)
BY ExecutorAssumption DEF CallsOf

(* AddStateEntries keeps dState a function to records. *)
LEMMA AddStateEntriesType ==
  ASSUME TypeOK, NEW t \in TxIds, NEW W \in SUBSET Chains, AddStateEntries(t, W)
  PROVE  dState' \in [Chains -> Rec \cup {Absent}]
<1>1. \A c \in Chains : Current(c) \in Rec \cup {Absent}
  BY DEF TypeOK, Current
<1>2. \A c \in Chains : Written(t, c) \in Rec
  BY <1>1 DEF Written, Rec
<1>. QED
  BY <1>2 DEF AddStateEntries, TypeOK

(* A fresh DBTransaction is well typed. *)
LEMMA ResetDbTxType ==
  ASSUME NEW n \in Nat, NEW dir \in [Identities -> DirIndex], ResetDbTx(n, dir)
  PROVE  /\ dState' \in [Chains -> Rec \cup {Absent}]
         /\ dBody' \subseteq TxIds
         /\ dStatus' \in [TxIds -> Status]
         /\ dCount' \in Nat
         /\ dLinks' \subseteq TxIds \X Nat
         /\ dAccepted' \in Seq(TxIds)
         /\ dDir' \in [Identities -> DirIndex]
         /\ dDirLog' \in Seq(TxIds \X Chains)
BY DEF ResetDbTx, Status

(* One identity's flush writes the adds above the count: still an index. *)
LEMMA FlushDirType ==
  ASSUME NEW d \in DirIndex, NEW adds \in Seq(Chains)
  PROVE  FlushDir(d, adds) \in DirIndex
<1> DEFINE n == d.count + Len(adds)
           m == IF Len(d.ent) < n THEN n ELSE Len(d.ent)
           f == [j \in 1..m |-> IF d.count < j /\ j <= n THEN adds[j - d.count]
                                                       ELSE d.ent[j]]
<1>1. d.count \in Nat /\ d.ent \in Seq(Chains) /\ d.count <= Len(d.ent)
  BY DEF DirIndex
<1>2. n \in Nat /\ m \in Nat /\ n <= m
  BY <1>1
<1>3. \A j \in 1..m : f[j] \in Chains
  <2> SUFFICES ASSUME NEW j \in 1..m PROVE f[j] \in Chains
    OBVIOUS
  <2>1. CASE d.count < j /\ j <= n
    <3>1. j - d.count \in 1..Len(adds)
      BY <2>1, <1>1
    <3>. QED
      BY <2>1, <3>1
  <2>2. CASE ~(d.count < j /\ j <= n)
    <3>1. j \in 1..Len(d.ent)
      BY <2>2, <1>1, <1>2
    <3>. QED
      BY <2>2, <3>1, <1>1
  <2>. QED
    BY <2>1, <2>2
<1>4. f \in [1..m -> Chains]
  BY <1>3
<1>5. f \in Seq(Chains)
  BY <1>2, <1>4
<1>. QED
  BY <1>2, <1>5 DEF FlushDir, DirIndex

(* commit()'s flush of m.writes leaves every identity's index an index. *)
LEMMA FlushIndexType ==
  ASSUME TypeOK, NEW t \in TxIds, NEW s \in CallsOf(t), FlushIndex(t, s)
  PROVE  dDir' \in [Identities -> DirIndex] /\ dDirLog' \in Seq(TxIds \X Chains)
<1>1. s \in ValidateCalls
  BY DEF CallsOf
<1>2. DirCalls(s) \in Seq(Chains) /\ \A i \in Identities : DirAdds(s, i) \in Seq(Chains)
  BY <1>1, DirCallsAssumption
<1>3. FlushedIndex(s, DirRead) \in [Identities -> DirIndex]
  <2>1. \A i \in Identities : DirAdds(s, i) # <<>> => FlushDir(dDir[i], DirAdds(s, i)) \in DirIndex
    BY <1>2, FlushDirType DEF TypeOK
  <2>. QED
    BY <2>1 DEF FlushedIndex, DirRead, TypeOK
<1>4. [k \in 1..Len(DirCalls(s)) |-> <<t, DirCalls(s)[k]>>] \in Seq(TxIds \X Chains)
  BY <1>2
<1>. QED
  BY <1>3, <1>4 DEF FlushIndex, TypeOK

(* The initial state is well typed, with no block open. *)
LEMMA InitTInv == Init => TInv
<1> SUFFICES ASSUME Init PROVE TInv
  OBVIOUS
<1>1. height \in 0..MaxHeight /\ delivered \in 0..MaxDeliver
  BY ExecutorAssumption DEF Init
<1>2. kvState \in [Chains -> Rec \cup {Absent}] /\ dState \in [Chains -> Rec \cup {Absent}]
  BY DEF Init
<1>3. kvStatus \in [TxIds -> Status] /\ dStatus \in [TxIds -> Status]
  BY DEF Init, Status
<1>4. kvAccepted \in Seq(TxIds) /\ dAccepted \in Seq(TxIds)
  BY DEF Init
<1>5. kvDir \in [Identities -> DirIndex] /\ dDir \in [Identities -> DirIndex]
  BY DEF Init, DirIndex
<1>6. kvDirLog \in Seq(TxIds \X Chains) /\ dDirLog \in Seq(TxIds \X Chains)
  BY DEF Init
<1>. QED
  BY <1>1, <1>2, <1>3, <1>4, <1>5, <1>6 DEF Init, TInv, TypeOK

(* Every executor step keeps TInv. *)
LEMMA NextTInv == TInv /\ [Next]_vars => TInv'
<1> SUFFICES ASSUME TInv, [Next]_vars PROVE TInv'
  OBVIOUS
<1> USE ExecutorAssumption DEF TInv, TypeOK
<1>1. CASE BeginBlock
  BY <1>1 DEF BeginBlock, kvVars, dbTxVars
<1>2. ASSUME NEW t \in TxIds, DeliverMalformed(t) PROVE TInv'
  BY <1>2 DEF DeliverMalformed, Deliver, kvVars, dbTxVars
<1>3. ASSUME NEW t \in TxIds, DeliverUnsupported(t) PROVE TInv'
  BY <1>3 DEF DeliverUnsupported, Deliver, kvVars, RecordTransactionError, Status
<1>4. ASSUME NEW t \in TxIds, DeliverCheckFailed(t) PROVE TInv'
  BY <1>4 DEF DeliverCheckFailed, Deliver, kvVars, RecordTransactionError, Status
<1>5. ASSUME NEW t \in TxIds, DeliverRejected(t) PROVE TInv'
  BY <1>5 DEF DeliverRejected, Deliver, kvVars, RecordTransactionError, Status
<1>6. ASSUME NEW t \in TxIds, NEW s \in CallsOf(t), DeliverCommitFailed(t, s)
      PROVE  TInv'
  <2>1. UpdatesWritten(s, IsSynthetic(TxKind[t]), OnDisk) \subseteq Chains
    BY CallsOfType, UpdatesWrittenChains
  <2>2. dState' \in [Chains -> Rec \cup {Absent}]
    BY <1>6, <2>1, AddStateEntriesType DEF DeliverCommitFailed
  <2>3. dDir' \in [Identities -> DirIndex] /\ dDirLog' \in Seq(TxIds \X Chains)
    BY <1>6, FlushIndexType DEF DeliverCommitFailed
  <2>. QED
    BY <1>6, <2>2, <2>3 DEF DeliverCommitFailed, Deliver, kvVars, DropGenesis,
                      RecordTransactionError, Status
<1>7. ASSUME NEW t \in TxIds, NEW s \in CallsOf(t), DeliverAccepted(t, s)
      PROVE  TInv'
  <2>1. UpdatesWritten(s, IsSynthetic(TxKind[t]), OnDisk) \subseteq Chains
    BY CallsOfType, UpdatesWrittenChains
  <2>2. dState' \in [Chains -> Rec \cup {Absent}]
    BY <1>7, <2>1, AddStateEntriesType DEF DeliverAccepted
  <2>3. NumSubmissions(s) \in Nat
    BY CallsOfType, NumSubmissionsNat
  <2> DEFINE fresh == {dCount + k : k \in 0..(NumSubmissions(s) - 1)}
  <2>4. fresh \subseteq Nat
    BY <2>3
  <2>5. dCount' = dCount + NumSubmissions(s)
        /\ dLinks' = dLinks \cup {<<t, m>> : m \in fresh}
        /\ batch' = IF leader THEN batch \cup fresh ELSE batch
    BY <1>7 DEF DeliverAccepted, SubmitSyntheticTx, SynthCountRead
  <2>6. dCount' \in Nat
    BY <2>3, <2>5
  <2>7. dLinks' \subseteq TxIds \X Nat
    BY <2>4, <2>5
  <2>8. batch' \subseteq Nat
    BY <2>4, <2>5
  <2>9. dAccepted' \in Seq(TxIds) /\ dStatus' \in [TxIds -> Status]
    BY <1>7 DEF DeliverAccepted, Status
  <2>10. delivered' \in 0..MaxDeliver /\ executors' \subseteq Kinds
    BY <1>7 DEF DeliverAccepted, Deliver, DropGenesis
  <2>11. dDir' \in [Identities -> DirIndex] /\ dDirLog' \in Seq(TxIds \X Chains)
    BY <1>7, FlushIndexType DEF DeliverAccepted
  <2>. QED
    BY <1>7, <2>2, <2>6, <2>7, <2>8, <2>9, <2>10, <2>11 DEF DeliverAccepted, kvVars
<1>8. CASE Commit
  <2>1. kvAccepted' \in Seq(TxIds)
    BY <1>8 DEF Commit
  <2>2. kvState' \in [Chains -> Rec \cup {Absent}]
    BY <1>8 DEF Commit, Current
  <2>3. kvStatus' \in [TxIds -> Status]
    BY <1>8 DEF Commit, CurStatus
  <2>4. height' \in 0..MaxHeight /\ kvCount' \in Nat /\ kvBody' \subseteq TxIds
        /\ kvLinks' \subseteq TxIds \X Nat /\ sent' \subseteq Nat
        /\ kvDir' \in [Identities -> DirIndex] /\ kvDirLog' \in Seq(TxIds \X Chains)
    BY <1>8 DEF Commit
  <2>5. dState' \in [Chains -> Rec \cup {Absent}] /\ dBody' \subseteq TxIds
        /\ dStatus' \in [TxIds -> Status] /\ dCount' \in Nat
        /\ dLinks' \subseteq TxIds \X Nat /\ dAccepted' \in Seq(TxIds)
        /\ dDir' \in [Identities -> DirIndex] /\ dDirLog' \in Seq(TxIds \X Chains)
    BY <1>8, ResetDbTxType DEF Commit
  <2>. QED
    BY <1>8, <2>1, <2>2, <2>3, <2>4, <2>5 DEF Commit
<1>9. CASE CommitPanic
  <2>1. dState' \in [Chains -> Rec \cup {Absent}] /\ dBody' \subseteq TxIds
        /\ dStatus' \in [TxIds -> Status] /\ dCount' \in Nat
        /\ dLinks' \subseteq TxIds \X Nat /\ dAccepted' \in Seq(TxIds)
        /\ dDir' \in [Identities -> DirIndex] /\ dDirLog' \in Seq(TxIds \X Chains)
    BY <1>9, ResetDbTxType DEF CommitPanic
  <2>. QED
    BY <1>9, <2>1 DEF CommitPanic, kvVars
<1>10. CASE Crash
  <2>1. dState' \in [Chains -> Rec \cup {Absent}] /\ dBody' \subseteq TxIds
        /\ dStatus' \in [TxIds -> Status] /\ dCount' \in Nat
        /\ dLinks' \subseteq TxIds \X Nat /\ dAccepted' \in Seq(TxIds)
        /\ dDir' \in [Identities -> DirIndex] /\ dDirLog' \in Seq(TxIds \X Chains)
    BY <1>10, ResetDbTxType DEF Crash
  <2>. QED
    BY <1>10, <2>1 DEF Crash, kvVars
<1>11. CASE UNCHANGED vars
  BY <1>11 DEF vars
<1>. QED
  BY <1>1, <1>2, <1>3, <1>4, <1>5, <1>6, <1>7, <1>8, <1>9, <1>10, <1>11
     DEF Next, DeliverTx

(* Every state the executor reaches is well typed. *)
THEOREM TypeCorrect == Spec => []TypeOK
<1>1. Spec => []TInv
  BY InitTInv, NextTInv, PTL DEF Spec
<1>. QED
  BY <1>1, PTL DEF TInv


-----------------------------------------------------------------------------
(* Nothing is numbered initially. *)
LEMMA InitNInv == Init => NInv
BY DEF Init, NInv

(* The steps that leave the counters and the links alone keep NInv. *)
LEMMA CountersUnchangedNInv ==
  ASSUME NInv,
         UNCHANGED <<kvCount, dCount, kvLinks, dLinks>>
  PROVE  NInv'
BY DEF NInv

(* A fresh DBTransaction that rereads the committed counter keeps NInv. *)
LEMMA ResetNInv ==
  ASSUME TypeOK, NInv, ResetDbTx(kvCount, kvDir),
         UNCHANGED <<kvCount, kvLinks>>
  PROVE  NInv'
BY DEF NInv, ResetDbTx, TypeOK

(* Every executor step keeps NInv: DeliverAccepted numbers from dCount *)
(* upward, Commit moves the buffer to disk, a panic or crash drops it.  *)
LEMMA NextNInv == TInv /\ NInv /\ [Next]_vars => NInv'
<1> SUFFICES ASSUME TInv, NInv, [Next]_vars PROVE NInv'
  OBVIOUS
<1> USE DEF TInv
<1>1. CASE BeginBlock
  BY <1>1, CountersUnchangedNInv DEF BeginBlock, kvVars, dbTxVars
<1>2. ASSUME NEW t \in TxIds,
             \/ DeliverMalformed(t) \/ DeliverUnsupported(t)
             \/ DeliverCheckFailed(t) \/ DeliverRejected(t)
      PROVE  NInv'
  BY <1>2, CountersUnchangedNInv
     DEF DeliverMalformed, DeliverUnsupported, DeliverCheckFailed,
         DeliverRejected, kvVars, dbTxVars
<1>3. ASSUME NEW t \in TxIds, NEW s \in CallsOf(t), DeliverCommitFailed(t, s)
      PROVE  NInv'
  BY <1>3, CountersUnchangedNInv DEF DeliverCommitFailed, kvVars
<1>4. ASSUME NEW t \in TxIds, NEW s \in CallsOf(t), DeliverAccepted(t, s)
      PROVE  NInv'
  <2> DEFINE n == NumSubmissions(s)
             fresh == {dCount + k : k \in 0..(n - 1)}
             new == {<<t, m>> : m \in fresh}
  <2>1. n \in Nat
    BY CallsOfType, NumSubmissionsNat
  <2>2. /\ dCount' = dCount + n
        /\ dLinks' = dLinks \cup new
        /\ UNCHANGED <<kvCount, kvLinks>>
    BY <1>4 DEF DeliverAccepted, SubmitSyntheticTx, SynthCountRead, kvVars
  <2>3. \A m \in fresh : m \in Nat /\ dCount <= m /\ m < dCount + n
    BY <2>1 DEF TypeOK
  <2>4. kvCount' <= dCount'
    BY <2>1, <2>2 DEF NInv, TypeOK
  <2>5. \A l \in kvLinks' : l[2] < kvCount'
    BY <2>2 DEF NInv
  <2>6. \A l \in dLinks' : kvCount' <= l[2] /\ l[2] < dCount'
    <3>1. \A l \in dLinks : kvCount <= l[2] /\ l[2] < dCount + n
      BY <2>1 DEF NInv, TypeOK
    <3>2. \A l \in new : kvCount <= l[2] /\ l[2] < dCount + n
      BY <2>3 DEF NInv, TypeOK
    <3>. QED
      BY <2>2, <3>1, <3>2
  <2>7. \A l1, l2 \in kvLinks' \cup dLinks' : l1[2] = l2[2] => l1 = l2
    <3>1. \A l \in kvLinks \cup dLinks : l[2] < dCount
      BY DEF NInv, TypeOK
    <3>2. \A l1 \in kvLinks \cup dLinks, l2 \in new : l1[2] # l2[2]
      BY <3>1, <2>3 DEF TypeOK
    <3>3. \A l1, l2 \in new : l1[2] = l2[2] => l1 = l2
      OBVIOUS
    <3>. QED
      BY <2>2, <3>2, <3>3 DEF NInv
  <2>. QED
    BY <2>4, <2>5, <2>6, <2>7 DEF NInv
<1>5. CASE Commit
  <2>1. /\ kvCount' = dCount /\ dCount' = dCount
        /\ kvLinks' = kvLinks \cup dLinks /\ dLinks' = {}
    BY <1>5 DEF Commit, ResetDbTx
  <2>. QED
    BY <2>1 DEF NInv, TypeOK
<1>6. CASE CommitPanic
  BY <1>6, ResetNInv DEF CommitPanic, kvVars
<1>7. CASE Crash
  BY <1>7, ResetNInv DEF Crash, kvVars
<1>8. CASE UNCHANGED vars
  BY <1>8, CountersUnchangedNInv DEF vars
<1>. QED
  BY <1>1, <1>2, <1>3, <1>4, <1>5, <1>6, <1>7, <1>8 DEF Next, DeliverTx

(* NInv gives SynthNonceUnique: every committed number is below the      *)
(* committed counter, which is at most the DBTransaction's one.            *)
LEMMA NInvSynthNonceUnique == TInv /\ NInv => SynthNonceUnique
BY DEF TInv, TypeOK, NInv, SynthNonceUnique

(***************************************************************************)
(* submitSyntheticTx/nextSynthCount: no two synthetic transactions ever    *)
(* get the same synthetic nonce, across blocks, failed commits and crashes *)
(* of the node, whatever the number of transactions and chains.            *)
(***************************************************************************)
THEOREM SynthNonceUniqueness == Spec => []SynthNonceUnique
<1>1. Spec => [](TInv /\ NInv)
  BY InitTInv, NextTInv, InitNInv, NextNInv, PTL DEF Spec
<1>. QED
  BY <1>1, NInvSynthNonceUnique, PTL

-----------------------------------------------------------------------------
(***************************************************************************)
(* The strengthening of BroadcastOnlyPersisted: a queued synthetic         *)
(* transaction is linked in the block's DBTransaction, so the Commit that  *)
(* sends it lands its link first.                                          *)
(***************************************************************************)
BInv ==
  /\ \A m \in batch : \E p \in TxIds : <<p, m>> \in dLinks
  /\ BroadcastOnlyPersisted

(* Nothing is queued or sent initially. *)
LEMMA InitBInv == Init => BInv
BY DEF Init, BInv, BroadcastOnlyPersisted

(* Every executor step keeps BInv: what DeliverAccepted queues it links,  *)
(* Commit lands the links with the batch, a panic or crash drops both.    *)
LEMMA NextBInv == BInv /\ [Next]_vars => BInv'
<1> SUFFICES ASSUME BInv, [Next]_vars PROVE BInv'
  OBVIOUS
<1>1. CASE BeginBlock
  BY <1>1 DEF BeginBlock, BInv, BroadcastOnlyPersisted, kvVars, dbTxVars
<1>2. ASSUME NEW t \in TxIds,
             \/ DeliverMalformed(t) \/ DeliverUnsupported(t)
             \/ DeliverCheckFailed(t) \/ DeliverRejected(t)
      PROVE  BInv'
  BY <1>2 DEF DeliverMalformed, DeliverUnsupported, DeliverCheckFailed,
              DeliverRejected, BInv, BroadcastOnlyPersisted, kvVars, dbTxVars
<1>3. ASSUME NEW t \in TxIds, NEW s \in CallsOf(t), DeliverCommitFailed(t, s)
      PROVE  BInv'
  BY <1>3 DEF DeliverCommitFailed, BInv, BroadcastOnlyPersisted, kvVars
<1>4. ASSUME NEW t \in TxIds, NEW s \in CallsOf(t), DeliverAccepted(t, s)
      PROVE  BInv'
  <2> DEFINE fresh == {dCount + k : k \in 0..(NumSubmissions(s) - 1)}
  <2>1. /\ dLinks' = dLinks \cup {<<t, m>> : m \in fresh}
        /\ batch' \subseteq batch \cup fresh
        /\ UNCHANGED <<kvLinks, sent>>
    BY <1>4 DEF DeliverAccepted, SubmitSyntheticTx, SynthCountRead, kvVars
  <2>. QED
    BY <2>1 DEF BInv, BroadcastOnlyPersisted
<1>5. CASE Commit
  <2>1. kvLinks' = kvLinks \cup dLinks /\ sent' = sent \cup batch /\ batch' = {}
    BY <1>5 DEF Commit
  <2>. QED
    BY <2>1 DEF BInv, BroadcastOnlyPersisted
<1>6. CASE CommitPanic \/ Crash
  BY <1>6 DEF CommitPanic, Crash, BInv, BroadcastOnlyPersisted, kvVars
<1>7. CASE UNCHANGED vars
  BY <1>7 DEF vars, BInv, BroadcastOnlyPersisted
<1>. QED
  BY <1>1, <1>2, <1>3, <1>4, <1>5, <1>6, <1>7 DEF Next, DeliverTx

(***************************************************************************)
(* Commit/BatchSend: every synthetic transaction the leader has sent is    *)
(* linked to its parent on disk, for every number of transactions and      *)
(* blocks: BatchSend runs only after dbTx.Commit has landed the links, and *)
(* a panic or crash in between drops the queue.                            *)
(***************************************************************************)
THEOREM BroadcastAfterPersist == Spec => []BroadcastOnlyPersisted
<1>1. Spec => []BInv
  BY InitBInv, NextBInv, PTL DEF Spec
<1>. QED
  BY <1>1, PTL DEF BInv

-----------------------------------------------------------------------------
(* A record that exists was created by a synthetic transaction. *)
SafeRec(r) == r # Absent => IsSynthetic(TxKind[r.cr])

(***************************************************************************)
(* CreatedOnlyBySynthetic, split into the committed and the buffered       *)
(* record of each data chain (the current record is one of the two).      *)
(***************************************************************************)
CInv ==
  \A c \in Chains \ TxRecordChains : SafeRec(kvState[c]) /\ SafeRec(dState[c])

(* CInv gives CreatedOnlyBySynthetic. *)
LEMMA CInvCreatedOnlyBySynthetic == CInv => CreatedOnlyBySynthetic
BY DEF CInv, SafeRec, CreatedOnlyBySynthetic, Current

(* No record exists initially. *)
LEMMA InitCInv == Init => CInv
BY DEF Init, CInv, SafeRec

(***************************************************************************)
(* The writes of a DeliverTx that reached st.commit(): a chain commit()    *)
(* writes either had a record already (its creator is kept) or had none,  *)
(* and then the writer is synthetic (WrittenAllowed).                      *)
(***************************************************************************)
LEMMA AddStateEntriesCInv ==
  ASSUME TypeOK, CInv, NEW t \in TxIds, NEW s \in Seq(Call),
         AddStateEntries(t, UpdatesWritten(s, IsSynthetic(TxKind[t]), OnDisk)),
         UNCHANGED kvState
  PROVE  CInv'
<1> DEFINE W == UpdatesWritten(s, IsSynthetic(TxKind[t]), OnDisk)
<1> SUFFICES ASSUME NEW c \in Chains \ TxRecordChains
             PROVE  SafeRec(dState'[c])
  BY DEF CInv
<1>1. CASE c \in W
  <2>1. dState'[c] = Written(t, c)
    BY <1>1 DEF AddStateEntries
  <2>2. CASE Current(c) = Absent
    <3>1. c \notin OnDisk
      BY <2>2 DEF Current, OnDisk
    <3>2. IsSynthetic(TxKind[t])
      BY <1>1, <3>1, WrittenAllowed
    <3>. QED
      BY <2>1, <2>2, <3>2 DEF Written, SafeRec
  <2>3. CASE Current(c) # Absent
    <3>1. IsSynthetic(TxKind[Current(c).cr])
      BY <2>3 DEF CInv, SafeRec, Current
    <3>. QED
      BY <2>1, <2>3, <3>1 DEF Written, SafeRec
  <2>. QED
    BY <2>2, <2>3
<1>2. CASE c \notin W
  BY <1>2 DEF AddStateEntries, CInv
<1>. QED
  BY <1>1, <1>2

(* Every executor step keeps CInv. *)
LEMMA NextCInv == TInv /\ CInv /\ [Next]_vars => CInv'
<1> SUFFICES ASSUME TInv, CInv, [Next]_vars PROVE CInv'
  OBVIOUS
<1> USE DEF TInv
<1>1. CASE BeginBlock
  BY <1>1 DEF BeginBlock, CInv, kvVars, dbTxVars
<1>2. ASSUME NEW t \in TxIds,
             \/ DeliverMalformed(t) \/ DeliverUnsupported(t)
             \/ DeliverCheckFailed(t) \/ DeliverRejected(t)
      PROVE  CInv'
  BY <1>2 DEF DeliverMalformed, DeliverUnsupported, DeliverCheckFailed,
              DeliverRejected, CInv, kvVars, dbTxVars
<1>3. ASSUME NEW t \in TxIds, NEW s \in CallsOf(t), DeliverCommitFailed(t, s)
      PROVE  CInv'
  BY <1>3, CallsOfType, AddStateEntriesCInv DEF DeliverCommitFailed, kvVars
<1>4. ASSUME NEW t \in TxIds, NEW s \in CallsOf(t), DeliverAccepted(t, s)
      PROVE  CInv'
  BY <1>4, CallsOfType, AddStateEntriesCInv DEF DeliverAccepted, kvVars
<1>5. CASE Commit
  <2>1. kvState' = [c \in Chains |-> Current(c)] /\ dState' = [c \in Chains |-> Absent]
    BY <1>5 DEF Commit, ResetDbTx
  <2>. QED
    BY <2>1 DEF CInv, SafeRec, Current
<1>6. CASE CommitPanic \/ Crash
  <2>1. UNCHANGED kvState /\ dState' = [c \in Chains |-> Absent]
    BY <1>6 DEF CommitPanic, Crash, ResetDbTx, kvVars
  <2>. QED
    BY <2>1 DEF CInv, SafeRec
<1>7. CASE UNCHANGED vars
  BY <1>7 DEF vars, CInv
<1>. QED
  BY <1>1, <1>2, <1>3, <1>4, <1>5, <1>6, <1>7 DEF Next, DeliverTx

(***************************************************************************)
(* StateManager.commit: for every number of chains, transactions and       *)
(* blocks, a data record that exists was created by a synthetic            *)
(* transaction: a user transaction's Update of a chain with no record on  *)
(* disk is refused before it is written.                                   *)
(***************************************************************************)
THEOREM CreateOnlySynthetic == Spec => []CreatedOnlyBySynthetic
<1>1. Spec => [](TInv /\ CInv)
  BY InitTInv, NextTInv, InitCInv, NextCInv, PTL DEF Spec
<1>. QED
  BY <1>1, CInvCreatedOnlyBySynthetic, PTL

-----------------------------------------------------------------------------
(***************************************************************************)
(* The directory index of every identity, committed and as the            *)
(* DBTransaction reads it, holds exactly as many entries as its Metadata   *)
(* count says.                                                            *)
(***************************************************************************)
DInv ==
  \A i \in Identities :
    /\ kvDir[i].count = Len(kvDir[i].ent)
    /\ dDir[i].count = Len(dDir[i].ent)

(* What queryDirectoryByChainId answers for identity i. *)
DirQueryAnswers ==
  \A i \in Identities :
    /\ QueryDirectory(i).found = (0 < kvDir[i].count)
    /\ QueryDirectory(i).entries = IF 0 < kvDir[i].count THEN kvDir[i].ent ELSE <<>>

(* Flushing adds onto an index whose count matches its entries keeps them matched. *)
LEMMA FlushDirLen ==
  ASSUME NEW d \in DirIndex, d.count = Len(d.ent), NEW adds \in Seq(Chains)
  PROVE  FlushDir(d, adds).count = Len(FlushDir(d, adds).ent)
<1>1. d.count \in Nat /\ d.ent \in Seq(Chains)
  BY DEF DirIndex
<1>2. ~(Len(d.ent) < d.count + Len(adds)) => Len(adds) = 0
  BY <1>1
<1>. QED
  BY <1>1, <1>2 DEF FlushDir

LEMMA InitDInv == Init => DInv
BY DEF Init, DInv

(* Every step keeps DInv: AddDirectoryEntry writes one entry per count,   *)
(* Commit makes the DBTransaction's index the committed one, and a panic  *)
(* or restart rereads the committed index.                                *)
LEMMA NextDInv == TInv /\ DInv /\ [Next]_vars => DInv'
<1> SUFFICES ASSUME TInv, DInv, [Next]_vars PROVE DInv'
  OBVIOUS
<1>1. ASSUME NEW t \in TxIds, NEW s \in CallsOf(t), FlushIndex(t, s),
             UNCHANGED kvDir
      PROVE  DInv'
  <2>1. s \in ValidateCalls
    BY DEF CallsOf
  <2>2. \A i \in Identities : DirAdds(s, i) \in Seq(Chains)
    BY <2>1, DirCallsAssumption
  <2>3. \A i \in Identities : DirAdds(s, i) # <<>> =>
          FlushDir(dDir[i], DirAdds(s, i)).count = Len(FlushDir(dDir[i], DirAdds(s, i)).ent)
    BY <2>2, FlushDirLen DEF DInv, TInv, TypeOK
  <2>. QED
    BY <1>1, <2>3 DEF FlushIndex, FlushedIndex, DirRead, DInv
<1>2. ASSUME NEW t \in TxIds, DeliverTx(t) PROVE DInv'
  <2>1. CASE UNCHANGED <<kvDir, dDir>>
    BY <2>1 DEF DInv
  <2>2. CASE \E s \in CallsOf(t) : FlushIndex(t, s) /\ UNCHANGED kvDir
    BY <2>2, <1>1
  <2>. QED
    BY <1>2, <2>1, <2>2 DEF DeliverTx, DeliverMalformed, DeliverUnsupported,
       DeliverCheckFailed, DeliverRejected, DeliverCommitFailed, DeliverAccepted,
       kvVars, dbTxVars
<1>3. CASE Commit
  BY <1>3 DEF Commit, ResetDbTx, DInv
<1>4. CASE CommitPanic \/ Crash
  BY <1>4 DEF CommitPanic, Crash, ResetDbTx, kvVars, DInv
<1>5. CASE BeginBlock \/ UNCHANGED vars
  BY <1>5 DEF BeginBlock, kvVars, dbTxVars, vars, DInv
<1>. QED
  BY <1>2, <1>3, <1>4, <1>5 DEF Next

(* With counts equal to lengths, the directory query returns the committed *)
(* entries, and finds an identity exactly when its count is positive.      *)
LEMMA DirQueryAnswersFromDInv == TInv /\ DInv => DirQueryAnswers
<1> SUFFICES ASSUME TInv, DInv, NEW i \in Identities
             PROVE  /\ QueryDirectory(i).found = (0 < kvDir[i].count)
                    /\ QueryDirectory(i).entries =
                         IF 0 < kvDir[i].count THEN kvDir[i].ent ELSE <<>>
  BY DEF DirQueryAnswers
<1> DEFINE e == kvDir[i].ent
           n == kvDir[i].count
<1>1. e \in Seq(Chains) /\ n = Len(e)
  BY DEF TInv, TypeOK, DInv, DirIndex
<1>2. SubSeq(e, 1, n) = e
  <2>1. n \in Int /\ \A k \in 1 .. n : e[k] \in Chains
    BY <1>1
  <2>2. /\ SubSeq(e, 1, n) \in Seq(Chains)
        /\ Len(SubSeq(e, 1, n)) = IF 1 <= n THEN n - 1 + 1 ELSE 0
        /\ \A k \in 1 .. n - 1 + 1 : SubSeq(e, 1, n)[k] = e[1 + k - 1]
    BY <2>1, SubSeqProperties
  <2>. QED
    BY <1>1, <2>2, SeqEqual
<1>3. QueryDirectory(i) = [found   |-> 0 < n /\ n <= Len(e),
                           entries |-> IF 0 < n /\ n <= Len(e) THEN SubSeq(e, 1, n) ELSE <<>>]
  BY DEF QueryDirectory
<1>5. /\ QueryDirectory(i).found = (0 < n)
      /\ QueryDirectory(i).entries = IF 0 < n THEN e ELSE <<>>
  <2>1. CASE 0 < n
    <3>1. 0 < n /\ n <= Len(e)
      BY <2>1, <1>1
    <3>. QED
      BY <3>1, <2>1, <1>2, <1>3
  <2>2. CASE ~(0 < n)
    <3>1. ~(0 < n /\ n <= Len(e))
      BY <2>2
    <3>. QED
      BY <3>1, <2>2, <1>3
  <2>. QED
    BY <2>1, <2>2
<1>. QED
  BY <1>5

(***************************************************************************)
(* queryDirectoryByChainId never fails on a missing entry: in every state, *)
(* for every number of identities, transactions and blocks, the DirectoryUrl*)
(* query of an identity finds it exactly when its committed count is      *)
(* positive and returns all of its committed entries.                     *)
(***************************************************************************)
THEOREM DirectoryQueryComplete == Spec => []DirQueryAnswers
<1>1. TInv /\ DInv => DirQueryAnswers
  BY DirQueryAnswersFromDInv
<1>2. Spec => [](TInv /\ DInv)
  BY InitTInv, NextTInv, InitDInv, NextDInv, PTL DEF Spec
<1>. QED
  BY <1>1, <1>2, PTL

=============================================================================
