-------------------------- MODULE DirectoryProofs ---------------------------
(***************************************************************************)
(* Proof that the directory index lists every committed AddDirectoryEntry *)
(* call of an identity, once and in order (Executor!DirectoryListsEveryAdd)*)
(* for every value of the constants.  The entries of identity i are the   *)
(* logged calls at the positions LoggedAt(log, i), taken by rank; logging  *)
(* a block's calls after the committed ones appends their entries.        *)
(***************************************************************************)
EXTENDS ExecutorProofs, RankProofs

(* A log of AddDirectoryEntry calls: <<transaction, chain>> pairs. *)
LogSeq == Seq(TxIds \X Chains)

(* The logged positions of identity i are positions of the log. *)
LEMMA LoggedAtType ==
  ASSUME NEW a \in LogSeq, NEW i
  PROVE  /\ LoggedAt(a, i) \in SUBSET (1..Len(a))
         /\ LoggedAt(a, i) \in SUBSET (Nat \ {0})
         /\ IsFiniteSet(LoggedAt(a, i))
         /\ Cardinality(LoggedAt(a, i)) \in Nat
<1>1. LoggedAt(a, i) \in SUBSET (1..Len(a))
  BY DEF LoggedAt
<1>2. IsFiniteSet(1..Len(a))
  BY FS_Interval DEF LogSeq
<1>3. IsFiniteSet(LoggedAt(a, i))
  BY <1>1, <1>2, FS_Subset
<1>. QED
  BY <1>1, <1>3, FS_CardinalityType DEF LogSeq

(* The entries logged for i form a sequence of chains, one per position. *)
LEMMA LoggedForType ==
  ASSUME NEW a \in LogSeq, NEW i
  PROVE  /\ LoggedFor(a, i) \in Seq(Chains)
         /\ Len(LoggedFor(a, i)) = Cardinality(LoggedAt(a, i))
<1> DEFINE A == LoggedAt(a, i)
<1>1. A \in SUBSET (1..Len(a)) /\ IsFiniteSet(A) /\ Cardinality(A) \in Nat
  BY LoggedAtType
<1>2. \A r \in 1..Cardinality(A) : NthOf(A, r) \in A
  BY <1>1, NthOfRank
<1>3. \A r \in 1..Cardinality(A) : a[NthOf(A, r)][2] \in Chains
  BY <1>1, <1>2 DEF LogSeq
<1>. QED
  BY <1>1, <1>3 DEF LoggedFor

(* The entry of rank r is the chain logged at the position of rank r. *)
LEMMA LoggedForAt ==
  ASSUME NEW a \in LogSeq, NEW i, NEW r \in 1..Cardinality(LoggedAt(a, i))
  PROVE  LoggedFor(a, i)[r] = a[NthOf(LoggedAt(a, i), r)][2]
BY DEF LoggedFor

(* An empty log has no entries. *)
LEMMA LoggedForEmpty ==
  ASSUME NEW i
  PROVE  LoggedFor(<<>>, i) = <<>>
<1>1. LoggedAt(<<>>, i) = {}
  BY DEF LoggedAt
<1>2. Cardinality(LoggedAt(<<>>, i)) = 0
  BY <1>1, FS_EmptySet
<1>. QED
  BY <1>2 DEF LoggedFor

(* The logged positions of a concatenation: those of a, and those of b    *)
(* shifted past a.                                                        *)
LEMMA LoggedAtConcat ==
  ASSUME NEW a \in LogSeq, NEW b \in LogSeq, NEW i
  PROVE  LoggedAt(a \o b, i) = Shifted(LoggedAt(a, i), Len(a), LoggedAt(b, i))
<1> DEFINE ab == a \o b
<1>1. Len(ab) = Len(a) + Len(b)
      /\ \A j \in 1..Len(a) : ab[j] = a[j]
      /\ \A m \in 1..Len(b) : ab[Len(a) + m] = b[m]
  BY DEF LogSeq
<1>2. ASSUME NEW k \in LoggedAt(ab, i)
      PROVE  k \in Shifted(LoggedAt(a, i), Len(a), LoggedAt(b, i))
  <2>1. k \in 1..Len(ab) /\ IdentityOf[ab[k][2]] = i
    BY DEF LoggedAt
  <2>2. CASE k <= Len(a)
    <3>1. k \in LoggedAt(a, i)
      BY <1>1, <2>1, <2>2 DEF LoggedAt, LogSeq
    <3>. QED
      BY <3>1 DEF Shifted
  <2>3. CASE ~(k <= Len(a))
    <3>1. k - Len(a) \in LoggedAt(b, i)
      BY <1>1, <2>1, <2>3 DEF LoggedAt, LogSeq
    <3>2. k = Len(a) + (k - Len(a))
      BY <2>1 DEF LogSeq
    <3>. QED
      BY <3>1, <3>2 DEF Shifted
  <2>. QED
    BY <2>2, <2>3
<1>3. ASSUME NEW k \in LoggedAt(a, i) PROVE k \in LoggedAt(ab, i)
  BY <1>1 DEF LoggedAt, LogSeq
<1>4. ASSUME NEW x \in LoggedAt(b, i) PROVE Len(a) + x \in LoggedAt(ab, i)
  BY <1>1 DEF LoggedAt, LogSeq
<1>. QED
  BY <1>2, <1>3, <1>4 DEF Shifted
(* Logging b after a appends b's entries of identity i to a's. *)
LEMMA LoggedForConcat ==
  ASSUME NEW a \in LogSeq, NEW b \in LogSeq, NEW i
  PROVE  LoggedFor(a \o b, i) = LoggedFor(a, i) \o LoggedFor(b, i)
<1> DEFINE A == LoggedAt(a, i)
<1> DEFINE B == LoggedAt(b, i)
<1> DEFINE na == Cardinality(A)
<1> DEFINE nb == Cardinality(B)
<1>9. a \o b \in LogSeq
  BY DEF LogSeq
<1>0. PICK ab \in LogSeq : ab = a \o b
  BY <1>9, Zenon
<1>1. /\ A \in SUBSET (1..Len(a)) /\ IsFiniteSet(A) /\ na \in Nat
      /\ B \in SUBSET (Nat \ {0}) /\ IsFiniteSet(B) /\ nb \in Nat
      /\ B \in SUBSET (1..Len(b))
  BY LoggedAtType
<1>2. LoggedAt(ab, i) = Shifted(A, Len(a), B)
  BY <1>0, LoggedAtConcat
<1>7. Len(a) \in Nat
  BY DEF LogSeq
<1>8. Cardinality(Shifted(A, Len(a), B)) = na + nb
  BY <1>1, <1>7, ShiftedFacts
<1>3. Cardinality(LoggedAt(ab, i)) = na + nb
  BY <1>2, <1>8
<1>4. /\ LoggedFor(a, i) \in Seq(Chains) /\ Len(LoggedFor(a, i)) = na
      /\ LoggedFor(b, i) \in Seq(Chains) /\ Len(LoggedFor(b, i)) = nb
      /\ LoggedFor(ab, i) \in Seq(Chains) /\ Len(LoggedFor(ab, i)) = na + nb
  BY <1>0, <1>3, LoggedForType
<1>5. ASSUME NEW r \in 1..na
      PROVE  LoggedFor(ab, i)[r] = LoggedFor(a, i)[r]
  <2>0. NthOf(Shifted(A, Len(a), B), r) = NthOf(A, r)
    BY <1>1, <1>7, ShiftedFirst
  <2>1. NthOf(LoggedAt(ab, i), r) = NthOf(A, r)
    BY <1>2, <2>0
  <2>2. NthOf(A, r) \in 1..Len(a)
    BY <1>1, NthOfRank
  <2>3. ab[NthOf(A, r)] = a[NthOf(A, r)]
    BY <1>0, <2>2 DEF LogSeq
  <2>6. r \in 1..Cardinality(LoggedAt(ab, i))
    BY <1>1, <1>3
  <2>4. LoggedFor(ab, i)[r] = ab[NthOf(LoggedAt(ab, i), r)][2]
    BY <1>0, <2>6, LoggedForAt
  <2>5. LoggedFor(a, i)[r] = a[NthOf(A, r)][2]
    BY DEF LoggedFor
  <2>. QED
    BY <2>1, <2>3, <2>4, <2>5
<1>6. ASSUME NEW r \in 1..nb
      PROVE  LoggedFor(ab, i)[na + r] = LoggedFor(b, i)[r]
  <2>0. NthOf(Shifted(A, Len(a), B), na + r) = Len(a) + NthOf(B, r)
    BY <1>1, <1>7, ShiftedSecond
  <2>1. NthOf(LoggedAt(ab, i), na + r) = Len(a) + NthOf(B, r)
    BY <1>2, <2>0
  <2>2. NthOf(B, r) \in 1..Len(b)
    BY <1>1, NthOfRank
  <2>3. ab[Len(a) + NthOf(B, r)] = b[NthOf(B, r)]
    BY <1>0, <2>2 DEF LogSeq
  <2>6. na + r \in 1..Cardinality(LoggedAt(ab, i))
    BY <1>1, <1>3
  <2>4. LoggedFor(ab, i)[na + r] = ab[NthOf(LoggedAt(ab, i), na + r)][2]
    BY <1>0, <2>6, LoggedForAt
  <2>5. LoggedFor(b, i)[r] = b[NthOf(B, r)][2]
    BY DEF LoggedFor
  <2>. QED
    BY <2>1, <2>3, <2>4, <2>5
<1>10. PICK fa \in Seq(Chains) : fa = LoggedFor(a, i)
  BY <1>4, Zenon
<1>11. PICK fb \in Seq(Chains) : fb = LoggedFor(b, i)
  BY <1>4, Zenon
<1>12. PICK fab \in Seq(Chains) : fab = LoggedFor(ab, i)
  BY <1>4, Zenon
<1>13. /\ fa \o fb \in Seq(Chains)
       /\ Len(fa \o fb) = na + nb
       /\ \A r \in 1..na : (fa \o fb)[r] = fa[r]
       /\ \A r \in 1..nb : (fa \o fb)[na + r] = fb[r]
  BY <1>1, <1>4, <1>10, <1>11
<1>14. \A r \in 1..Len(fab) : fab[r] = (fa \o fb)[r]
  <2> SUFFICES ASSUME NEW r \in 1..(na + nb) PROVE fab[r] = (fa \o fb)[r]
    BY <1>4, <1>12
  <2>1. CASE r <= na
    BY <2>1, <1>1, <1>5, <1>10, <1>12, <1>13
  <2>2. CASE ~(r <= na)
    <3>1. r - na \in 1..nb /\ r = na + (r - na)
      BY <2>2, <1>1
    <3>. QED
      BY <3>1, <1>6, <1>11, <1>12, <1>13
  <2>. QED
    BY <2>1, <2>2
<1>15. fab = fa \o fb
  BY <1>4, <1>12, <1>13, <1>14, SeqEqual
<1>. QED
  BY <1>0, <1>10, <1>11, <1>12, <1>15
-----------------------------------------------------------------------------
(***************************************************************************)
(* The strengthening of DirectoryListsEveryAdd: the entries of every      *)
(* identity, committed and as the DBTransaction reads them, are the       *)
(* chains of its logged calls in order.  With DInv (counts equal lengths) *)
(* it gives what the query answers.                                       *)
(***************************************************************************)
LInv ==
  \A i \in Identities :
    /\ kvDir[i].ent = LoggedFor(kvDirLog, i)
    /\ dDir[i].ent = LoggedFor(kvDirLog \o dDirLog, i)

(* Flushing adds onto an index whose count matches its entries appends them. *)
LEMMA FlushDirEnt ==
  ASSUME NEW d \in DirIndex, d.count = Len(d.ent), NEW adds \in Seq(Chains)
  PROVE  FlushDir(d, adds).ent = d.ent \o adds
<1>1. d.count \in Nat /\ d.ent \in Seq(Chains)
  BY DEF DirIndex
<1>2. PICK e \in Seq(Chains) : e = d.ent
  BY <1>1, Zenon
<1>3. FlushDir(d, adds).ent
        = [j \in 1..(Len(e) + Len(adds)) |->
             IF Len(e) < j THEN adds[j - Len(e)] ELSE e[j]]
  <2>1. Len(e) + Len(adds) \in Nat /\ ~(Len(e) + Len(adds) < Len(e))
    BY <1>2
  <2>. QED
    BY <1>1, <1>2, <2>1 DEF FlushDir
<1>4. e \o adds = [j \in 1..(Len(e) + Len(adds)) |->
                     IF Len(e) < j THEN adds[j - Len(e)] ELSE e[j]]
  BY <1>2
<1>. QED
  BY <1>2, <1>3, <1>4

LEMMA InitLInv == Init => LInv
<1> SUFFICES ASSUME Init, NEW i \in Identities
             PROVE  /\ kvDir[i].ent = LoggedFor(kvDirLog, i)
                    /\ dDir[i].ent = LoggedFor(kvDirLog \o dDirLog, i)
  BY DEF LInv
<1>1. kvDirLog \o dDirLog = <<>>
  BY DEF Init
<1>2. LoggedFor(<<>>, i) = <<>>
  BY LoggedForEmpty
<1>. QED
  BY <1>1, <1>2 DEF Init
(* commit()'s flush of m.writes appends, for every identity, its adds of  *)
(* the transaction to the index the DBTransaction reads, and logs them.   *)
LEMMA FlushLInv ==
  ASSUME TInv, DInv, LInv, NEW t \in TxIds, NEW s \in CallsOf(t), FlushIndex(t, s),
         UNCHANGED <<kvDir, kvDirLog>>
  PROVE  LInv'
<1> SUFFICES ASSUME NEW i \in Identities
             PROVE  /\ kvDir'[i].ent = LoggedFor(kvDirLog', i)
                    /\ dDir'[i].ent = LoggedFor(kvDirLog' \o dDirLog', i)
  BY DEF LInv
<1>1. kvDir'[i].ent = LoggedFor(kvDirLog', i)
  BY DEF LInv
<1>2. s \in ValidateCalls
  BY DEF CallsOf
<1>3. DirCalls(s) \in Seq(Chains) /\ DirAdds(s, i) \in Seq(Chains)
  BY <1>2, DirCallsAssumption
<1>4. [k \in 1..Len(DirCalls(s)) |-> <<t, DirCalls(s)[k]>>] \in LogSeq
  BY <1>3 DEF LogSeq
<1>5. PICK N \in LogSeq : N = [k \in 1..Len(DirCalls(s)) |-> <<t, DirCalls(s)[k]>>]
  BY <1>4, Zenon
<1>6. LoggedFor(N, i) = DirAdds(s, i)
  BY <1>2, <1>5, DirLogAssumption
<1>7. kvDirLog \in LogSeq /\ dDirLog \in LogSeq
  BY DEF TInv, TypeOK, LogSeq
<1>8. PICK L \in LogSeq : L = kvDirLog \o dDirLog
  <2>1. kvDirLog \o dDirLog \in LogSeq
    BY <1>7 DEF LogSeq
  <2>. QED
    BY <2>1, Zenon
<1>9. kvDirLog' \o dDirLog' = L \o N
  <2>1. dDirLog' = dDirLog \o N /\ kvDirLog' = kvDirLog
    BY <1>5 DEF FlushIndex
  <2>3. PICK K0 \in Seq(TxIds \X Chains) : K0 = kvDirLog
    BY <1>7, Zenon DEF LogSeq
  <2>4. PICK D0 \in Seq(TxIds \X Chains) : D0 = dDirLog
    BY <1>7, Zenon DEF LogSeq
  <2>5. N \in Seq(TxIds \X Chains) /\ K0 \o D0 \in Seq(TxIds \X Chains)
        /\ D0 \o N \in Seq(TxIds \X Chains)
    BY <1>5 DEF LogSeq
  <2>6. K0 \o (D0 \o N) = (K0 \o D0) \o N
    BY <2>5, SMTT(30)
  <2>2. kvDirLog \o (dDirLog \o N) = (kvDirLog \o dDirLog) \o N
    BY <2>3, <2>4, <2>6
  <2>. QED
    BY <1>8, <2>1, <2>2
<1>13. LoggedFor(L \o N, i) = LoggedFor(L, i) \o LoggedFor(N, i)
  BY <1>5, <1>8, LoggedForConcat
<1>10. LoggedFor(L \o N, i) = LoggedFor(L, i) \o DirAdds(s, i)
  BY <1>6, <1>13
<1>11. dDir[i] \in DirIndex /\ dDir[i].count = Len(dDir[i].ent)
       /\ dDir[i].ent = LoggedFor(L, i)
  BY <1>8 DEF TInv, TypeOK, DInv, LInv
<1>12. dDir'[i].ent = dDir[i].ent \o DirAdds(s, i)
  <2>1. dDir'[i] = IF DirAdds(s, i) = <<>> THEN dDir[i] ELSE FlushDir(dDir[i], DirAdds(s, i))
    BY DEF FlushIndex, FlushedIndex, DirRead
  <2>2. dDir[i].ent \in Seq(Chains)
    BY <1>11 DEF DirIndex
  <2>3. CASE DirAdds(s, i) = <<>>
    BY <2>1, <2>2, <2>3
  <2>4. CASE DirAdds(s, i) # <<>>
    <3>1. FlushDir(dDir[i], DirAdds(s, i)).ent = dDir[i].ent \o DirAdds(s, i)
      BY <1>3, <1>11, FlushDirEnt
    <3>. QED
      BY <2>1, <2>4, <3>1
  <2>. QED
    BY <2>3, <2>4
<1>. QED
  BY <1>1, <1>9, <1>10, <1>11, <1>12
(* A log followed by the empty log lists the same entries. *)
LEMMA LoggedForEmptyTail ==
  ASSUME NEW a \in LogSeq, NEW i
  PROVE  LoggedFor(a \o <<>>, i) = LoggedFor(a, i)
<1>1. a \o <<>> = a
  BY DEF LogSeq
<1>. QED
  BY <1>1

(* Every step keeps LInv: a flush appends the transaction's adds to the   *)
(* index and to the log alike, Commit makes both the committed ones, and  *)
(* a panic or a restart drops both back to the committed ones.            *)
LEMMA NextLInv == TInv /\ DInv /\ LInv /\ [Next]_vars => LInv'
<1> SUFFICES ASSUME TInv, DInv, LInv, [Next]_vars PROVE LInv'
  OBVIOUS
<1>0. kvDirLog \in LogSeq /\ dDirLog \in LogSeq
  BY DEF TInv, TypeOK, LogSeq
<1>1. ASSUME NEW t \in TxIds, DeliverTx(t) PROVE LInv'
  <2>1. CASE UNCHANGED <<kvDir, dDir, kvDirLog, dDirLog>>
    BY <2>1 DEF LInv
  <2>2. CASE \E s \in CallsOf(t) : FlushIndex(t, s) /\ UNCHANGED <<kvDir, kvDirLog>>
    BY <2>2, FlushLInv
  <2>. QED
    BY <1>1, <2>1, <2>2 DEF DeliverTx, DeliverMalformed, DeliverUnsupported,
       DeliverCheckFailed, DeliverRejected, DeliverCommitFailed, DeliverAccepted,
       kvVars, dbTxVars
<1>2. CASE Commit
  <2> SUFFICES ASSUME NEW i \in Identities
               PROVE  /\ kvDir'[i].ent = LoggedFor(kvDirLog', i)
                      /\ dDir'[i].ent = LoggedFor(kvDirLog' \o dDirLog', i)
    BY DEF LInv
  <2>1. kvDir' = dDir /\ dDir' = dDir /\ kvDirLog' = kvDirLog \o dDirLog /\ dDirLog' = <<>>
    BY <1>2 DEF Commit, ResetDbTx
  <2>2. kvDirLog \o dDirLog \in LogSeq
    BY <1>0 DEF LogSeq
  <2>3. LoggedFor((kvDirLog \o dDirLog) \o <<>>, i) = LoggedFor(kvDirLog \o dDirLog, i)
    BY <2>2, LoggedForEmptyTail
  <2>. QED
    BY <2>1, <2>3 DEF LInv
<1>3. CASE CommitPanic \/ Crash
  <2> SUFFICES ASSUME NEW i \in Identities
               PROVE  /\ kvDir'[i].ent = LoggedFor(kvDirLog', i)
                      /\ dDir'[i].ent = LoggedFor(kvDirLog' \o dDirLog', i)
    BY DEF LInv
  <2>1. kvDir' = kvDir /\ dDir' = kvDir /\ kvDirLog' = kvDirLog /\ dDirLog' = <<>>
    BY <1>3 DEF CommitPanic, Crash, ResetDbTx, kvVars
  <2>2. LoggedFor(kvDirLog \o <<>>, i) = LoggedFor(kvDirLog, i)
    BY <1>0, LoggedForEmptyTail
  <2>. QED
    BY <2>1, <2>2 DEF LInv
<1>4. CASE BeginBlock \/ UNCHANGED vars
  BY <1>4 DEF BeginBlock, kvVars, dbTxVars, vars, LInv
<1>. QED
  BY <1>1, <1>2, <1>3, <1>4 DEF Next

(***************************************************************************)
(* AddDirectoryEntry/commit(): in every state, for every number of        *)
(* identities, chains, transactions and blocks, the DirectoryUrl query of *)
(* every identity lists each committed add once and in the order of the   *)
(* calls, and is NotFound only when there is none; the index the          *)
(* DBTransaction reads lists the flushed adds alike, and both counts      *)
(* equal the number of entries.  No later transaction of a block          *)
(* overwrites an entry with a stale count.                                *)
(***************************************************************************)
THEOREM DirectoryListsEveryAddHolds == Spec => []DirectoryListsEveryAdd
<1>1. TInv /\ DInv /\ LInv => DirectoryListsEveryAdd
  <2> SUFFICES ASSUME TInv, DInv, LInv, NEW i \in Identities
               PROVE  /\ Query([type |-> "directory", id |-> i]).entries = LoggedFor(kvDirLog, i)
                      /\ Query([type |-> "directory", id |-> i]).found = (LoggedFor(kvDirLog, i) # <<>>)
                      /\ kvDir[i].count = Len(kvDir[i].ent)
                      /\ dDir[i].ent = LoggedFor(kvDirLog \o dDirLog, i)
                      /\ dDir[i].count = Len(dDir[i].ent)
    BY DEF DirectoryListsEveryAdd
  <2>1. Query([type |-> "directory", id |-> i]) = QueryDirectory(i)
    BY DEF Query
  <2>2. /\ QueryDirectory(i).found = (0 < kvDir[i].count)
        /\ QueryDirectory(i).entries = IF 0 < kvDir[i].count THEN kvDir[i].ent ELSE <<>>
    BY DirQueryAnswersFromDInv DEF DirQueryAnswers
  <2>3. kvDir[i].ent \in Seq(Chains) /\ kvDir[i].count = Len(kvDir[i].ent)
        /\ kvDir[i].ent = LoggedFor(kvDirLog, i)
    BY DEF TInv, TypeOK, DInv, DirIndex, LInv
  <2>4. (0 < kvDir[i].count) = (kvDir[i].ent # <<>>)
    BY <2>3
  <2>5. ~(0 < kvDir[i].count) => kvDir[i].ent = <<>>
    BY <2>3
  <2>. QED
    BY <2>1, <2>2, <2>3, <2>4, <2>5 DEF DInv, LInv
<1>2. Spec => [](TInv /\ DInv /\ LInv)
  BY InitTInv, NextTInv, InitDInv, NextDInv, InitLInv, NextLInv, PTL DEF Spec
<1>. QED
  BY <1>1, <1>2, PTL
=============================================================================
