------------------------ MODULE OutboxRefinementProofs ------------------------
(***************************************************************************)
(* The executor implements the synthetic outbox (SynthOutbox.tla) under   *)
(* the mapping links <- kvLinks, count <- kvCount, sent <- sent, for every *)
(* value of the constants.  The step simulation rests on the invariants    *)
(* proved in ExecutorProofs: TInv (types), NInv (where nonces lie) and     *)
(* BInv (the queued batch is linked in the block's DBTransaction).         *)
(***************************************************************************)
EXTENDS ExecutorProofs

(* The three invariants the simulation needs hold in every state. *)
LEMMA RefinementInvariants == Spec => [](TInv /\ NInv /\ BInv)
<1>1. TInv /\ NInv /\ BInv /\ [Next]_vars => (TInv /\ NInv /\ BInv)'
  BY NextTInv, NextNInv, NextBInv
<1>. QED
  BY <1>1, InitTInv, InitNInv, InitBInv, PTL DEF Spec

(* The initial state of the executor is the empty outbox. *)
LEMMA InitOutbox == Init => Outbox!Init
BY DEF Init, Outbox!Init

(***************************************************************************)
(* Commit is a CommitBlock of the outbox: the block's links are exactly    *)
(* the new ones, their nonces lie between the committed counter and the   *)
(* DBTransaction's, and the sent batch is linked in the block.            *)
(***************************************************************************)
LEMMA CommitOutbox ==
  ASSUME TInv, NInv, BInv, Commit
  PROVE  Outbox!CommitBlock
<1> DEFINE new == kvLinks' \ kvLinks
<1>1. /\ kvLinks' = kvLinks \cup dLinks
      /\ kvCount' = dCount
      /\ sent' = sent \cup batch
  BY DEF Commit
<1>2. new = dLinks
  <2>1. \A l \in dLinks : l \notin kvLinks
    BY DEF NInv, TInv, TypeOK
  <2>. QED
    BY <1>1, <2>1
<1>3. kvCount' \in Nat /\ kvCount <= kvCount'
  BY <1>1 DEF TInv, TypeOK, NInv
<1>4. kvLinks' \subseteq TxIds \X Nat
  BY <1>1 DEF TInv, TypeOK
<1>5. \A l \in new : kvCount <= l[2] /\ l[2] < kvCount'
  BY <1>1, <1>2 DEF NInv
<1>6. \A l1, l2 \in new : l1[2] = l2[2] => l1 = l2
  BY <1>2 DEF NInv
<1>7. sent' \ sent \subseteq Outbox!Nonces(new)
  <2> SUFFICES ASSUME NEW m \in batch PROVE m \in Outbox!Nonces(new)
    BY <1>1
  <2>1. PICK p \in TxIds : <<p, m>> \in dLinks
    BY DEF BInv
  <2>. QED
    BY <2>1, <1>2 DEF Outbox!Nonces
<1>. QED
  BY <1>1, <1>3, <1>4, <1>5, <1>6, <1>7 DEF Outbox!CommitBlock

(***************************************************************************)
(* Every other executor step leaves the committed links, the committed     *)
(* counter and the sent set alone: it is a stutter step of the outbox.     *)
(***************************************************************************)
LEMMA OtherStepsStutter ==
  ASSUME [Next]_vars, ~Commit
  PROVE  UNCHANGED <<kvLinks, kvCount, sent>>
<1>1. CASE BeginBlock
  BY <1>1 DEF BeginBlock, kvVars
<1>2. ASSUME NEW t \in TxIds, DeliverTx(t) PROVE UNCHANGED <<kvLinks, kvCount, sent>>
  BY <1>2 DEF DeliverTx, DeliverMalformed, DeliverUnsupported, DeliverCheckFailed,
              DeliverRejected, DeliverCommitFailed, DeliverAccepted, kvVars
<1>3. CASE CommitPanic \/ Crash
  BY <1>3 DEF CommitPanic, Crash, kvVars
<1>4. CASE UNCHANGED vars
  BY <1>4 DEF vars
<1>. QED
  BY <1>1, <1>2, <1>3, <1>4 DEF Next

(***************************************************************************)
(* Executor.Commit and submitSyntheticTx implement the outbox: synthetic   *)
(* transactions are numbered upward from the committed counter, one link   *)
(* per nonce, become visible only at dbTx.Commit, and BatchSend sends only *)
(* those of the block just persisted, for every number of transactions,    *)
(* chains and blocks, across failed commits and restarts.                  *)
(***************************************************************************)
THEOREM OutboxRefinement == Spec => SynthOutboxRefined
<1>1. TInv /\ NInv /\ BInv /\ [Next]_vars => [Outbox!Next]_Outbox!ovars
  <2> SUFFICES ASSUME TInv, NInv, BInv, [Next]_vars
               PROVE  [Outbox!Next]_Outbox!ovars
    OBVIOUS
  <2>1. CASE Commit
    BY <2>1, CommitOutbox DEF Outbox!Next
  <2>2. CASE ~Commit
    BY <2>2, OtherStepsStutter DEF Outbox!ovars
  <2>. QED
    BY <2>1, <2>2
<1>. QED
  BY <1>1, InitOutbox, RefinementInvariants, PTL
     DEF Spec, SynthOutboxRefined, Outbox!Spec
=============================================================================
